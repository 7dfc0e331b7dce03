--------------------------- MODULE CausalReplica ---------------------------
(***************************************************************************)
(* transfer333's Replica: an owner's ledger over the reliable causal       *)
(* broadcast of crdt333 (VectorClockBroadcaster), without a committee.     *)
(* The network loses nothing for ever but reorders and repeats.            *)
(***************************************************************************)
EXTENDS Integers, Sequences, SequencesExt, FiniteSets

CONSTANTS
    Owners, Opening,       \* accounts, each a replica, and their balances
    Amounts,
    MaxSeq, MaxBalance,    \* of the ledger
    MaxSubmit, MaxRepeat   \* bounds of the model

VARIABLES
    ledger,      \* ledger[r]: its view
    delivered,   \* delivered[r]: VersionVector
    pending,     \* pending[r]: early messages, in arrival order
    sent,        \* messages broadcast
    arrivals,    \* arrivals[r]: messages that have reached r
    repeats,
    rejected     \* history: messages some replica's apply refused

crVars == <<ledger, delivered, pending, sent, arrivals, repeats, rejected>>

Rail == INSTANCE TransferLedger

CrInit ==
    /\ ledger = [r \in Owners |-> [o \in Owners |-> [balance |-> Opening, next_seq |-> 0]]]
    /\ delivered = [r \in Owners |-> [o \in Owners |-> 0]]
    /\ pending = [r \in Owners |-> << >>]
    /\ sent = {} /\ repeats = 0 /\ rejected = {}
    /\ arrivals = [r \in Owners |-> {}]

\* Replica::submit: apply at home, then tick and tag
submit(r, to, amount) ==
    LET t == [from |-> r, to |-> to, amount |-> amount, seq |-> Rail!next_seq(ledger[r], r)]
        vv == [delivered[r] EXCEPT ![r] = @ + 1]
    IN  /\ Cardinality(sent) < MaxSubmit
        /\ Rail!preflight(ledger[r], t)
        /\ ledger' = [ledger EXCEPT ![r] = Rail!apply(@, t)]
        /\ delivered' = [delivered EXCEPT ![r] = vv]
        /\ sent' = sent \cup {[sender |-> r, counter |-> vv[r], context |-> vv, payload |-> t]}
        /\ UNCHANGED <<pending, arrivals, repeats, rejected>>

dominates(v, w) == \A o \in Owners : v[o] >= w[o]

\* Mutant: per-sender order only.
can_deliverFifo(v, m) == v[m.sender] + 1 = m.counter
can_deliver(v, m) ==
    /\ v[m.sender] + 1 = m.counter
    /\ dominates([v EXCEPT ![m.sender] = m.counter], m.context)

\* One pass of receive over the pending messages, which delivers as it goes:
\* [vv, out, rest]
Pass(vv, out, ms) ==
    FoldLeft(LAMBDA a, m :
                IF can_deliver(a.vv, m)
                THEN [vv |-> [a.vv EXCEPT ![m.sender] = m.counter],
                      out |-> Append(a.out, m), rest |-> a.rest]
                ELSE [a EXCEPT !.rest = Append(@, m)],
             [vv |-> vv, out |-> out, rest |-> << >>], ms)

\* Passes until one delivers nothing: at most one per message pending.
receive(vv, ms) ==
    LET start == [vv |-> vv, out |-> << >>, rest |-> ms]
    IN  FoldLeft(LAMBDA a, i : Pass(a.vv, a.out, a.rest), start, ms)

\* Replica::deliver applies what became ready, in that order.
Applied(l, ms) ==
    FoldLeft(LAMBDA a, m : IF Rail!preflight(a.l, m.payload)
                           THEN [a EXCEPT !.l = Rail!apply(@, m.payload)]
                           ELSE [a EXCEPT !.bad = @ \cup {m}],
             [l |-> l, bad |-> {}], ms)

Deliver(r, m) ==
    LET got == receive(delivered[r], Append(pending[r], m))
        done == Applied(ledger[r], got.out)
    IN  /\ delivered' = [delivered EXCEPT ![r] = got.vv]
        /\ pending' = [pending EXCEPT ![r] = got.rest]
        /\ ledger' = [ledger EXCEPT ![r] = done.l]
        /\ rejected' = rejected \cup done.bad
        /\ arrivals' = [arrivals EXCEPT ![r] = @ \cup {m}]
        /\ UNCHANGED sent

Arrive(r, m) == m.sender # r /\ m \notin arrivals[r] /\ Deliver(r, m) /\ UNCHANGED repeats
Repeat(r, m) ==
    /\ m \in arrivals[r] /\ repeats < MaxRepeat
    /\ Deliver(r, m) /\ repeats' = repeats + 1

CrNext ==
    \/ \E r, to \in Owners, n \in Amounts : submit(r, to, n)
    \/ \E r \in Owners, m \in sent : Arrive(r, m) \/ Repeat(r, m)

CrSpec == CrInit /\ [][CrNext]_crVars

Complete(r) == \A m \in sent : m.sender = r \/ m \in arrivals[r]

\* Owners spend what they have just been paid while messages overtake each
\* other: no replica ever refuses a transfer its owner could make, every
\* message is delivered after those it depends on and once, and replicas to
\* which everything has come have the same ledger.
CausallyApplied ==
    /\ rejected = {}
    /\ \A r \in Owners : \A m \in sent :
          m.counter <= delivered[r][m.sender] => dominates(delivered[r], m.context)
    /\ \A q, r \in Owners : Complete(q) /\ Complete(r) => ledger[q] = ledger[r]
=============================================================================
