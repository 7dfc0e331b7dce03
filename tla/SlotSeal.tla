------------------------------ MODULE SlotSeal ------------------------------
(***************************************************************************)
(* Recovery of one contested (account, seq) slot (333-slotseal): the       *)
(* committee's vote locks on the slot, and the single-decree agreement     *)
(* that seals it as Finalize(order) or Void (agreement.rs).                *)
(*                                                                         *)
(* Evidence is not shared: a Byzantine authority shows each vote to whom   *)
(* it likes, so a proposal and the node that checks it may hold any votes  *)
(* that exist.  Agreement votes carry a name nobody verifies, so a node    *)
(* may count any committee member at any time.                             *)
(***************************************************************************)
EXTENDS Integers, FiniteSets

CONSTANTS
    Authorities,   \* the committee
    Faulty,        \* its Byzantine members
    Orders,        \* candidate orders for the slot, told apart by (to, amount)
    Rounds         \* the rounds the owner signs orders for

ASSUME SealAssumption ==
    /\ IsFiniteSet(Authorities) /\ Faulty \subseteq Authorities
    /\ Rounds # {}

Honest == Authorities \ Faulty

Void == [kind |-> "void"]
Finalize(o, r) == [kind |-> "finalize", order |-> o, round |-> r]
NoSeal == [kind |-> "none"]
Seals == {Void} \cup {Finalize(o, r) : o \in Orders, r \in Rounds}

VARIABLES
    votes,    \* votes signed by honest authorities on this slot
    node      \* node[n]: the agreement node of an honest authority

vars == <<votes, node>>

VoteType == [auth : Authorities, order : Orders, round : Rounds]

\* Every vote that can be shown: the honest ones, and whatever Faulty signs.
Showable == votes \cup [auth : Faulty, order : Orders, round : Rounds]

(***************************************************************************)
(* Certificates and the Void predicate                                     *)
(***************************************************************************)
n == Cardinality(Authorities)
f == (n - 1) \div 3

\* Mutant: one vote too few.
quorumShort == n - f - 1

quorum == n - f

Voters(E, o) == {a \in Authorities : \E v \in E : v.auth = a /\ v.order = o}

Voted(E) == {a \in Authorities : \E v \in E : v.auth = a}

\* Certificate::verify: a quorum of votes for one order of one round.
Certified(o, r) ==
    Cardinality({a \in Authorities :
        \E v \in Showable : v.auth = a /\ v.order = o /\ v.round = r}) >= quorum

\* Mutant: the votes a Byzantine member may add to an order are not counted.
no_cert_can_formNaive(E) ==
    LET unvoted == n - Cardinality(Voted(E)) IN
    /\ unvoted < quorum
    /\ \A o \in {v.order : v \in E} : Cardinality(Voters(E, o)) + unvoted < quorum

\* On evidence E no order can still reach a quorum: not one that has votes,
\* and not a new one.  The round of a vote is not looked at.
no_cert_can_form(E) ==
    LET unvoted == n - Cardinality(Voted(E)) IN
    /\ f + unvoted < quorum
    /\ \A o \in {v.order : v \in E} : Cardinality(Voters(E, o)) + f + unvoted < quorum

\* A proposal whose evidence, with the votes of the checking node, is valid.
is_externally_valid(s) ==
    \/ s = Void /\ \E E \in SUBSET Showable : no_cert_can_form(E)
    \/ \E o \in Orders, r \in Rounds : s = Finalize(o, r) /\ Certified(o, r)

(***************************************************************************)
(* Actions                                                                 *)
(***************************************************************************)
Init ==
    /\ votes = {}
    /\ node = [a \in Honest |-> [voted_for |-> NoSeal, tally |-> {}, decided |-> NoSeal]]

\* Authority::handle on this slot: one lock per round.
Handle(a, o, r) ==
    /\ \A v \in votes : ~(v.auth = a /\ v.round = r)
    /\ votes' = votes \cup {[auth |-> a, order |-> o, round |-> r]}
    /\ UNCHANGED node

\* record_vote: the seal voted for is decided at a quorum of names.
Recorded(q, name) ==
    LET tally == q.tally \cup {name} IN
    [q EXCEPT !.tally = tally,
              !.decided = IF @ = NoSeal /\ Cardinality(tally) >= quorum
                          THEN q.voted_for ELSE @]

\* Msg::Propose: the node votes once, for a proposal valid on its evidence.
ProcessPropose(a, s) ==
    /\ node[a].voted_for = NoSeal
    /\ is_externally_valid(s)
    /\ node' = [node EXCEPT ![a] = Recorded([@ EXCEPT !.voted_for = s], a)]
    /\ UNCHANGED votes

\* Msg::Vote for the seal this node voted for; votes for others are ignored.
ProcessVote(a, name) ==
    /\ node[a].voted_for # NoSeal
    /\ node' = [node EXCEPT ![a] = Recorded(@, name)]
    /\ UNCHANGED votes

Next ==
    \E a \in Honest :
        \/ \E o \in Orders, r \in Rounds : Handle(a, o, r)
        \/ \E s \in Seals : ProcessPropose(a, s)
        \/ \E name \in Authorities : ProcessVote(a, name)

Spec == Init /\ [][Next]_vars

(***************************************************************************)
(* Properties                                                              *)
(***************************************************************************)
\* No two honest nodes decide different seals, whatever evidence each was shown
\* and whoever voted in whose name (AgreementNode::process).
Agreement ==
    \A a, b \in Honest :
        node[a].decided # NoSeal /\ node[b].decided # NoSeal
        => node[a].decided = node[b].decided

\* Once an honest node has accepted that the slot is void, no certificate for it
\* exists, and none forms later (no_cert_can_form).
VoidSound ==
    \A a \in Honest :
        node[a].voted_for = Void => \A o \in Orders, r \in Rounds : ~Certified(o, r)
=============================================================================
