------------------------------ MODULE RailNode ------------------------------
(***************************************************************************)
(* The authority daemon of transfer333 and its two clients                 *)
(* (333-transfer/src/bin/node.rs, with the drivers of net.rs): who sends   *)
(* what again, when, and whether every member gets there.                  *)
(*                                                                         *)
(* One owner submits one order per sequence number, so an authority is     *)
(* summed up by what it has confirmed, whether it has locked the next      *)
(* order, and where it is in a committee change; module Authority has the  *)
(* contested slots.  Generation 0 is the committee of the command line,    *)
(* generation 1 the one the operator asks for.                             *)
(*                                                                         *)
(* A frame reaches the inbox of each process it is written to, or is lost  *)
(* with a session that died unnoticed; inboxes keep no order, because one  *)
(* reader thread per session fills them.                                   *)
(***************************************************************************)
EXTENDS Integers, FiniteSets

CONSTANTS
    Nodes,       \* authority ids
    Seqs,        \* sequence numbers submitted, 0 .. k
    Deployments, \* what the operators of the behaviours explored set up:
                 \*   roster[g]: members of generation g, for g \in {0, 1}
                 \*   reconfig: whether the operator runs `reconfig'
                 \*   quieted: whether user traffic is quieted first (design 6)
                 \*   restarts: bound on daemons that stop and start again
    MaxLoss,     \* bound on frames lost
    REBROADCAST_IDLE_ROUNDS  \* idle rounds in a row before certificates are
                             \* presented again

VARIABLES
    dep,      \* the deployment, never changed
    node,     \* node[a]: the daemon of a, and its authority
    inbox,    \* inbox[a]: frames not yet polled
    client,   \* client[s]: the submit process of order s
    oper,     \* the reconfig process
    lost,     \* frames lost so far
    crashed   \* stops so far

rnVars == <<dep, node, inbox, client, oper, lost, crashed>>

Roster(g) == dep.roster[g]
Daemons == Roster(0) \cup Roster(1)
NoCert == -1
Frontiers == 0 .. Cardinality(Seqs)
quorum(C) == Cardinality(C) - (Cardinality(C) - 1) \div 3

Order(s) == [type |-> "Order", seq |-> s]
Cert(s, g) == [type |-> "Cert", seq |-> s, gen |-> g]
Proposal == [type |-> "EpochProposal"]
EpochCert(fr) == [type |-> "EpochCert", frontier |-> fr]

\* What a process starts with, beside what its journal gives back.
Volatile(s) ==
    [s EXCEPT !.up = TRUE,
              !.committee = 0,      \* the committee of the command line
              !.applied_certs = {},
              \* the last epoch certificate is in the journal
              !.applied_epoch_certs = IF s.cover = NoCert THEN {} ELSE {s.cover},
              !.epoch_vote_sent = FALSE,
              !.pending_epoch_cert = NoCert,
              !.since_rebroadcast = 0]

FirstBoot ==
    [up |-> FALSE, next |-> 0, locked |-> FALSE,
     epoch |-> 0, mode |-> "Active", cover |-> NoCert,
     committee |-> 0, applied_certs |-> {}, applied_epoch_certs |-> {},
     epoch_vote_sent |-> FALSE, pending_epoch_cert |-> NoCert,
     since_rebroadcast |-> 0]

RnInit ==
    /\ dep \in Deployments
    /\ node = [a \in Nodes |-> FirstBoot]
    /\ inbox = [a \in Nodes |-> {}]
    /\ client = [s \in Seqs |-> [status |-> "idle", gen |-> 0, votes |-> {}]]
    /\ oper = [status |-> "idle", votes |-> {}]
    /\ lost = 0
    /\ crashed = 0

Running == {a \in Nodes : node[a].up}

\* write_all: every running process but the sender is sent each frame; one
\* may be lost.
Send(frames, from, boxes) ==
    \E L \in {{}} \cup {{fa} : fa \in frames \X (Running \ {from})} :
        /\ lost + Cardinality(L) <= MaxLoss
        /\ lost' = lost + Cardinality(L)
        /\ inbox' = [a \in Nodes |->
                        IF a \in Running \ {from}
                        THEN boxes[a] \cup {m \in frames : <<m, a>> \notin L}
                        ELSE boxes[a]]

Polled(a, m) == [inbox EXCEPT ![a] = @ \ {m}]

\* Any frame at all starts the count of idle rounds again.
Disturbed(s) == [s EXCEPT !.since_rebroadcast = 0]

-----------------------------------------------------------------------------
\* run_authority up to the loop: the journal is recovered, the inbox empty.
Boot(a) ==
    /\ a \in Daemons
    /\ ~node[a].up
    /\ node' = [node EXCEPT ![a] = Volatile(@)]
    /\ UNCHANGED <<dep, inbox, client, oper, lost, crashed>>

\* The daemon stops (its standard input, an idle exit, a kill).
Stop(a) ==
    /\ node[a].up
    /\ crashed < dep.restarts
    /\ crashed' = crashed + 1
    /\ node' = [node EXCEPT ![a].up = FALSE]
    /\ inbox' = [inbox EXCEPT ![a] = {}]
    /\ UNCHANGED <<dep, client, oper, lost>>

\* VoteCollector: distinct valid votes of the committee asked.
Collect(c, a, g) ==
    IF c.status = "open" /\ c.gen = g /\ a \in Roster(g)
    THEN [c EXCEPT !.votes = @ \cup {a}] ELSE c

\* An Order is voted for when it is the next one, again if it is locked; the
\* vote carries the authority's committee; a daemon started as an observer,
\* outside the roster of the command line, withholds it until it is a member.
\* Fencing, catching up and out of order leave everything alone.
OnOrder(a, m) ==
    LET s == node[a]
        votes == s.mode = "Active" /\ m.seq = s.next
        member == a \in Roster(0) \/ a \in Roster(s.committee)
    IN /\ m \in inbox[a]
       /\ m.type = "Order"
       /\ node' = [node EXCEPT ![a] = Disturbed([s EXCEPT !.locked = @ \/ votes])]
       /\ inbox' = Polled(a, m)
       /\ \/ /\ votes /\ member
             /\ client' = [client EXCEPT ![m.seq] =
                   Collect(@, a, s.epoch)]
             /\ UNCHANGED lost
          \/ /\ votes /\ member /\ lost < MaxLoss    \* the vote is lost
             /\ lost' = lost + 1
             /\ UNCHANGED client
          \/ /\ ~(votes /\ member)
             /\ UNCHANGED <<client, lost>>
       /\ UNCHANGED <<dep, oper, crashed>>

\* complete_install, once the frontier is covered.
Completed(s) ==
    IF s.mode = "Installing" /\ s.next >= s.cover
    THEN [s EXCEPT !.mode = "Active", !.epoch = 1]
    ELSE s

\* The end of the loop body: a parked epoch certificate that has completed
\* swaps the daemon's committee.
Swapped(s) ==
    IF s.pending_epoch_cert # NoCert /\ s.epoch = 1
    THEN [s EXCEPT !.committee = 1, !.epoch_vote_sent = TRUE,
                   !.pending_epoch_cert = NoCert]
    ELSE s

\* The certificate passes verify against the daemon's committee and confirm's
\* comparison with the authority's.
Verifies(s, m) == m.gen = s.committee /\ s.committee = s.epoch

\* A Cert: applied when it is the next, kept when applied now or before.
OnCert(a, m) ==
    LET s == Disturbed(node[a])
        kept == [s EXCEPT !.applied_certs = {c \in @ : c.seq # m.seq} \cup {m}]
    IN /\ m \in inbox[a]
       /\ m.type = "Cert"
       /\ node' = [node EXCEPT ![a] =
                     CASE ~Verifies(s, m) -> s
                       [] Verifies(s, m) /\ m.seq = s.next ->
                            Swapped(Completed([kept EXCEPT !.next = @ + 1,
                                                           !.locked = FALSE]))
                       [] Verifies(s, m) /\ m.seq < s.next -> kept
                       [] OTHER -> s]
       /\ inbox' = Polled(a, m)
       /\ UNCHANGED <<dep, client, oper, lost, crashed>>

\* A round without frames is counted.  The count matters only while there is
\* something to present, and starts again with the frame that brings it.
IdleRound(a) ==
    /\ node[a].up
    /\ inbox[a] = {}
    /\ node[a].applied_certs # {}
    /\ node[a].since_rebroadcast + 1 < REBROADCAST_IDLE_ROUNDS
    /\ node' = [node EXCEPT ![a].since_rebroadcast = @ + 1]
    /\ UNCHANGED <<dep, inbox, client, oper, lost, crashed>>

\* Mutant: presenting the certificates drains them.
RebroadcastDrains(a) ==
    LET s == node[a] IN
    /\ s.up
    /\ inbox[a] = {}
    /\ s.since_rebroadcast + 1 >= REBROADCAST_IDLE_ROUNDS
    /\ s.applied_certs # {}
    /\ Send(s.applied_certs, a, inbox)
    /\ node' = [node EXCEPT ![a] = [Disturbed(s) EXCEPT !.applied_certs = {}]]
    /\ UNCHANGED <<dep, client, oper, crashed>>

\* In the last of that many idle rounds in a row, if any certificate was
\* applied, every one is presented again, and so is every epoch certificate.
Rebroadcast(a) ==
    LET s == node[a] IN
    /\ s.up
    /\ inbox[a] = {}
    /\ s.since_rebroadcast + 1 >= REBROADCAST_IDLE_ROUNDS
    /\ s.applied_certs # {}
    /\ Send(s.applied_certs \cup {EpochCert(fr) : fr \in s.applied_epoch_certs}, a, inbox)
    /\ node' = [node EXCEPT ![a] = Disturbed(s)]
    /\ UNCHANGED <<dep, client, oper, crashed>>

-----------------------------------------------------------------------------
\* fence: only from Active, one generation at a time; it opens the quiet
\* window anew.
OnEpochProposal(a) ==
    LET s == Disturbed(node[a]) IN
    /\ Proposal \in inbox[a]
    /\ node' = [node EXCEPT ![a] =
                  IF s.mode = "Active" /\ s.epoch = 0
                  THEN [s EXCEPT !.mode = "Fencing", !.epoch_vote_sent = FALSE]
                  ELSE s]
    /\ inbox' = Polled(a, Proposal)
    /\ UNCHANGED <<dep, client, oper, lost, crashed>>

\* The quiet window is over: the vote is signed, once, over the frontier of
\* this moment.  How long a hundred rounds are, compared with the delay of a
\* frame, is not assumed.
SignEpochVote(a) ==
    LET s == node[a]
        heard == /\ oper.status = "open"
                 /\ a \in Roster(0)
                 /\ \A v \in oper.votes : v.from # a
    IN /\ s.up
       /\ inbox[a] = {}
       /\ ~s.epoch_vote_sent
       /\ s.mode = "Fencing"
       /\ node' = [node EXCEPT ![a].epoch_vote_sent = TRUE]
       /\ \/ /\ oper' = IF heard
                        THEN [oper EXCEPT !.votes =
                                 @ \cup {[from |-> a, frontier |-> s.next]}]
                        ELSE oper
             /\ UNCHANGED lost
          \/ /\ lost < MaxLoss      \* the only vote this daemon will sign is lost
             /\ lost' = lost + 1
             /\ UNCHANGED oper
       /\ UNCHANGED <<dep, inbox, client, crashed>>

\* Mutant: an epoch certificate that has to wait for coverage is not parked.
OnEpochCertUnparked(a, m) ==
    LET s == Disturbed(node[a])
        installing == [s EXCEPT !.mode = "Installing", !.cover = m.frontier,
                                !.locked = FALSE,
                                !.applied_epoch_certs = @ \cup {m.frontier}]
    IN /\ m \in inbox[a]
       /\ m.type = "EpochCert"
       /\ node' = [node EXCEPT ![a] =
                     IF s.epoch = 1 \/ s.mode = "Installing" \/ s.committee # 0
                     THEN s
                     ELSE IF s.next >= m.frontier
                     THEN [Completed(installing) EXCEPT !.committee = 1]
                     ELSE installing]
       /\ inbox' = Polled(a, m)
       /\ UNCHANGED <<dep, client, oper, lost, crashed>>

\* install_epoch_cert, under the daemon's committee, with the committee swap
\* of an immediate install and the parking of a later one.
OnEpochCert(a, m) ==
    LET s == Disturbed(node[a])
        installing == [s EXCEPT !.mode = "Installing", !.cover = m.frontier,
                                !.locked = FALSE,
                                !.applied_epoch_certs = @ \cup {m.frontier}]
    IN /\ m \in inbox[a]
       /\ m.type = "EpochCert"
       /\ node' = [node EXCEPT ![a] =
                     IF s.epoch = 1 \/ s.mode = "Installing" \/ s.committee # 0
                     THEN Swapped(s)
                     ELSE IF s.next >= m.frontier
                     THEN [Completed(installing) EXCEPT !.committee = 1,
                                                        !.epoch_vote_sent = TRUE]
                     ELSE [installing EXCEPT !.pending_epoch_cert = m.frontier]]
       /\ inbox' = Polled(a, m)
       /\ UNCHANGED <<dep, client, oper, lost, crashed>>

-----------------------------------------------------------------------------
\* run_submit: the order is broadcast at the start and once in every window
\* while there is no quorum.
Submit(s) ==
    /\ client[s].status \in {"idle", "open"}
    /\ \E g \in IF client[s].status = "open" THEN {client[s].gen}
                ELSE {0} \cup {node[a].committee : a \in Nodes} :
          client' = [client EXCEPT ![s].status = "open", ![s].gen = g]
    /\ dep.quieted => oper.status = "idle"
    /\ Send({Order(s)}, 0, inbox)
    /\ UNCHANGED <<dep, node, oper, crashed>>

\* Quorum: the certificate is broadcast, once, and the process ends.
Certify(s) ==
    LET c == client[s] IN
    /\ c.status = "open"
    /\ Cardinality(c.votes) >= quorum(Roster(c.gen))
    /\ client' = [client EXCEPT ![s].status = "certified"]
    /\ Send({Cert(s, c.gen)}, 0, inbox)
    /\ UNCHANGED <<dep, node, oper, crashed>>

\* The rounds are used up.
GiveUp(s) ==
    /\ client[s].status = "open"
    /\ Cardinality(client[s].votes) < quorum(Roster(client[s].gen))
    /\ client' = [client EXCEPT ![s].status = "failed"]
    /\ UNCHANGED <<dep, node, inbox, oper, lost, crashed>>

\* Everything submitted has been settled by every member before an operator
\* that quiets the traffic starts; joining observers may be behind.
TrafficQuiet ==
    /\ \A s \in Seqs : client[s].status \in {"certified", "failed"}
    /\ \A a \in Roster(0) : /\ node[a].up
                            /\ inbox[a] = {}
                            /\ \A b \in Roster(0) : node[a].next = node[b].next

\* run_reconfig: the proposal is broadcast at the start and in every window.
\* Each authority's first vote is kept.
Propose ==
    /\ dep.reconfig
    /\ \/ oper.status = "idle" /\ (dep.quieted => TrafficQuiet)
       \/ oper.status = "open"
    /\ oper' = [oper EXCEPT !.status = "open"]
    /\ Send({Proposal}, 0, inbox)
    /\ UNCHANGED <<dep, node, client, crashed>>

Agreeing(fr) == {v \in oper.votes : v.frontier = fr}

\* A quorum on one frontier: the epoch certificate is broadcast, once.
CertifyEpoch(fr) ==
    /\ oper.status = "open"
    /\ Cardinality(Agreeing(fr)) >= quorum(Roster(0))
    /\ oper' = [oper EXCEPT !.status = "certified"]
    /\ Send({EpochCert(fr)}, 0, inbox)
    /\ UNCHANGED <<dep, node, client, crashed>>

RnNext ==
    \/ \E a \in Nodes : Boot(a)
    \/ \E a \in Nodes : Stop(a)
    \/ \E a \in Nodes : \E m \in inbox[a] : OnOrder(a, m)
    \/ \E a \in Nodes : \E m \in inbox[a] : OnCert(a, m)
    \/ \E a \in Nodes : IdleRound(a)
    \/ \E a \in Nodes : Rebroadcast(a)
    \/ \E a \in Nodes : OnEpochProposal(a)
    \/ \E a \in Nodes : SignEpochVote(a)
    \/ \E a \in Nodes : \E m \in inbox[a] : OnEpochCert(a, m)
    \/ \E s \in Seqs : Submit(s)
    \/ \E s \in Seqs : Certify(s)
    \/ \E s \in Seqs : GiveUp(s)
    \/ Propose
    \/ \E fr \in Frontiers : CertifyEpoch(fr)

\* The daemon's loop runs for ever, polls every frame and counts its idle
\* rounds; no daemon is promised enough of them in a row.  An epoch vote needs
\* only one idle round after its window, and all other traffic comes at
\* intervals of many rounds, so idle rounds recur (strong fairness).  A submit
\* process ends, certified or not; the operator proposes until it has a quorum.
RnFairness ==
    /\ \A a \in Nodes :
          /\ WF_rnVars(Boot(a))
          /\ WF_rnVars(\E m \in inbox[a] : OnOrder(a, m))
          /\ WF_rnVars(\E m \in inbox[a] : OnCert(a, m))
          /\ WF_rnVars(\E m \in inbox[a] : OnEpochCert(a, m))
          /\ WF_rnVars(OnEpochProposal(a))
          /\ WF_rnVars(IdleRound(a))
          /\ WF_rnVars(Rebroadcast(a))
          /\ SF_rnVars(SignEpochVote(a))
    /\ \A s \in Seqs : WF_rnVars(Certify(s) \/ GiveUp(s))
    /\ WF_rnVars(Propose)
    /\ WF_rnVars(\E fr \in Frontiers : CertifyEpoch(fr))

RnSpec == RnInit /\ [][RnNext]_rnVars /\ RnFairness

-----------------------------------------------------------------------------
\* A certificate one daemon has applied and keeps is in the end applied by
\* every member, whatever frames were lost and however late it booted: the
\* anti-entropy promise of applied_certs (node.rs), while no committee change
\* is under way and one order is in play, so that whoever disturbs the idle
\* rounds of its holder presents the same certificate.
CertConverges ==
    \A s \in Seqs :
        (~dep.reconfig /\ \E a \in Daemons : \E c \in node[a].applied_certs : c.seq = s)
            ~> (\A a \in Daemons : node[a].next > s)

\* A daemon that never gets to the new generation presents its own
\* certificates for ever, each time starting the others' idle count again.
KeptBehind ==
    \E b \in Nodes : /\ <>[](node[b].epoch = 0)
                     /\ []<><<Rebroadcast(b)>>_rnVars

\* Once user traffic has been quieted, an epoch certificate is in the end
\* installed and followed by every daemon, if there is any order certificate
\* to present again with it.  One thing alone can prevent it: the daemons that
\* have it are never idle for long enough (since_rebroadcast), because one
\* that is itself behind keeps presenting order certificates.
EpochConverges ==
    \/ (/\ dep.quieted /\ oper.status = "certified"
        /\ \E a \in Daemons : node[a].epoch = 1 /\ node[a].applied_certs # {})
           ~> (\A a \in Daemons : node[a].epoch = 1 /\ node[a].committee = 1)
    \/ KeptBehind

\* A committee change that was started completes (design document, Liveness).
ReconfigCompletes ==
    (oper.status = "open") ~> (oper.status = "certified")

-----------------------------------------------------------------------------
(***************************************************************************)
(* The deployments the runs explore: a committee that only follows orders, *)
(* a committee change after user traffic was quieted, and one under load.  *)
(***************************************************************************)
Static == [roster |-> [g \in {0, 1} |-> {1, 2, 3}],
           restarts |-> 1, reconfig |-> FALSE, quieted |-> FALSE]
Quiet == [roster |-> [g \in {0, 1} |-> IF g = 0 THEN {1, 2} ELSE {2, 3}],
          restarts |-> 0, reconfig |-> TRUE, quieted |-> TRUE]
Load == [roster |-> [g \in {0, 1} |-> {1, 2}],
         restarts |-> 0, reconfig |-> TRUE, quieted |-> FALSE]

PassDeployments == {Static, Quiet}
LoadDeployments == {Load}
=============================================================================
