----------------------------- MODULE MeshRounds -----------------------------
(***************************************************************************)
(* Certification driven by one program over mailboxes: certify,            *)
(* certify_via_mesh, certify_via_mesh_rounds and what follows them         *)
(* (333-transfer/src/net.rs, and certify of authority.rs). The driver owns *)
(* the authorities and works through their mailboxes one after another;    *)
(* every poll empties a mailbox and drops the messages its phase does not  *)
(* ask for. Mail to a slow party stays on the wire until it lands, between *)
(* any two steps of the driver.                                            *)
(*                                                                         *)
(* The orders are of one account. An authority refuses what its lock or    *)
(* its sequence forbids; refusals over owners, amounts and balances do not *)
(* occur in these orders, and a fault of the journal poisons.              *)
(***************************************************************************)
EXTENDS Integers, Sequences, SequencesExt, FiniteSets

CONSTANTS
    Auths,       \* the authorities, as the sequence the driver visits
    Ledgers,     \* independent replicas (MeshLedger)
    Client,      \* the driver's own mailbox
    Orders,      \* orders: [id, seq, round]
    Slow,        \* parties whose mail travels
    MaxRounds,   \* max_rounds of the multi-round driver
    MaxCalls,    \* bound on calls of a driver
    MaxFaults    \* bound on journal faults

VARIABLES
    locked,      \* locked[a]: its locks, (seq, round) -> order
    applied,     \* applied[x]: the orders an authority or replica applied, in order
    poisoned,    \* authorities that refuse everything
    inbox,       \* inbox[p]: its mailbox
    wire,        \* wire[p]: mail that has not landed
    call,        \* the driver: where it is and what it has collected
    calls,       \* calls made so far
    results,     \* what the calls returned
    effects      \* effects[o]: attesters found by the last collection for o

mrVars == <<locked, applied, poisoned, inbox, wire, call, calls, results, effects>>

AuthorityId == Range(Auths)
Parties == AuthorityId \cup Ledgers \cup {Client}

\* Two quorums share an authority that is not faulty.
quorum(n) == n - (n - 1) \div 3

Slot(o) == <<o.seq, o.round>>
next_seq(log) == Len(log)
NoOrder == [id |-> "none", seq |-> 0, round |-> 0]
IdleCall == [phase |-> "idle", order |-> NoOrder, limit |-> 0, round |-> 0, visit |-> 1,
             votes |-> {}, refusals |-> 0, contested |-> FALSE]

Msg(type, o, from) == [type |-> type, order |-> o, from |-> from]

\* The messages some reader of a mailbox asks for; every poll drops the others,
\* which the model therefore does not deliver.
Reads(p) == CASE p = Client -> {"vote", "attestation"}
              [] p \in Ledgers -> {"cert"}
              [] OTHER -> {"order", "cert"}

\* broadcast: a copy for every mailbox, the sender's own included.
Fanout(box, slow, msgs) ==
    [p \in Parties |-> IF (p \in Slow) # slow THEN box[p]
                       ELSE box[p] \o SelectSeq(msgs, LAMBDA m : m.type \in Reads(p))]
Broadcast(box, msgs) == inbox' = Fanout(box, FALSE, msgs) /\ wire' = Fanout(wire, TRUE, msgs)

\* poll: the whole mailbox, of which the caller reads one type.
Polled(p, type) == SelectSeq(inbox[p], LAMBDA m : m.type = type)
Emptied(p) == [inbox EXCEPT ![p] = <<>>]

MrInit ==
    /\ locked = [a \in AuthorityId |-> [s \in {} |-> NoOrder]]
    /\ applied = [x \in AuthorityId \cup Ledgers |-> <<>>]
    /\ poisoned = {}
    /\ inbox = [p \in Parties |-> <<>>]
    /\ wire = [p \in Parties |-> <<>>]
    /\ call = IdleCall
    /\ calls = 0
    /\ results = {}
    /\ effects = [o \in Orders |-> {}]

-----------------------------------------------------------------------------
(* Authority::handle and confirm, as far as a round sees them. *)
Verdict(a, locks, o) ==
    CASE a \in poisoned -> "refused"
      [] Slot(o) \in DOMAIN locks -> IF locks[Slot(o)] = o THEN "vote" ELSE "equivocation"
      [] OTHER -> IF o.seq = next_seq(applied[a]) THEN "vote" ELSE "refused"

Lock(locks, o) == [s \in DOMAIN locks \cup {Slot(o)} |-> IF s = Slot(o) THEN o ELSE locks[s]]

\* One authority over the orders it polled: its locks, its votes, its refusals.
Handled(a, orders) ==
    FoldLeft(LAMBDA h, m :
               LET v == Verdict(a, h.locks, m.order)
               IN IF v = "vote"
                  THEN [h EXCEPT !.locks = Lock(@, m.order), !.votes = Append(@, Msg("vote", m.order, a))]
                  ELSE [h EXCEPT !.refusals = @ + 1, !.contested = @ \/ v = "equivocation"],
             [locks |-> locked[a], votes |-> <<>>, refusals |-> 0, contested |-> FALSE], orders)

Applies(log, o) == IF o.seq = next_seq(log) THEN Append(log, o) ELSE log
Released(locks, log) == [s \in {t \in DOMAIN locks : t[1] >= next_seq(log)} |-> locks[s]]

\* Vote::validate_for.
ValidFor(vote, o) == vote.type = "vote" /\ vote.order = o

\* Certificate::assemble of distinct, valid votes.
assemble(o, votes) == Cardinality(votes) >= quorum(Len(Auths))

-----------------------------------------------------------------------------
\* What a call returns, with the counters of Certified::Failed.
Result(o, status, votes, refusals, contested) ==
    [order |-> o, status |-> status, votes |-> votes, refusals |-> refusals, contested |-> contested]
Returned(status) ==
    Result(call.order, status, Cardinality(call.votes), call.refusals, call.contested)

MayCall == call.phase = "idle" /\ calls < MaxCalls

\* certify: one pass over the authorities, without a network, so that nothing
\* lands in between.
certify(o) ==
    LET h == [a \in AuthorityId |-> Handled(a, <<Msg("order", o, Client)>>)]
        votes == {a \in AuthorityId : h[a].votes # <<>>}
        log == [x \in DOMAIN applied |->
                  IF assemble(o, votes) /\ x \in AuthorityId \ poisoned
                  THEN Applies(applied[x], o) ELSE applied[x]]
    IN /\ MayCall
       /\ calls' = calls + 1
       /\ applied' = log
       /\ locked' = [a \in AuthorityId |-> Released(h[a].locks, log[a])]
       /\ results' = results \cup {Result(o, IF assemble(o, votes) THEN "ok" ELSE "failed",
                                          Cardinality(votes), Len(Auths) - Cardinality(votes),
                                          \E a \in AuthorityId : h[a].contested)}
       /\ UNCHANGED <<poisoned, inbox, wire, call, effects>>

\* certify_via_mesh has one round, certify_via_mesh_rounds has max_rounds of them;
\* the order is broadcast once.
Begin(o, limit) ==
    /\ MayCall
    /\ calls' = calls + 1
    /\ call' = [IdleCall EXCEPT !.phase = "handle", !.order = o, !.limit = limit]
    /\ Broadcast(inbox, <<Msg("order", o, Client)>>)
    /\ UNCHANGED <<locked, applied, poisoned, results, effects>>

\* After the last authority of a pass the driver goes on to another phase.
NextVisit(then) == IF call.visit < Len(Auths) THEN [call EXCEPT !.visit = @ + 1]
                   ELSE [call EXCEPT !.visit = 1, !.phase = then]

\* authority_handle_round, one authority.
authority_handle_round ==
    LET a == Auths[call.visit]
        h == Handled(a, Polled(a, "order"))
    IN /\ call.phase = "handle"
       /\ locked' = [locked EXCEPT ![a] = h.locks]
       /\ Broadcast(Emptied(a), h.votes)
       /\ call' = [NextVisit("collect") EXCEPT !.refusals = @ + h.refusals,
                                              !.contested = @ \/ h.contested]
       /\ UNCHANGED <<calls, applied, poisoned, results, effects>>

\* poll_round and try_assemble; on a quorum the certificate is broadcast.
poll_round ==
    LET valid == {m \in Range(Polled(Client, "vote")) : ValidFor(m, call.order)}
        votes == call.votes \cup {m.from : m \in valid}
        ok == assemble(call.order, votes)
        last == call.round + 1 = call.limit
    IN /\ call.phase = "collect"
       /\ Broadcast(Emptied(Client), IF ok THEN <<Msg("cert", call.order, Client)>> ELSE <<>>)
       /\ call' = IF ok THEN [call EXCEPT !.votes = votes, !.phase = "confirm", !.round = 0]
                  ELSE IF last THEN IdleCall
                  ELSE [call EXCEPT !.votes = votes, !.phase = "handle", !.round = @ + 1]
       /\ results' = IF ~ok /\ last
                     THEN results \cup {Result(call.order, "failed", Cardinality(votes),
                                               call.refusals, call.contested)}
                     ELSE results
       /\ UNCHANGED <<calls, locked, applied, poisoned, effects>>

\* One authority over the certificates it polled: its log, and an attestation for
\* every certificate whose order it has applied, now or before.
Confirmed(a, certs) ==
    FoldLeft(LAMBDA c, m :
               LET log == Applies(c.log, m.order)
               IN [log |-> log,
                   atts |-> IF m.order \in Range(log) THEN Append(c.atts, Msg("attestation", m.order, a))
                            ELSE c.atts],
             [log |-> applied[a], atts |-> <<>>], IF a \in poisoned THEN <<>> ELSE certs)

\* confirm_from_mesh, one authority; max_rounds passes in the multi-round driver.
confirm_from_mesh ==
    LET a == Auths[call.visit]
        c == Confirmed(a, Polled(a, "cert"))
        done == call.visit = Len(Auths) /\ call.round + 1 = call.limit
    IN /\ call.phase = "confirm"
       /\ applied' = [applied EXCEPT ![a] = c.log]
       /\ locked' = [locked EXCEPT ![a] = Released(@, c.log)]
       /\ Broadcast(Emptied(a), c.atts)
       /\ call' = IF done THEN IdleCall
                  ELSE [NextVisit("confirm") EXCEPT
                          !.round = IF call.visit = Len(Auths) THEN @ + 1 ELSE @]
       /\ results' = IF done THEN results \cup {Returned("ok")} ELSE results
       /\ UNCHANGED <<calls, poisoned, effects>>

-----------------------------------------------------------------------------
\* MeshLedger::poll_and_apply, as disseminate_certificate calls it: a replica
\* applies the certificates that come next and drops the others.
poll_and_apply(r) ==
    /\ call.phase = "idle" /\ inbox[r] # <<>>
    /\ applied' = [applied EXCEPT ![r] =
                     FoldLeft(LAMBDA log, m : Applies(log, m.order), @, Polled(r, "cert"))]
    /\ inbox' = Emptied(r)
    /\ UNCHANGED <<calls, locked, poisoned, wire, call, results, effects>>

\* collect_effect_attestations: the attesters of one order among what is there.
collect_effect_attestations(o) ==
    /\ call.phase = "idle" /\ inbox[Client] # <<>>
    /\ effects' = [effects EXCEPT ![o] =
                     {m.from : m \in {n \in Range(Polled(Client, "attestation")) : n.order = o}}]
    /\ inbox' = Emptied(Client)
    /\ UNCHANGED <<calls, locked, applied, poisoned, wire, call, results>>

Land(p) ==
    /\ wire[p] # <<>>
    /\ inbox' = [inbox EXCEPT ![p] = Append(@, Head(wire[p]))]
    /\ wire' = [wire EXCEPT ![p] = Tail(@)]
    /\ UNCHANGED <<calls, locked, applied, poisoned, call, results, effects>>

\* The journal of the authority the driver visits fails its next append.
Poison ==
    /\ call.phase \in {"handle", "confirm"} /\ Cardinality(poisoned) < MaxFaults
    /\ poisoned' = poisoned \cup {Auths[call.visit]}
    /\ UNCHANGED <<calls, locked, applied, inbox, wire, call, results, effects>>

MrNext ==
    \/ \E o \in Orders : certify(o)
    \/ \E o \in Orders, limit \in {1, MaxRounds} : Begin(o, limit)
    \/ authority_handle_round
    \/ poll_round
    \/ confirm_from_mesh
    \/ \E r \in Ledgers : poll_and_apply(r)
    \/ \E o \in Orders : collect_effect_attestations(o)
    \/ \E p \in Parties : Land(p)
    \/ Poison

MrSpec == MrInit /\ [][MrNext]_mrVars

-----------------------------------------------------------------------------
Ok == {r.order : r \in {s \in results : s.status = "ok"}}
Holding(o) == {a \in AuthorityId : \/ Slot(o) \in DOMAIN locked[a] /\ locked[a][Slot(o)] = o
                                   \/ o \in Range(applied[a])}

\* Whatever lands when and however calls are repeated or rivals presented: an
\* order that is reported certified is held by a quorum, and no rival of it is;
\* authorities and replicas apply the same orders in the same sequence; an order
\* its client may take for final was applied by a quorum; a call that reports
\* contention met a rival; and once a call has reported an order certified, every
\* authority that is neither slow nor poisoned has applied it (certify,
\* certify_via_mesh_rounds, confirm_from_mesh, collect_effect_attestations).
RoundsSound ==
    /\ \A o \in Ok : Cardinality(Holding(o)) >= quorum(Len(Auths))
    /\ \A o, p \in Ok : o.seq = p.seq => o = p
    /\ \A x, y \in DOMAIN applied : IsPrefix(applied[x], applied[y]) \/ IsPrefix(applied[y], applied[x])
    /\ \A o \in Orders : Cardinality(effects[o]) >= quorum(Len(Auths)) =>
         Cardinality({a \in AuthorityId : o \in Range(applied[a])}) >= quorum(Len(Auths))
    /\ \A r \in results : r.contested => \E o \in Orders : o # r.order /\ Slot(o) = Slot(r.order)
    /\ \A o \in Ok : \A a \in AuthorityId \ (Slow \cup poisoned) : o \in Range(applied[a])
=============================================================================
