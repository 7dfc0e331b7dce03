----------------------------- MODULE Authority -----------------------------
(***************************************************************************)
(* The certified transfer rail of transfer333: a committee of authorities  *)
(* (333-transfer/src/authority.rs) that vote on owner-signed orders,       *)
(* confirm quorum certificates, attest what they applied (effect.rs) and   *)
(* hand over to a next committee (epoch.rs), each of them over a           *)
(* write-ahead journal it is rebuilt from after a crash.                   *)
(*                                                                         *)
(* An authority's state is a record of the fields of struct Authority:     *)
(*   ledger, locked, confirmed, epoch, committee, mode, change, last_cert  *)
(* `st' is that record in memory and `disk' the record that                *)
(* Authority::recover would fold from the journal as it stands: appending  *)
(* a record to the journal is applying recover's match arm to `disk'.      *)
(* Messages are facts that never go away, so loss, delay, duplication and  *)
(* reordering are all behaviours: a step that needs a certificate may be   *)
(* taken whenever its votes exist, or never.                               *)
(*                                                                         *)
(* A committee is its roster: CommitteeId is a digest of policy and roster *)
(* and of nothing else, the epoch number in particular.                    *)
(***************************************************************************)
EXTENDS TransferLedger, FiniteSetsExt

CONSTANTS
    Authorities,   \* every authority, of the genesis committee or joining later
    Faulty,        \* the Byzantine ones: their signatures are always available
    C0,            \* roster of the deployment (genesis) committee
    Observers,     \* authorities booted with --observe, which skip membership
    Accounts,      \* the accounts orders name
    Genesis,       \* the canonical genesis ledger
    Orders,        \* the orders that may be presented
    Proposals,     \* epoch proposals that may be presented: [epoch, next]
    Compacting,    \* authorities whose owner calls compact_journal
    Crashing       \* authorities that restart and whose disk may refuse a write

Honest == Authorities \ Faulty

OrderType == [from : Accounts, to : Accounts, amount : 0..MaxBalance,
              seq : 0..MaxSeq, round : Nat, signed : BOOLEAN]

Ledgers   == UNION {[S -> Account] : S \in SUBSET Accounts}
Frontiers == UNION {[S -> 0..MaxSeq] : S \in SUBSET Accounts}

ASSUME AuthorityAssumption ==
    /\ IsFiniteSet(Authorities) /\ Faulty \subseteq Authorities
    /\ IsFiniteSet(Accounts)
    /\ C0 \subseteq Authorities /\ C0 # {}
    /\ Observers \subseteq Authorities
    /\ Compacting \subseteq Authorities /\ Crashing \subseteq Authorities
    /\ Genesis \in Ledgers
    /\ Orders \subseteq OrderType
    /\ Proposals \subseteq [epoch : Nat, next : SUBSET Authorities]

VARIABLES
    st,        \* st[a]: the running authority
    disk,      \* disk[a]: what recover() folds from its journal
    poisoned,  \* poisoned[a]: fail-stopped by a durability error or a conflict
    votes,     \* user votes ever signed by honest authorities
    evotes,    \* epoch votes ever signed by honest authorities
    attested   \* effect attestations ever served by honest authorities

vars == <<st, disk, poisoned, votes, evotes, attested>>

(***************************************************************************)
(* State records                                                           *)
(***************************************************************************)
NoFrontier == [x \in {} |-> 0]

\* An epoch change in flight.  A proposal has no frontier yet.
Changes  == [epoch : Nat, next : SUBSET Authorities, frontier : Frontiers]
NoChange == [epoch |-> 0, next |-> {}, frontier |-> NoFrontier]
Fenced(p) == [epoch |-> p.epoch, next |-> p.next, frontier |-> NoFrontier]

\* "Corrupt" is only ever on disk: a journal that recover() refuses to fold.
States == [ledger : Ledgers, locked : SUBSET Orders, confirmed : SUBSET Orders,
           epoch : Nat, committee : SUBSET Authorities,
           mode : {"Active", "Fencing", "Installing", "Corrupt"},
           change : Changes, last_cert : Changes]

\* with_journal over an empty journal, and the start of recover's fold.
InitState ==
    [ledger |-> Genesis, locked |-> {}, confirmed |-> {}, epoch |-> 0,
     committee |-> C0, mode |-> "Active", change |-> NoChange,
     last_cert |-> NoChange]

Init ==
    /\ st = [a \in Honest |-> InitState]
    /\ disk = [a \in Honest |-> InitState]
    /\ poisoned = [a \in Honest |-> FALSE]
    /\ votes = {} /\ evotes = {} /\ attested = {}

(***************************************************************************)
(* The epoch install                                                       *)
(***************************************************************************)
\* Mutant: an install is taken for covered without looking at the ledger.
install_coveredUnchecked(s) == s.mode = "Installing"

install_covered(s) ==
    /\ s.mode = "Installing"
    /\ \A id \in DOMAIN s.change.frontier :
          next_seq(s.ledger, id) >= s.change.frontier[id]

\* Mutant: the trust root is not moved to the next committee.
complete_installKeepsCommittee(s) ==
    [s EXCEPT !.mode = "Active", !.change = NoChange, !.epoch = s.change.epoch]

complete_install(s) ==
    [s EXCEPT !.mode = "Active", !.change = NoChange,
              !.committee = s.change.next, !.epoch = s.change.epoch]

Completed(s) == IF install_covered(s) THEN complete_install(s) ELSE s

\* Certificate c accepted: the locks were promises to the old committee.
Installed(s, c) ==
    [s EXCEPT !.locked = {}, !.last_cert = c, !.mode = "Installing", !.change = c]

(***************************************************************************)
(* recover's fold: one operator per journal record                         *)
(***************************************************************************)
PurgeRounds(locked, o) == {l \in locked : spent(l) # spent(o)}

\* Mutant: recover ignores the lock records.
ReplayLockedForgets(s, o) == s

ReplayLocked(s, o) ==
    [s EXCEPT !.locked = {l \in @ : slot(l) # slot(o)} \cup {o}]

\* Mutant: replaying a confirmation keeps the locks of its other rounds.
ReplayConfirmedKeepsLocks(s, o) ==
    IF preflight(s.ledger, o)
    THEN [s EXCEPT !.ledger = apply(s.ledger, o),
                   !.confirmed = {c \in @ : spent(c) # spent(o)} \cup {o},
                   !.locked = {l \in @ : slot(l) # slot(o)}]
    ELSE [s EXCEPT !.mode = "Corrupt"]

\* The record does not complete an install it covers: only the live confirm
\* does.  A record that no longer applies makes the whole journal unusable.
ReplayConfirmed(s, o) ==
    IF preflight(s.ledger, o)
    THEN [s EXCEPT !.ledger = apply(s.ledger, o),
                   !.confirmed = {c \in @ : spent(c) # spent(o)} \cup {o},
                   !.locked = PurgeRounds(@, o)]
    ELSE [s EXCEPT !.mode = "Corrupt"]

\* Mutant: recover ignores the fence records.
ReplayEpochFenceForgets(s, p) == s

ReplayEpochFence(s, p) == [s EXCEPT !.mode = "Fencing", !.change = Fenced(p)]

ReplayEpochInstalled(s, c) == Completed(Installed(s, c))

\* Compaction leaves one Snapshot record: ledger, locks, confirmations and the
\* epoch number.  The trust root is the one recover() is called with.
ReplaySnapshot(s) ==
    [InitState EXCEPT !.ledger = s.ledger, !.locked = s.locked,
                      !.confirmed = s.confirmed, !.epoch = s.epoch]

(***************************************************************************)
(* Journal appends: durable, or failed with the record on disk or not.     *)
(* A failed append poisons the authority.                                  *)
(***************************************************************************)
Append(a, replayed) ==
    /\ disk' = [disk EXCEPT ![a] = replayed]
    /\ UNCHANGED poisoned

AppendFails(a, replayed) ==
    /\ a \in Crashing
    /\ disk' \in {disk, [disk EXCEPT ![a] = replayed]}
    /\ poisoned' = [poisoned EXCEPT ![a] = TRUE]

(***************************************************************************)
(* Signatures and certificates                                             *)
(***************************************************************************)
\* The epoch field is history: it is not part of what an authority signs.
Vote(a, s, o) ==
    [auth |-> a, committee |-> s.committee, epoch |-> s.epoch, order |-> o]

EpochVote(a, s) ==
    [auth |-> a, committee |-> s.committee, epoch |-> s.change.epoch,
     next |-> s.change.next, frontier |-> frontier(s.ledger)]

Attestation(a, s, o) == [auth |-> a, committee |-> s.committee, order |-> o]

Voters(C, o) ==
    {m \in C : m \in Faulty \/ \E v \in votes :
                   v.auth = m /\ v.committee = C /\ v.order = o}

\* Certificate::validate: owner proof and a quorum of distinct member votes.
Certified(C, o) ==
    o.signed /\ Cardinality(Voters(C, o)) >= quorum(Cardinality(C))

Attesters(C, o) ==
    {m \in C : m \in Faulty \/ \E t \in attested :
                   t.auth = m /\ t.committee = C /\ t.order = o}

\* is_final_effectcert: a quorum of distinct apply attestations.
EffectFinal(C, o) == Cardinality(Attesters(C, o)) >= quorum(Cardinality(C))

EpochVoters(C, c) ==
    {m \in C : m \in Faulty \/ \E v \in evotes :
        /\ v.auth = m /\ v.committee = C
        /\ v.epoch = c.epoch /\ v.next = c.next /\ v.frontier = c.frontier}

EpochCertified(C, c) == Cardinality(EpochVoters(C, c)) >= quorum(Cardinality(C))

\* The epoch certificates anyone can present: some honest vote is in each.
EpochCerts ==
    {[epoch |-> v.epoch, next |-> v.next, frontier |-> v.frontier] : v \in evotes}

(***************************************************************************)
(* Authority::handle                                                       *)
(***************************************************************************)
\* The epoch gate: an install whose coverage has arrived completes here.
Opened(s) == Completed(s)

Votable(s, o) ==
    /\ s.mode = "Active"
    /\ o.signed
    /\ \A l \in s.locked : slot(l) # slot(o)
    /\ o.from \in DOMAIN s.ledger
    /\ o.amount # 0
    /\ preflight(s.ledger, o)

Revotable(s, o) == s.mode = "Active" /\ o.signed /\ o \in s.locked

\* A lock already on this very order: the same vote again.
HandleRevote(a, o) ==
    LET s == Opened(st[a]) IN
    /\ ~poisoned[a]
    /\ Revotable(s, o)
    /\ st' = [st EXCEPT ![a] = s]
    /\ votes' = votes \cup {Vote(a, s, o)}
    /\ UNCHANGED <<disk, poisoned, evotes, attested>>

\* A free slot: journal the lock, then install it and sign.
HandleVote(a, o) ==
    LET s == Opened(st[a]) IN
    /\ ~poisoned[a]
    /\ Votable(s, o)
    /\ Append(a, ReplayLocked(disk[a], o))
    /\ st' = [st EXCEPT ![a] = [s EXCEPT !.locked = @ \cup {o}]]
    /\ votes' = votes \cup {Vote(a, s, o)}
    /\ UNCHANGED <<evotes, attested>>

\* The lock could not be made durable: no lock, no vote.
HandleFails(a, o) ==
    LET s == Opened(st[a]) IN
    /\ ~poisoned[a]
    /\ Votable(s, o)
    /\ AppendFails(a, ReplayLocked(disk[a], o))
    /\ st' = [st EXCEPT ![a] = s]
    /\ UNCHANGED <<votes, evotes, attested>>

\* The order is refused, but the gate it went through completed an install.
HandleRefused(a, o) ==
    LET s == Opened(st[a]) IN
    /\ ~poisoned[a]
    /\ install_covered(st[a])
    /\ ~Votable(s, o) /\ ~Revotable(s, o)
    /\ st' = [st EXCEPT ![a] = s]
    /\ UNCHANGED <<disk, poisoned, votes, evotes, attested>>

(***************************************************************************)
(* Authority::confirm and confirm_as_observer                              *)
(***************************************************************************)
Confirmable(a, o) ==
    /\ ~poisoned[a]
    /\ Certified(st[a].committee, o)
    /\ a \in Observers \/ a \in st[a].committee
    /\ \A c \in st[a].confirmed : spent(c) # spent(o)
    /\ preflight(st[a].ledger, o)

\* The order applied, the sequence number spent for every round.
Applied(s, o) ==
    [s EXCEPT !.ledger = apply(s.ledger, o), !.confirmed = @ \cup {o},
              !.locked = PurgeRounds(@, o)]

ConfirmApplied(a, o) ==
    /\ Confirmable(a, o)
    /\ Append(a, ReplayConfirmed(disk[a], o))
    /\ st' = [st EXCEPT ![a] = Completed(Applied(st[a], o))]
    /\ UNCHANGED <<votes, evotes, attested>>

\* Mutant: the confirmation is recorded in memory before it is durable.
ConfirmFailsInserted(a, o) ==
    /\ Confirmable(a, o)
    /\ AppendFails(a, ReplayConfirmed(disk[a], o))
    /\ st' = [st EXCEPT ![a] = Applied(st[a], o)]
    /\ UNCHANGED <<votes, evotes, attested>>

\* The ledger has moved, the journal has refused: fail-stop in between.
ConfirmFails(a, o) ==
    /\ Confirmable(a, o)
    /\ AppendFails(a, ReplayConfirmed(disk[a], o))
    /\ st' = [st EXCEPT ![a].ledger = apply(@, o)]
    /\ UNCHANGED <<votes, evotes, attested>>

\* Mutant: a lock is attested as if it had been applied.
AttestLocked(a, o) ==
    /\ o \in st[a].confirmed \cup st[a].locked
    /\ attested' = attested \cup {Attestation(a, st[a], o)}
    /\ UNCHANGED <<st, disk, poisoned, votes, evotes>>

\* Authority::attestation_for, answered for whatever slot is confirmed.
Attest(a, o) ==
    /\ o \in st[a].confirmed
    /\ attested' = attested \cup {Attestation(a, st[a], o)}
    /\ UNCHANGED <<st, disk, poisoned, votes, evotes>>

(***************************************************************************)
(* Epoch change: fence, vote, install                                      *)
(***************************************************************************)
Fenceable(a, p) ==
    /\ ~poisoned[a]
    /\ st[a].mode = "Active"
    /\ p.epoch = st[a].epoch + 1
    /\ p.next # {}

Fence(a, p) ==
    /\ Fenceable(a, p)
    /\ Append(a, ReplayEpochFence(disk[a], p))
    /\ st' = [st EXCEPT ![a].mode = "Fencing", ![a].change = Fenced(p)]
    /\ UNCHANGED <<votes, evotes, attested>>

FenceFails(a, p) ==
    /\ Fenceable(a, p)
    /\ AppendFails(a, ReplayEpochFence(disk[a], p))
    /\ UNCHANGED <<st, votes, evotes, attested>>

SignEpochVote(a) ==
    /\ st[a].mode = "Fencing"
    /\ evotes' = evotes \cup {EpochVote(a, st[a])}
    /\ UNCHANGED <<st, disk, poisoned, votes, attested>>

\* install_epoch_cert's validation, down to the quorum check.
ValidCert(a, c) ==
    /\ ~poisoned[a]
    /\ c.epoch = st[a].epoch + 1
    /\ c.next # {}
    /\ EpochCertified(st[a].committee, c)

InstallEpochCert(a, c) ==
    /\ ValidCert(a, c)
    /\ st[a].mode # "Installing"
    /\ Append(a, ReplayEpochInstalled(disk[a], c))
    /\ st' = [st EXCEPT ![a] = Completed(Installed(st[a], c))]
    /\ UNCHANGED <<votes, evotes, attested>>

InstallFails(a, c) ==
    /\ ValidCert(a, c)
    /\ st[a].mode # "Installing"
    /\ AppendFails(a, ReplayEpochInstalled(disk[a], c))
    /\ UNCHANGED <<st, votes, evotes, attested>>

\* A second valid certificate for the generation being installed.
InstallConflict(a, c) ==
    /\ ValidCert(a, c)
    /\ st[a].mode = "Installing"
    /\ st[a].change # c
    /\ poisoned' = [poisoned EXCEPT ![a] = TRUE]
    /\ UNCHANGED <<st, disk, votes, evotes, attested>>

(***************************************************************************)
(* Compaction and restart                                                  *)
(***************************************************************************)
CompactJournal(a) ==
    /\ st[a].mode = "Active"
    /\ \/ /\ Append(a, ReplaySnapshot(st[a]))
       \/ AppendFails(a, ReplaySnapshot(st[a]))
    /\ UNCHANGED <<st, votes, evotes, attested>>

\* The process dies between any two steps and recover() rebuilds it.
Restart(a) ==
    /\ a \in Crashing
    /\ disk[a].mode # "Corrupt"
    /\ st' = [st EXCEPT ![a] = disk[a]]
    /\ poisoned' = [poisoned EXCEPT ![a] = FALSE]
    /\ UNCHANGED <<disk, votes, evotes, attested>>

Next ==
    \E a \in Honest :
        \/ \E o \in Orders :
              \/ HandleRevote(a, o) \/ HandleVote(a, o)
              \/ HandleFails(a, o) \/ HandleRefused(a, o)
              \/ ConfirmApplied(a, o) \/ ConfirmFails(a, o)
              \/ Attest(a, o)
        \/ \E p \in Proposals : Fence(a, p) \/ FenceFails(a, p)
        \/ SignEpochVote(a)
        \/ \E c \in EpochCerts :
              \/ InstallEpochCert(a, c) \/ InstallFails(a, c)
              \/ InstallConflict(a, c)
        \/ a \in Compacting /\ CompactJournal(a)
        \/ Restart(a)

Spec == Init /\ [][Next]_vars

(***************************************************************************)
(* Properties                                                              *)
(***************************************************************************)
VoteType == [auth : Honest, committee : SUBSET Authorities, epoch : Nat,
             order : Orders]
EpochVoteType == [auth : Honest, committee : SUBSET Authorities, epoch : Nat,
                  next : SUBSET Authorities, frontier : Frontiers]
AttestationType == [auth : Honest, committee : SUBSET Authorities, order : Orders]

\* Every variable holds a value of its kind; in particular no balance and no
\* sequence number ever leaves the range of its machine integer.
TypeOK ==
    /\ st \in [Honest -> States]
    /\ disk \in [Honest -> States]
    /\ poisoned \in [Honest -> BOOLEAN]
    /\ votes \subseteq VoteType
    /\ evotes \subseteq EpochVoteType
    /\ attested \subseteq AttestationType

\* An honest authority never signs two orders for one slot under one committee,
\* whatever it was asked, whatever its disk did and however often it restarted
\* (handle's write-ahead lock).
NoEquivocation ==
    \A v, w \in votes :
        /\ v.auth = w.auth /\ v.committee = w.committee
        /\ slot(v.order) = slot(w.order)
        => v.order = w.order

\* With at most f Byzantine members no two orders of a slot are ever both
\* certifiable under one committee (Certificate::validate over quorum).
SlotCertUnique ==
    \A C \in {v.committee : v \in votes} : \A o1, o2 \in Orders :
        slot(o1) = slot(o2) /\ Certified(C, o1) /\ Certified(C, o2) => o1 = o2

\* No two orders that spend one sequence number are ever both final to clients
\* of one committee, also when they were voted in different rounds (EffectCert).
EffectUnique ==
    \A C \in {t.committee : t \in attested} : \A o1, o2 \in Orders :
        spent(o1) = spent(o2) /\ EffectFinal(C, o1) /\ EffectFinal(C, o2)
        => o1 = o2

\* The same across the reconfiguration boundary: no two orders that spend one
\* sequence number are ever both final, each to the clients of any committee.
BoundaryUnique ==
    \A C1, C2 \in {t.committee : t \in attested} : \A o1, o2 \in Orders :
        spent(o1) = spent(o2) /\ EffectFinal(C1, o1) /\ EffectFinal(C2, o2)
        => o1 = o2

\* Up to the install completion that the next handled order performs, recover()
\* rebuilds exactly the state of the running authority, and never refuses the
\* journal an authority wrote.
RecoveryExact ==
    \A a \in Honest :
        /\ disk[a].mode # "Corrupt"
        /\ ~poisoned[a] => Completed(disk[a]) = Completed(st[a])

\* A committee change under load takes none of this away: within each committee
\* votes stay exclusive and finality unique, and whatever step of fence and install
\* a crash falls into, recovery is exact (fence, install_epoch_cert, recover).
SafeAcrossEpochs == NoEquivocation /\ EffectUnique /\ RecoveryExact

\* What a client was told is applied stays applied through every crash.
AttestationsDurable ==
    \A t \in attested : t.order \in disk[t.auth].confirmed

Supply(l) == MapThenSumSet(LAMBDA id : l[id].balance, DOMAIN l)

\* No step, crash or recovery creates or destroys money: every ledger, in
\* memory and on disk, holds the genesis supply (Ledger::apply).
SupplyConserved ==
    \A a \in Honest :
        Supply(st[a].ledger) = Supply(Genesis) /\ Supply(disk[a].ledger) = Supply(Genesis)

\* Once an authority has signed assent to generation e + 1, it signs no further
\* user vote in generation e, restarts included (the durable fence).
FenceHolds ==
    [][\A v \in votes' \ votes : \A ev \in evotes :
          ev.auth = v.auth => ev.epoch <= v.epoch]_vars

\* An authority operates generation e > 0 only on a ledger that covers the
\* frontier of some certificate a quorum of the old committee signed for it.
EpochCovered ==
    \A a \in Honest :
        st[a].epoch > 0 =>
            \E v \in evotes :
                /\ v.epoch = st[a].epoch
                /\ EpochCertified(v.committee, [epoch |-> v.epoch, next |-> v.next,
                                                frontier |-> v.frontier])
                /\ \A id \in DOMAIN v.frontier :
                       next_seq(st[a].ledger, id) >= v.frontier[id]
=============================================================================
