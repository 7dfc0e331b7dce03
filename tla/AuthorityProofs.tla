-------------------------- MODULE AuthorityProofs --------------------------
(***************************************************************************)
(* What TLAPS proves of module Authority, for every set of authorities,    *)
(* orders and proposals.                                                   *)
(***************************************************************************)
EXTENDS Authority, FoldProofs, FiniteSetTheorems, TLAPS

(***************************************************************************)
(* Arithmetic of quorums                                                   *)
(***************************************************************************)

\* The committee C holds at most floor((n-1)/3) Byzantine members.
Tolerable(C) == Cardinality(C \cap Faulty) <= (Cardinality(C) - 1) \div 3

\* Two quorums of a tolerable committee share an honest member: the comment on
\* fn quorum, for every committee size.
LEMMA QuorumIntersection ==
    ASSUME NEW C, IsFiniteSet(C), C # {}, Tolerable(C),
           NEW P \in SUBSET C, NEW Q \in SUBSET C,
           Cardinality(P) >= quorum(Cardinality(C)),
           Cardinality(Q) >= quorum(Cardinality(C))
    PROVE  \E m \in P \cap Q : m \notin Faulty
<1>1. /\ IsFiniteSet(P) /\ IsFiniteSet(Q) /\ IsFiniteSet(P \cup Q)
      /\ IsFiniteSet(P \cap Q) /\ IsFiniteSet(C \cap Faulty)
  BY FS_Subset, FS_Union, FS_Intersection
<1>2. /\ Cardinality(C) \in Nat /\ Cardinality(P) \in Nat /\ Cardinality(Q) \in Nat
      /\ Cardinality(P \cup Q) \in Nat /\ Cardinality(P \cap Q) \in Nat
      /\ Cardinality(C \cap Faulty) \in Nat
  BY <1>1, FS_CardinalityType
<1>3. Cardinality(C) # 0
  BY FS_EmptySet
<1>4. Cardinality(P \cup Q) = Cardinality(P) + Cardinality(Q) - Cardinality(P \cap Q)
  BY <1>1, FS_Union
<1>5. Cardinality(P \cup Q) <= Cardinality(C)
  BY FS_Subset
<1>6. Cardinality(P \cap Q) > Cardinality(C \cap Faulty)
  BY <1>2, <1>3, <1>4, <1>5 DEF quorum, Tolerable
<1>7. ~(P \cap Q \subseteq C \cap Faulty)
  BY <1>1, <1>2, <1>6, FS_Subset
<1> QED
  BY <1>7

(***************************************************************************)
(* The ledger operators                                                    *)
(***************************************************************************)
LEMMA LedgerMembership ==
    ASSUME NEW l
    PROVE  l \in Ledgers <=> DOMAIN l \subseteq Accounts /\ l \in [DOMAIN l -> Account]
  BY DEF Ledgers

LEMMA ApplyType ==
    ASSUME NEW l \in Ledgers, NEW t \in OrderType, preflight(l, t)
    PROVE  apply(l, t) \in Ledgers
<1> DEFINE D == DOMAIN l \cup {t.to}
<1>1. l \in [DOMAIN l -> Account] /\ DOMAIN l \subseteq Accounts
  BY LedgerMembership
<1>2. D \subseteq Accounts
  BY <1>1 DEF OrderType
<1>3. ASSUME NEW id \in D
      PROVE  /\ balance(l, id) \in 0..MaxBalance /\ next_seq(l, id) \in 0..MaxSeq
             /\ id = t.from => t.amount <= balance(l, id) /\ next_seq(l, id) < MaxSeq
             /\ id = t.to /\ t.from # t.to => balance(l, id) + t.amount <= MaxBalance
  BY <1>1, LedgerBounds DEF preflight, balance, next_seq, Account
<1>4. t.amount \in Nat
  BY LedgerBounds DEF OrderType
<1> DEFINE bal(id) == balance(l, id)
                        - (IF id = t.from /\ t.from # t.to THEN t.amount ELSE 0)
                        + (IF id = t.to /\ t.from # t.to THEN t.amount ELSE 0)
           seq(id) == next_seq(l, id) + (IF id = t.from THEN 1 ELSE 0)
<1>5. ASSUME NEW id \in D
      PROVE  bal(id) \in 0..MaxBalance /\ seq(id) \in 0..MaxSeq
  BY <1>3, <1>4, LedgerBounds
<1>6. apply(l, t) = [id \in D |-> [balance |-> bal(id), next_seq |-> seq(id)]]
  BY DEF apply
<1>7. apply(l, t) \in [D -> Account]
  <2> HIDE DEF bal, seq
  <2> QED BY <1>5, <1>6 DEF Account
<1> QED
  BY <1>2, <1>7 DEF Ledgers

\* Applying an order never lowers a sequence number, and spends its own.
LEMMA ApplySeq ==
    ASSUME NEW l \in Ledgers, NEW t \in OrderType, preflight(l, t)
    PROVE  /\ \A id \in Accounts : next_seq(apply(l, t), id) >= next_seq(l, id)
           /\ next_seq(apply(l, t), t.from) > t.seq
<1>1. l \in [DOMAIN l -> Account] /\ DOMAIN l \subseteq Accounts
  BY LedgerMembership
<1>2. \A id \in Accounts : next_seq(l, id) \in Nat
  BY <1>1, LedgerBounds DEF next_seq, Account
<1>3. \A id \in DOMAIN l \cup {t.to} :
        apply(l, t)[id].next_seq = next_seq(l, id) + (IF id = t.from THEN 1 ELSE 0)
  BY DEF apply
<1>4. DOMAIN apply(l, t) = DOMAIN l \cup {t.to}
  BY DEF apply
<1>5. ASSUME NEW id \in Accounts
      PROVE  next_seq(apply(l, t), id) >= next_seq(l, id)
  BY <1>2, <1>3, <1>4 DEF next_seq
<1>6. next_seq(apply(l, t), t.from) > t.seq
  BY <1>1, <1>2, <1>3, <1>4, LedgerBounds DEF next_seq, preflight, OrderType, Account
<1> QED
  BY <1>5, <1>6

LEMMA FrontierType ==
    ASSUME NEW l \in Ledgers
    PROVE  frontier(l) \in Frontiers
  BY LedgerMembership DEF frontier, Frontiers, Account

(***************************************************************************)
(* Type correctness                                                        *)
(***************************************************************************)
LEMMA NoChangeType == NoChange \in Changes
<1>1. NoFrontier \in [{} -> 0..MaxSeq]
  BY DEF NoFrontier
<1>2. NoFrontier \in Frontiers
  BY <1>1 DEF Frontiers
<1> QED
  BY <1>2 DEF NoChange, Changes

LEMMA FencedType ==
    ASSUME NEW p \in Proposals
    PROVE  Fenced(p) \in Changes
<1>1. NoFrontier \in Frontiers
  BY NoChangeType DEF NoChange, Changes
<1> QED
  BY <1>1, AuthorityAssumption DEF Fenced, Changes

LEMMA InitStateType == InitState \in States
  BY NoChangeType, AuthorityAssumption DEF InitState, States

LEMMA CompletedType ==
    ASSUME NEW s \in States
    PROVE  Completed(s) \in States
<1>1. complete_install(s) \in States
  BY NoChangeType DEF complete_install, States, Changes
<1> QED
  BY <1>1 DEF Completed

LEMMA LockedType ==
    ASSUME NEW s \in States, NEW o \in Orders
    PROVE  /\ ReplayLocked(s, o) \in States
           /\ [s EXCEPT !.locked = @ \cup {o}] \in States
  BY DEF ReplayLocked, States

LEMMA ConfirmedType ==
    ASSUME NEW s \in States, NEW o \in Orders
    PROVE  /\ ReplayConfirmed(s, o) \in States
           /\ preflight(s.ledger, o) => Applied(s, o) \in States
           /\ preflight(s.ledger, o) => [s EXCEPT !.ledger = apply(@, o)] \in States
<1>1. o \in OrderType
  BY AuthorityAssumption
<1>2. s.ledger \in Ledgers
  BY DEF States
<1>3. preflight(s.ledger, o) => apply(s.ledger, o) \in Ledgers
  BY <1>1, <1>2, ApplyType
<1>4. PurgeRounds(s.locked, o) \in SUBSET Orders
  BY DEF PurgeRounds, States
<1>5. [s EXCEPT !.mode = "Corrupt"] \in States
  BY DEF States
<1>6. ASSUME preflight(s.ledger, o)
      PROVE  /\ [s EXCEPT !.ledger = apply(s.ledger, o),
                          !.confirmed = {c \in @ : spent(c) # spent(o)} \cup {o},
                          !.locked = PurgeRounds(@, o)] \in States
             /\ Applied(s, o) \in States
             /\ [s EXCEPT !.ledger = apply(@, o)] \in States
  BY <1>3, <1>4, <1>6 DEF States, Applied
<1> QED
  BY <1>5, <1>6 DEF ReplayConfirmed

LEMMA EpochRecordTypes ==
    ASSUME NEW s \in States
    PROVE  /\ \A p \in Proposals : ReplayEpochFence(s, p) \in States
           /\ \A c \in Changes : /\ Installed(s, c) \in States
                                 /\ ReplayEpochInstalled(s, c) \in States
           /\ ReplaySnapshot(s) \in States
<1>1. \A p \in Proposals : ReplayEpochFence(s, p) \in States
  BY FencedType DEF ReplayEpochFence, States
<1>2. \A c \in Changes : Installed(s, c) \in States
  BY DEF Installed, States
<1>3. \A c \in Changes : ReplayEpochInstalled(s, c) \in States
  BY <1>2, CompletedType DEF ReplayEpochInstalled
<1>4. ReplaySnapshot(s) \in States
  BY InitStateType DEF ReplaySnapshot, States
<1> QED
  BY <1>1, <1>2, <1>3, <1>4

\* Every epoch certificate that can be presented is well formed.
LEMMA CertType ==
    ASSUME TypeOK, NEW c \in EpochCerts
    PROVE  c \in Changes
  BY DEF TypeOK, EpochCerts, EpochVoteType, Changes

LEMMA TypeInit == Init => TypeOK
  BY InitStateType DEF Init, TypeOK

LEMMA AppendType ==
    ASSUME TypeOK, NEW a \in Honest, NEW r \in States,
           Append(a, r) \/ AppendFails(a, r)
    PROVE  disk' \in [Honest -> States] /\ poisoned' \in [Honest -> BOOLEAN]
  BY DEF TypeOK, Append, AppendFails

LEMMA TypeStep == TypeOK /\ [Next]_vars => TypeOK'
<1> SUFFICES ASSUME TypeOK, [Next]_vars PROVE TypeOK'
  OBVIOUS
<1>1. CASE UNCHANGED vars
  BY <1>1 DEF vars, TypeOK
<1>2. ASSUME NEW a \in Honest, NEW o \in Orders,
             HandleRevote(a, o) \/ HandleVote(a, o) \/ HandleFails(a, o)
               \/ HandleRefused(a, o)
      PROVE  TypeOK'
  <2> DEFINE s == Opened(st[a])
  <2>1. st[a] \in States /\ disk[a] \in States /\ s \in States
    BY CompletedType DEF TypeOK, Opened
  <2>2. ReplayLocked(disk[a], o) \in States /\ [s EXCEPT !.locked = @ \cup {o}] \in States
    BY <2>1, LockedType
  <2>3. Vote(a, s, o) \in VoteType
    BY <2>1 DEF Vote, VoteType, States
  <2> HIDE DEF s
  <2>4. CASE HandleRevote(a, o)
    BY <2>1, <2>3, <2>4 DEF HandleRevote, TypeOK, s
  <2>5. CASE HandleVote(a, o)
    BY <2>2, <2>3, <2>5, AppendType DEF HandleVote, TypeOK, s
  <2>6. CASE HandleFails(a, o)
    BY <2>1, <2>2, <2>6, AppendType DEF HandleFails, TypeOK, s
  <2>7. CASE HandleRefused(a, o)
    BY <2>1, <2>7 DEF HandleRefused, TypeOK, s
  <2> QED
    BY <1>2, <2>4, <2>5, <2>6, <2>7
<1>3. ASSUME NEW a \in Honest, NEW o \in Orders,
             ConfirmApplied(a, o) \/ ConfirmFails(a, o) \/ Attest(a, o)
      PROVE  TypeOK'
  <2>1. st[a] \in States /\ disk[a] \in States
    BY DEF TypeOK
  <2>2. ReplayConfirmed(disk[a], o) \in States
    BY <2>1, ConfirmedType
  <2>3. ASSUME preflight(st[a].ledger, o)
        PROVE  /\ Completed(Applied(st[a], o)) \in States
               /\ [st[a] EXCEPT !.ledger = apply(@, o)] \in States
    BY <2>1, <2>3, ConfirmedType, CompletedType
  <2>4. CASE ConfirmApplied(a, o)
    BY <2>2, <2>3, <2>4, AppendType DEF ConfirmApplied, Confirmable, TypeOK
  <2>5. CASE ConfirmFails(a, o)
    BY <2>2, <2>3, <2>5, AppendType DEF ConfirmFails, Confirmable, TypeOK
  <2>6. CASE Attest(a, o)
    BY <2>1, <2>6 DEF Attest, Attestation, AttestationType, TypeOK, States
  <2> QED
    BY <1>3, <2>4, <2>5, <2>6
<1>4. ASSUME NEW a \in Honest, NEW p \in Proposals, Fence(a, p) \/ FenceFails(a, p)
      PROVE  TypeOK'
  <2>1. st[a] \in States /\ ReplayEpochFence(disk[a], p) \in States
    BY EpochRecordTypes DEF TypeOK
  <2>2. [st[a] EXCEPT !.mode = "Fencing", !.change = Fenced(p)] \in States
    BY <2>1, FencedType DEF States
  <2>3. CASE Fence(a, p)
    BY <2>1, <2>2, <2>3, AppendType DEF Fence, TypeOK
  <2>4. CASE FenceFails(a, p)
    BY <2>1, <2>4, AppendType DEF FenceFails, TypeOK
  <2> QED
    BY <1>4, <2>3, <2>4
<1>5. ASSUME NEW a \in Honest, SignEpochVote(a)
      PROVE  TypeOK'
  <2>1. st[a] \in States
    BY DEF TypeOK
  <2>2. frontier(st[a].ledger) \in Frontiers
    BY <2>1, FrontierType DEF States
  <2>3. EpochVote(a, st[a]) \in EpochVoteType
    BY <2>1, <2>2 DEF EpochVote, EpochVoteType, States, Changes
  <2> QED
    BY <1>5, <2>3 DEF SignEpochVote, TypeOK
<1>6. ASSUME NEW a \in Honest, NEW c \in EpochCerts,
             InstallEpochCert(a, c) \/ InstallFails(a, c) \/ InstallConflict(a, c)
      PROVE  TypeOK'
  <2>1. c \in Changes
    BY CertType
  <2>2. /\ ReplayEpochInstalled(disk[a], c) \in States
        /\ Completed(Installed(st[a], c)) \in States
    BY <2>1, EpochRecordTypes, CompletedType DEF TypeOK
  <2>3. CASE InstallEpochCert(a, c)
    BY <2>2, <2>3, AppendType DEF InstallEpochCert, TypeOK
  <2>4. CASE InstallFails(a, c)
    BY <2>2, <2>4, AppendType DEF InstallFails, TypeOK
  <2>5. CASE InstallConflict(a, c)
    BY <2>5 DEF InstallConflict, TypeOK
  <2> QED
    BY <1>6, <2>3, <2>4, <2>5
<1>7. ASSUME NEW a \in Honest, CompactJournal(a)
      PROVE  TypeOK'
  <2>1. ReplaySnapshot(st[a]) \in States
    BY EpochRecordTypes DEF TypeOK
  <2> QED
    BY <1>7, <2>1, AppendType DEF CompactJournal, TypeOK
<1>8. ASSUME NEW a \in Honest, Restart(a)
      PROVE  TypeOK'
  BY <1>8 DEF Restart, TypeOK
<1> QED
  BY <1>1, <1>2, <1>3, <1>4, <1>5, <1>6, <1>7, <1>8 DEF Next

\* Every reachable state is well typed: in particular no sequence of votes,
\* confirmations, crashes and epoch changes drives a balance or a sequence
\* number out of the range of its machine integer.
THEOREM TypeCorrect == Spec => []TypeOK
  BY TypeInit, TypeStep, PTL DEF Spec

(***************************************************************************)
(* Effect finality                                                         *)
(*                                                                         *)
(* The strengthening: what an authority confirmed is on its disk, at most  *)
(* one order per sequence number, and a running authority agrees with its  *)
(* disk on what is confirmed and on the ledger that the next record will   *)
(* be replayed over.  It holds for any number of epoch changes and for     *)
(* compaction at any point.                                                *)
(***************************************************************************)
Rosters == {C0} \cup {p.next : p \in {q \in Proposals : q.next # {}}}

RosterOK(s) ==
    /\ s.committee \in Rosters
    /\ s.mode \in {"Fencing", "Installing"} => s.change.next \in Rosters

OneOrderPerSeq(S) == \A c, d \in S : spent(c) = spent(d) => c = d

Durable(a) ==
    /\ st[a].confirmed \subseteq disk[a].confirmed
    /\ OneOrderPerSeq(disk[a].confirmed)
    /\ ~poisoned[a] => /\ st[a].confirmed = disk[a].confirmed
                       /\ st[a].ledger = disk[a].ledger

EffectInv ==
    /\ TypeOK
    /\ \A a \in Honest : RosterOK(st[a]) /\ RosterOK(disk[a]) /\ Durable(a)
    /\ \A v \in votes : v.committee \in Rosters
    /\ \A v \in evotes : v.next \in Rosters
    /\ \A t \in attested : t.committee \in Rosters /\ t.order \in st[t.auth].confirmed

LEMMA RosterCompleted ==
    ASSUME NEW s \in States, RosterOK(s)
    PROVE  /\ RosterOK(Completed(s))
           /\ Completed(s).confirmed = s.confirmed
           /\ Completed(s).ledger = s.ledger
           /\ Completed(s).locked = s.locked
  BY DEF Completed, complete_install, install_covered, RosterOK, States

LEMMA EffectInit == Init => EffectInv
<1> SUFFICES ASSUME Init PROVE EffectInv
  OBVIOUS
<1>1. TypeOK
  BY TypeInit
<1>2. RosterOK(InitState)
  BY DEF InitState, RosterOK, Rosters
<1>3. \A a \in Honest : Durable(a)
  BY DEF Init, InitState, Durable, OneOrderPerSeq
<1> QED
  BY <1>1, <1>2, <1>3 DEF Init, EffectInv

\* A failed or successful append of a record that leaves the ledger and the
\* confirmations alone, beside a step of memory that leaves them alone too.
LEMMA DurableAppend ==
    ASSUME EffectInv, TypeOK', NEW a \in Honest, NEW r \in States, NEW s \in States,
           Append(a, r) \/ AppendFails(a, r),
           r.confirmed = disk[a].confirmed, r.ledger = disk[a].ledger, RosterOK(r),
           st' = [st EXCEPT ![a] = s],
           s.confirmed = st[a].confirmed, s.ledger = st[a].ledger, RosterOK(s),
           \A v \in votes' \ votes : v.committee \in Rosters,
           UNCHANGED <<evotes, attested>>
    PROVE  EffectInv'
<1>1. \A b \in Honest : RosterOK(st[b])' /\ RosterOK(disk[b])' /\ Durable(b)'
  BY DEF EffectInv, TypeOK, Append, AppendFails, Durable, RosterOK
<1>2. \A t \in attested : t.committee \in Rosters /\ t.order \in st'[t.auth].confirmed
  BY DEF EffectInv, TypeOK, AttestationType
<1> QED
  BY <1>1, <1>2 DEF EffectInv

LEMMA EffectStep == EffectInv /\ [Next]_vars => EffectInv'
<1> SUFFICES ASSUME EffectInv, [Next]_vars PROVE EffectInv'
  OBVIOUS
<1>0. TypeOK /\ TypeOK'
  BY TypeStep DEF EffectInv
<1>1. CASE UNCHANGED vars
  BY <1>0, <1>1 DEF vars, EffectInv, RosterOK, Durable
<1>2. ASSUME NEW a \in Honest, NEW o \in Orders,
             HandleRevote(a, o) \/ HandleVote(a, o) \/ HandleFails(a, o)
               \/ HandleRefused(a, o)
      PROVE  EffectInv'
  <2> DEFINE s == Opened(st[a])
  <2>1. /\ st[a] \in States /\ disk[a] \in States
        /\ RosterOK(st[a]) /\ RosterOK(disk[a])
    BY DEF EffectInv, TypeOK
  <2>2. s \in States /\ RosterOK(s) /\ s.confirmed = st[a].confirmed
          /\ s.ledger = st[a].ledger
    BY <2>1, CompletedType, RosterCompleted DEF Opened
  <2> DEFINE r == ReplayLocked(disk[a], o)
             t == [s EXCEPT !.locked = @ \cup {o}]
  <2>3. r \in States /\ t \in States
    BY <2>1, <2>2, LockedType
  <2>4. /\ r.confirmed = disk[a].confirmed /\ r.ledger = disk[a].ledger /\ RosterOK(r)
        /\ t.confirmed = st[a].confirmed /\ t.ledger = st[a].ledger /\ RosterOK(t)
    BY <2>1, <2>2 DEF ReplayLocked, RosterOK, States
  <2> DEFINE w == Vote(a, s, o)
  <2>9. w.committee \in Rosters
    BY <2>2 DEF Vote, RosterOK
  <2> HIDE DEF s, r, t, w
  <2>8. \A v \in votes' \ votes : v.committee \in Rosters
    BY <1>2, <2>9
       DEF HandleRevote, HandleVote, HandleFails, HandleRefused, s, w
  <2>5. CASE HandleVote(a, o)
    BY <1>0, <2>3, <2>4, <2>5, <2>8, DurableAppend DEF HandleVote, s, r, t
  <2>6. CASE HandleFails(a, o)
    BY <1>0, <2>2, <2>3, <2>4, <2>6, <2>8, DurableAppend DEF HandleFails, s, r
  <2>7. CASE HandleRevote(a, o) \/ HandleRefused(a, o)
    <3>1. st' = [st EXCEPT ![a] = s] /\ UNCHANGED <<disk, poisoned, evotes, attested>>
      BY <2>7 DEF HandleRevote, HandleRefused, s
    <3>2. \A b \in Honest : RosterOK(st[b])' /\ RosterOK(disk[b])' /\ Durable(b)'
      BY <2>2, <3>1 DEF EffectInv, TypeOK, Durable, RosterOK
    <3>3. \A x \in attested : x.committee \in Rosters /\ x.order \in st'[x.auth].confirmed
      BY <2>2, <3>1 DEF EffectInv, TypeOK, AttestationType
    <3> QED
      BY <1>0, <2>8, <3>1, <3>2, <3>3 DEF EffectInv
  <2> QED
    BY <1>2, <2>5, <2>6, <2>7
<1>3. ASSUME NEW a \in Honest, NEW o \in Orders,
             ConfirmApplied(a, o) \/ ConfirmFails(a, o)
      PROVE  EffectInv'
  <2>1. /\ st[a] \in States /\ disk[a] \in States
        /\ RosterOK(st[a]) /\ RosterOK(disk[a]) /\ Durable(a)
    BY DEF EffectInv, TypeOK
  <2>2. /\ ~poisoned[a] /\ preflight(st[a].ledger, o)
        /\ \A c \in st[a].confirmed : spent(c) # spent(o)
    BY <1>3 DEF ConfirmApplied, ConfirmFails, Confirmable
  <2>3. /\ st[a].confirmed = disk[a].confirmed /\ st[a].ledger = disk[a].ledger
        /\ OneOrderPerSeq(disk[a].confirmed)
    BY <2>1, <2>2 DEF Durable
  <2> DEFINE r == ReplayConfirmed(disk[a], o)
             n == Applied(st[a], o)
  <2>4. /\ r \in States /\ n \in States
        /\ [st[a] EXCEPT !.ledger = apply(@, o)] \in States
    BY <2>1, <2>2, ConfirmedType
  <2>5. /\ r.confirmed = disk[a].confirmed \cup {o}
        /\ r.ledger = apply(disk[a].ledger, o)
        /\ RosterOK(r) /\ OneOrderPerSeq(r.confirmed)
    <3>1. r = [disk[a] EXCEPT !.ledger = apply(disk[a].ledger, o),
                     !.confirmed = {c \in @ : spent(c) # spent(o)} \cup {o},
                     !.locked = PurgeRounds(@, o)]
      BY <2>2, <2>3 DEF ReplayConfirmed
    <3>2. {c \in disk[a].confirmed : spent(c) # spent(o)} = disk[a].confirmed
      BY <2>2, <2>3
    <3>3. /\ r.confirmed = disk[a].confirmed \cup {o}
          /\ r.ledger = apply(disk[a].ledger, o) /\ RosterOK(r)
      BY <2>1, <3>1, <3>2 DEF States, RosterOK
    <3>4. OneOrderPerSeq(r.confirmed)
      BY <2>2, <2>3, <3>3 DEF OneOrderPerSeq
    <3> QED
      BY <3>3, <3>4
  <2>6. /\ n.confirmed = st[a].confirmed \cup {o}
        /\ n.ledger = apply(st[a].ledger, o) /\ RosterOK(n)
    BY <2>1 DEF Applied, States, RosterOK
  <2>7. /\ Completed(n).confirmed = st[a].confirmed \cup {o}
        /\ Completed(n).ledger = apply(st[a].ledger, o) /\ RosterOK(Completed(n))
    BY <2>4, <2>6, RosterCompleted
  <2> HIDE DEF r, n
  <2>8. CASE ConfirmApplied(a, o)
    <3>1. /\ st' = [st EXCEPT ![a] = Completed(n)]
          /\ disk' = [disk EXCEPT ![a] = r] /\ UNCHANGED <<poisoned, votes, evotes, attested>>
      BY <2>8 DEF ConfirmApplied, Append, n, r
    <3>2. \A b \in Honest : RosterOK(st[b])' /\ RosterOK(disk[b])' /\ Durable(b)'
      BY <2>3, <2>5, <2>7, <3>1 DEF EffectInv, TypeOK, Durable, RosterOK
    <3>3. \A x \in attested : x.committee \in Rosters /\ x.order \in st'[x.auth].confirmed
      BY <2>7, <3>1 DEF EffectInv, TypeOK, AttestationType
    <3> QED
      BY <1>0, <3>1, <3>2, <3>3 DEF EffectInv
  <2>9. CASE ConfirmFails(a, o)
    <3> DEFINE m == [st[a] EXCEPT !.ledger = apply(@, o)]
    <3>1. /\ m \in States /\ m.confirmed = st[a].confirmed /\ RosterOK(m)
      BY <2>1, <2>4 DEF States, RosterOK
    <3>2. /\ st' = [st EXCEPT ![a] = m]
          /\ disk' = disk \/ disk' = [disk EXCEPT ![a] = r]
          /\ poisoned' = [poisoned EXCEPT ![a] = TRUE]
          /\ UNCHANGED <<votes, evotes, attested>>
      BY <2>9 DEF ConfirmFails, AppendFails, r
    <3> HIDE DEF m
    <3>3. \A b \in Honest : RosterOK(st[b])' /\ RosterOK(disk[b])' /\ Durable(b)'
      BY <2>3, <2>5, <3>1, <3>2 DEF EffectInv, TypeOK, Durable, RosterOK
    <3>4. \A x \in attested : x.committee \in Rosters /\ x.order \in st'[x.auth].confirmed
      BY <3>1, <3>2 DEF EffectInv, TypeOK, AttestationType
    <3> QED
      BY <1>0, <3>2, <3>3, <3>4 DEF EffectInv
  <2> QED
    BY <1>3, <2>8, <2>9
<1>4. ASSUME NEW a \in Honest, NEW o \in Orders, Attest(a, o)
      PROVE  EffectInv'
  <2>1. UNCHANGED <<st, disk, poisoned, votes, evotes>>
    BY <1>4 DEF Attest
  <2>2. \A b \in Honest : RosterOK(st[b])' /\ RosterOK(disk[b])' /\ Durable(b)'
    BY <2>1 DEF EffectInv, Durable, RosterOK
  <2>3. \A x \in attested' : x.committee \in Rosters /\ x.order \in st[x.auth].confirmed
    BY <1>4 DEF Attest, Attestation, EffectInv, RosterOK
  <2> QED
    BY <1>0, <2>1, <2>2, <2>3 DEF EffectInv
<1>5. ASSUME NEW a \in Honest, NEW p \in Proposals, Fence(a, p) \/ FenceFails(a, p)
      PROVE  EffectInv'
  <2> DEFINE r == ReplayEpochFence(disk[a], p)
             s == [st[a] EXCEPT !.mode = "Fencing", !.change = Fenced(p)]
  <2>1. /\ st[a] \in States /\ disk[a] \in States
        /\ RosterOK(st[a]) /\ RosterOK(disk[a])
    BY DEF EffectInv, TypeOK
  <2>2. p.next \in Rosters
    BY <1>5 DEF Fence, FenceFails, Fenceable, Rosters
  <2>3. Fenced(p).next \in Rosters /\ Fenced(p) \in Changes
    BY <2>2, FencedType DEF Fenced
  <2>4. /\ r \in States /\ s \in States
        /\ r.confirmed = disk[a].confirmed /\ r.ledger = disk[a].ledger /\ RosterOK(r)
        /\ s.confirmed = st[a].confirmed /\ s.ledger = st[a].ledger /\ RosterOK(s)
    BY <2>1, <2>3 DEF ReplayEpochFence, States, RosterOK
  <2> HIDE DEF r, s
  <2>5. CASE Fence(a, p)
    <3>1. st' = [st EXCEPT ![a] = s]
      BY <2>5, <1>0 DEF Fence, s, TypeOK
    <3> QED
      BY <1>0, <2>4, <2>5, <3>1, DurableAppend DEF Fence, r
  <2>6. CASE FenceFails(a, p)
    <3>1. st' = [st EXCEPT ![a] = st[a]]
      BY <2>6, <1>0 DEF FenceFails, TypeOK
    <3> QED
      BY <1>0, <2>1, <2>4, <2>6, <3>1, DurableAppend DEF FenceFails, r
  <2> QED
    BY <1>5, <2>5, <2>6
<1>6. ASSUME NEW a \in Honest, SignEpochVote(a)
      PROVE  EffectInv'
  <2>1. UNCHANGED <<st, disk, poisoned, votes, attested>>
    BY <1>6 DEF SignEpochVote
  <2>2. \A b \in Honest : RosterOK(st[b])' /\ RosterOK(disk[b])' /\ Durable(b)'
    BY <2>1 DEF EffectInv, Durable, RosterOK
  <2>3. \A v \in evotes' : v.next \in Rosters
    BY <1>6 DEF SignEpochVote, EpochVote, EffectInv, RosterOK
  <2> QED
    BY <1>0, <2>1, <2>2, <2>3 DEF EffectInv
<1>7. ASSUME NEW a \in Honest, NEW c \in EpochCerts,
             InstallEpochCert(a, c) \/ InstallFails(a, c) \/ InstallConflict(a, c)
      PROVE  EffectInv'
  <2>1. /\ st[a] \in States /\ disk[a] \in States
        /\ RosterOK(st[a]) /\ RosterOK(disk[a])
    BY DEF EffectInv, TypeOK
  <2>2. c \in Changes /\ c.next \in Rosters
    BY <1>0, CertType DEF EffectInv, EpochCerts
  <2>3. ASSUME NEW s \in States, RosterOK(s)
        PROVE  LET i == Completed(Installed(s, c)) IN
               /\ i \in States /\ RosterOK(i)
               /\ i.confirmed = s.confirmed /\ i.ledger = s.ledger
    <3>1. /\ Installed(s, c) \in States /\ RosterOK(Installed(s, c))
          /\ Installed(s, c).confirmed = s.confirmed /\ Installed(s, c).ledger = s.ledger
      BY <2>2, <2>3 DEF Installed, States, RosterOK
    <3> QED
      BY <3>1, CompletedType, RosterCompleted
  <2> DEFINE r == ReplayEpochInstalled(disk[a], c)
             s == Completed(Installed(st[a], c))
  <2>4. /\ r \in States /\ s \in States
        /\ r.confirmed = disk[a].confirmed /\ r.ledger = disk[a].ledger /\ RosterOK(r)
        /\ s.confirmed = st[a].confirmed /\ s.ledger = st[a].ledger /\ RosterOK(s)
    BY <2>1, <2>3 DEF ReplayEpochInstalled
  <2> HIDE DEF r, s
  <2>5. CASE InstallEpochCert(a, c)
    BY <1>0, <2>4, <2>5, DurableAppend DEF InstallEpochCert, r, s
  <2>6. CASE InstallFails(a, c)
    <3>1. st' = [st EXCEPT ![a] = st[a]]
      BY <2>6, <1>0 DEF InstallFails, TypeOK
    <3> QED
      BY <1>0, <2>1, <2>4, <2>6, <3>1, DurableAppend DEF InstallFails, r
  <2>7. CASE InstallConflict(a, c)
    BY <1>0, <2>7 DEF InstallConflict, EffectInv, TypeOK, Durable, RosterOK
  <2> QED
    BY <1>7, <2>5, <2>6, <2>7
<1>8. ASSUME NEW a \in Honest, CompactJournal(a)
      PROVE  EffectInv'
  <2> DEFINE r == ReplaySnapshot(st[a])
  <2>1. /\ st[a] \in States /\ disk[a] \in States /\ Durable(a)
    BY DEF EffectInv, TypeOK
  <2>2. /\ r.confirmed = st[a].confirmed /\ r.ledger = st[a].ledger /\ RosterOK(r)
        /\ OneOrderPerSeq(r.confirmed)
    <3>1. InitState \in States /\ RosterOK(InitState)
      BY InitStateType DEF InitState, RosterOK, Rosters
    <3>2. /\ r.confirmed = st[a].confirmed /\ r.ledger = st[a].ledger /\ RosterOK(r)
      BY <3>1 DEF ReplaySnapshot, States, RosterOK
    <3> QED
      BY <2>1, <3>2 DEF Durable, OneOrderPerSeq
  <2> HIDE DEF r
  <2>3. /\ \/ disk' = disk /\ poisoned' = [poisoned EXCEPT ![a] = TRUE]
           \/ /\ disk' = [disk EXCEPT ![a] = r]
              /\ poisoned' = poisoned \/ poisoned' = [poisoned EXCEPT ![a] = TRUE]
        /\ UNCHANGED <<st, votes, evotes, attested>>
    BY <1>8 DEF CompactJournal, Append, AppendFails, r
  <2>4. \A b \in Honest : RosterOK(st[b])' /\ RosterOK(disk[b])' /\ Durable(b)'
    BY <2>2, <2>3 DEF EffectInv, TypeOK, Durable, RosterOK
  <2> QED
    BY <1>0, <2>3, <2>4 DEF EffectInv
<1>9. ASSUME NEW a \in Honest, Restart(a)
      PROVE  EffectInv'
  <2>1. /\ st' = [st EXCEPT ![a] = disk[a]]
        /\ poisoned' = [poisoned EXCEPT ![a] = FALSE]
        /\ UNCHANGED <<disk, votes, evotes, attested>>
    BY <1>9 DEF Restart
  <2>2. \A b \in Honest : RosterOK(st[b])' /\ RosterOK(disk[b])' /\ Durable(b)'
    BY <2>1 DEF EffectInv, TypeOK, Durable, RosterOK
  <2>3. \A x \in attested : x.committee \in Rosters /\ x.order \in st'[x.auth].confirmed
    BY <2>1 DEF EffectInv, TypeOK, AttestationType, Durable
  <2> QED
    BY <1>0, <2>1, <2>2, <2>3 DEF EffectInv
<1> QED
  BY <1>1, <1>2, <1>3, <1>4, <1>5, <1>6, <1>7, <1>8, <1>9 DEF Next

\* Whatever an authority attested to a client is durable: it survives every
\* crash, failed write, compaction and epoch change.
THEOREM AttestedSurvives == Spec => []AttestationsDurable
<1>1. EffectInv => AttestationsDurable
  BY DEF EffectInv, Durable, AttestationsDurable, TypeOK, AttestationType
<1> QED
  BY <1>1, EffectInit, EffectStep, PTL DEF Spec

\* As long as no committee exceeds its Byzantine budget, one committee never
\* makes two orders for one sequence number final, in whatever rounds they were
\* voted, through crashes, compactions and any number of epoch changes.
THEOREM EffectFinality ==
    ASSUME \A C \in Rosters : Tolerable(C)
    PROVE  Spec => []EffectUnique
<1>1. ASSUME EffectInv PROVE EffectUnique
  <2> SUFFICES ASSUME NEW C \in {t.committee : t \in attested},
                      NEW o1 \in Orders, NEW o2 \in Orders,
                      spent(o1) = spent(o2), EffectFinal(C, o1), EffectFinal(C, o2)
               PROVE  o1 = o2
    BY DEF EffectUnique
  <2>1. C \in Rosters
    BY <1>1 DEF EffectInv
  <2>2. C \subseteq Authorities /\ C # {}
    BY <2>1, AuthorityAssumption DEF Rosters
  <2>3. IsFiniteSet(C) /\ Tolerable(C)
    BY <2>1, <2>2, AuthorityAssumption, FS_Subset
  <2>4. Attesters(C, o1) \in SUBSET C /\ Attesters(C, o2) \in SUBSET C
    BY DEF Attesters
  <2>5. /\ Cardinality(Attesters(C, o1)) >= quorum(Cardinality(C))
        /\ Cardinality(Attesters(C, o2)) >= quorum(Cardinality(C))
    BY DEF EffectFinal
  <2>6. PICK m \in Attesters(C, o1) \cap Attesters(C, o2) : m \notin Faulty
    <3> HIDE DEF Attesters
    <3> QED BY <2>2, <2>3, <2>4, <2>5, QuorumIntersection
  <2>7. PICK t1 \in attested : t1.auth = m /\ t1.order = o1
    BY <2>6 DEF Attesters
  <2>8. PICK t2 \in attested : t2.auth = m /\ t2.order = o2
    BY <2>6 DEF Attesters
  <2>9. m \in Honest
    BY <1>1, <2>7 DEF EffectInv, TypeOK, AttestationType
  <2>10. o1 \in disk[m].confirmed /\ o2 \in disk[m].confirmed
    BY <1>1, <2>7, <2>8, <2>9 DEF EffectInv, Durable
  <2> QED
    BY <1>1, <2>9, <2>10 DEF EffectInv, Durable, OneOrderPerSeq
<1> QED
  BY <1>1, EffectInit, EffectStep, PTL DEF Spec

(***************************************************************************)
(* Conservation of money                                                   *)
(*                                                                         *)
(* Only Ledger::apply moves money, every step that calls it has passed     *)
(* preflight on that very ledger (recover included), and apply under       *)
(* preflight keeps the sum of the balances.                                *)
(***************************************************************************)
Balances(l) == [id \in DOMAIN l |-> l[id].balance]

LEMMA SupplyIsSum ==
    ASSUME NEW l \in Ledgers
    PROVE  /\ IsFiniteSet(DOMAIN l) /\ IntOn(Balances(l), DOMAIN l)
           /\ Supply(l) = SumOver(Balances(l), DOMAIN l)
<1>1. DOMAIN l \subseteq Accounts /\ l \in [DOMAIN l -> Account]
  BY LedgerMembership
<1>2. IsFiniteSet(DOMAIN l)
  BY <1>1, AuthorityAssumption, FS_Subset
<1>3. IntOn(Balances(l), DOMAIN l)
  BY <1>1, LedgerBounds DEF IntOn, Balances, Account
<1>4. Supply(l) = SumOver(Balances(l), DOMAIN l)
  BY DEF Supply, SumOver, MapThenSumSet, MapThenFoldSet, Balances
<1> QED
  BY <1>2, <1>3, <1>4

\* What one transfer does to the sum.
LEMMA TransferSum ==
    ASSUME NEW D, IsFiniteSet(D), NEW f, NEW g, IntOn(f, D), IntOn(g, D),
           NEW x \in D, NEW y \in D, x # y, NEW n \in Int,
           g[x] = f[x] - n, g[y] = f[y] + n, \A z \in D \ {x, y} : g[z] = f[z]
    PROVE  SumOver(g, D) = SumOver(f, D)
<1> DEFINE E == D \ {x}
           R == E \ {y}
<1>1. y \in E /\ IsFiniteSet(E) /\ IsFiniteSet(R)
  BY FS_RemoveElement
<1>2. IntOn(f, E) /\ IntOn(g, E) /\ IntOn(f, R) /\ IntOn(g, R)
  BY DEF IntOn
<1>3. \A z \in R : g[z] = f[z]
  OBVIOUS
<1>4. SumOver(f, D) = f[x] + SumOver(f, E) /\ SumOver(g, D) = g[x] + SumOver(g, E)
  BY SumSplit
<1> HIDE DEF E
<1>5. SumOver(f, E) = f[y] + SumOver(f, R) /\ SumOver(g, E) = g[y] + SumOver(g, R)
  BY <1>1, <1>2, SumSplit
<1> HIDE DEF R
<1>6. SumOver(f, R) = SumOver(g, R) /\ SumOver(f, R) \in Int
  BY <1>1, <1>2, <1>3, SumSame, SumSplit
<1>7. f[x] \in Int /\ f[y] \in Int
  BY DEF IntOn
<1> QED
  BY <1>4, <1>5, <1>6, <1>7

LEMMA ApplySupply ==
    ASSUME NEW l \in Ledgers, NEW t \in OrderType, preflight(l, t)
    PROVE  Supply(apply(l, t)) = Supply(l)
<1> DEFINE k == apply(l, t)
           D == DOMAIN l \cup {t.to}
           f == [id \in D |-> balance(l, id)]
           g == Balances(k)
<1>1. k \in Ledgers /\ DOMAIN k = D
  BY ApplyType DEF apply
<1>2. IsFiniteSet(D) /\ IntOn(g, D) /\ Supply(k) = SumOver(g, D)
  BY <1>1, SupplyIsSum
<1>3. /\ IsFiniteSet(DOMAIN l) /\ IntOn(Balances(l), DOMAIN l)
      /\ Supply(l) = SumOver(Balances(l), DOMAIN l)
  BY SupplyIsSum
<1>4. \A id \in DOMAIN l : f[id] = Balances(l)[id]
  BY DEF balance, Balances
<1>5. IntOn(f, D)
  BY <1>3 DEF IntOn, Balances, balance
<1>6. \A id \in D : g[id] = f[id]
                        - (IF id = t.from /\ t.from # t.to THEN t.amount ELSE 0)
                        + (IF id = t.to /\ t.from # t.to THEN t.amount ELSE 0)
  BY DEF Balances, apply
<1>7. t.amount \in Int /\ t.from \in D /\ t.to \in D
  BY LedgerBounds DEF preflight, OrderType
<1> HIDE DEF g, k
<1>8. SumOver(f, D) = Supply(l)
  <2>1. SumOver(f, DOMAIN l) = Supply(l)
    <3> HIDE DEF f
    <3> QED BY <1>3, <1>4, SumSame
  <2>2. CASE t.to \in DOMAIN l
    BY <2>1, <2>2
  <2>3. CASE t.to \notin DOMAIN l
    <3>1. f[t.to] = 0 /\ D \ {t.to} = DOMAIN l
      BY <2>3 DEF balance
    <3>2. SumOver(f, DOMAIN l) \in Int
      <4>1. IntOn(f, DOMAIN l)
        BY <1>5 DEF IntOn
      <4> HIDE DEF f
      <4> QED BY <1>3, <4>1, SumSplit
    <3> HIDE DEF f, D
    <3>3. SumOver(f, D) = f[t.to] + SumOver(f, D \ {t.to})
      BY <1>2, <1>5, <1>7, SumSplit
    <3> QED
      BY <2>1, <3>1, <3>2, <3>3
  <2> QED
    BY <2>2, <2>3
<1>9. SumOver(g, D) = SumOver(f, D)
  <2> HIDE DEF f, D
  <2>1. CASE t.from = t.to
    <3>1. \A id \in D : g[id] = f[id]
      BY <1>5, <1>6, <2>1 DEF IntOn
    <3> QED
      BY <1>2, <3>1, SumSame
  <2>2. CASE t.from # t.to
    <3>1. \A id \in D : f[id] \in Int
      BY <1>5 DEF IntOn
    <3>2. /\ g[t.from] = f[t.from] - t.amount /\ g[t.to] = f[t.to] + t.amount
          /\ \A z \in D \ {t.from, t.to} : g[z] = f[z]
      BY <1>6, <1>7, <2>2, <3>1
    <3> QED
      BY <1>2, <1>5, <1>7, <2>2, <3>2, TransferSum
  <2> QED
    BY <2>1, <2>2
<1> QED
  BY <1>2, <1>8, <1>9 DEF k

SupplyInv == TypeOK /\ SupplyConserved

\* The ledger a step leaves is the one it found, in memory or on disk, or that
\* ledger with one order applied that passed preflight on it.
LEMMA SupplyMove ==
    ASSUME SupplyInv, TypeOK', NEW a \in Honest, NEW s, NEW d,
           st' = [st EXCEPT ![a] = s],
           disk' = disk \/ disk' = [disk EXCEPT ![a] = d],
           Supply(s.ledger) = Supply(Genesis), Supply(d.ledger) = Supply(Genesis)
    PROVE  SupplyInv'
<1>1. ASSUME NEW b \in Honest
      PROVE  /\ Supply(st'[b].ledger) = Supply(Genesis)
             /\ Supply(disk'[b].ledger) = Supply(Genesis)
  BY DEF SupplyInv, SupplyConserved, TypeOK
<1>2. \A b \in Honest : /\ Supply(st'[b].ledger) = Supply(Genesis)
                        /\ Supply(disk'[b].ledger) = Supply(Genesis)
  BY <1>1
<1> QED
  BY <1>2 DEF SupplyInv, SupplyConserved

LEMMA SupplyStep == SupplyInv /\ [Next]_vars => SupplyInv'
<1> SUFFICES ASSUME SupplyInv, [Next]_vars PROVE SupplyInv'
  OBVIOUS
<1>0. TypeOK' /\ TypeOK
  BY TypeStep DEF SupplyInv
<1>a. ASSUME NEW a \in Honest
      PROVE  /\ st[a] \in States /\ disk[a] \in States
             /\ st[a].ledger \in Ledgers /\ disk[a].ledger \in Ledgers
             /\ Supply(st[a].ledger) = Supply(Genesis)
             /\ Supply(disk[a].ledger) = Supply(Genesis)
             /\ st = [st EXCEPT ![a] = st[a]]
  BY DEF SupplyInv, SupplyConserved, TypeOK, States
<1>b. ASSUME NEW s \in States
      PROVE  /\ Completed(s).ledger = s.ledger
             /\ \A c : Installed(s, c).ledger = s.ledger
  BY DEF Completed, complete_install, Installed, States
<1>1. CASE UNCHANGED vars
  BY <1>0, <1>1 DEF vars, SupplyInv, SupplyConserved
<1>2. ASSUME NEW a \in Honest, NEW o \in Orders,
             HandleRevote(a, o) \/ HandleVote(a, o) \/ HandleFails(a, o)
               \/ HandleRefused(a, o)
      PROVE  SupplyInv'
  <2> DEFINE s == Opened(st[a])
             t == [s EXCEPT !.locked = @ \cup {o}]
             r == ReplayLocked(disk[a], o)
  <2>1. s \in States /\ s.ledger = st[a].ledger
    BY <1>a, <1>b, CompletedType DEF Opened
  <2> HIDE DEF s
  <2>2. t.ledger = s.ledger /\ r.ledger = disk[a].ledger
    BY <1>a, <2>1 DEF ReplayLocked, States
  <2> HIDE DEF t, r
  <2>3. /\ st' = [st EXCEPT ![a] = s] \/ st' = [st EXCEPT ![a] = t]
        /\ disk' = disk \/ disk' = [disk EXCEPT ![a] = r]
    BY <1>2 DEF HandleRevote, HandleVote, HandleFails, HandleRefused, Append,
                AppendFails, s, t, r
  <2> QED
    BY <1>0, <1>a, <2>1, <2>2, <2>3, SupplyMove
<1>3. ASSUME NEW a \in Honest, NEW o \in Orders,
             ConfirmApplied(a, o) \/ ConfirmFails(a, o)
      PROVE  SupplyInv'
  <2> DEFINE n == Applied(st[a], o)
             m == [st[a] EXCEPT !.ledger = apply(@, o)]
             r == ReplayConfirmed(disk[a], o)
  <2>1. preflight(st[a].ledger, o) /\ o \in OrderType
    BY <1>3, AuthorityAssumption DEF ConfirmApplied, ConfirmFails, Confirmable
  <2>2. n \in States
    BY <1>a, <2>1, ConfirmedType
  <2>3. n.ledger = apply(st[a].ledger, o) /\ m.ledger = apply(st[a].ledger, o)
    BY <1>a DEF Applied, States
  <2>4. \/ preflight(disk[a].ledger, o) /\ r.ledger = apply(disk[a].ledger, o)
        \/ r.ledger = disk[a].ledger
    BY <1>a DEF ReplayConfirmed, States
  <2> HIDE DEF n, m, r
  <2>5. Supply(Completed(n).ledger) = Supply(Genesis) /\ Supply(m.ledger) = Supply(Genesis)
    BY <1>a, <1>b, <2>1, <2>2, <2>3, ApplySupply
  <2>6. Supply(r.ledger) = Supply(Genesis)
    BY <1>a, <2>1, <2>4, ApplySupply
  <2>7. /\ st' = [st EXCEPT ![a] = Completed(n)] \/ st' = [st EXCEPT ![a] = m]
        /\ disk' = disk \/ disk' = [disk EXCEPT ![a] = r]
    BY <1>3 DEF ConfirmApplied, ConfirmFails, Append, AppendFails, n, m, r
  <2> QED
    BY <1>0, <2>5, <2>6, <2>7, SupplyMove
<1>4. ASSUME NEW a \in Honest, NEW p \in Proposals, Fence(a, p) \/ FenceFails(a, p)
      PROVE  SupplyInv'
  <2> DEFINE n == [st[a] EXCEPT !.mode = "Fencing", !.change = Fenced(p)]
             r == ReplayEpochFence(disk[a], p)
  <2>1. n.ledger = st[a].ledger /\ r.ledger = disk[a].ledger
    BY <1>a DEF ReplayEpochFence, States
  <2>2. /\ st' = st \/ st' = [st EXCEPT ![a] = n]
        /\ disk' = disk \/ disk' = [disk EXCEPT ![a] = r]
    BY <1>4 DEF Fence, FenceFails, Append, AppendFails
  <2> HIDE DEF n, r
  <2> QED
    BY <1>0, <1>a, <2>1, <2>2, SupplyMove
<1>5. ASSUME NEW a \in Honest, NEW c \in EpochCerts,
             InstallEpochCert(a, c) \/ InstallFails(a, c) \/ InstallConflict(a, c)
      PROVE  SupplyInv'
  <2> DEFINE n == Completed(Installed(st[a], c))
             r == ReplayEpochInstalled(disk[a], c)
  <2>1. \A s \in States : Completed(Installed(s, c)).ledger = s.ledger
    BY <1>0, <1>b, CertType, EpochRecordTypes
  <2>2. n.ledger = st[a].ledger /\ r.ledger = disk[a].ledger
    BY <1>a, <2>1 DEF ReplayEpochInstalled
  <2>3. /\ st' = st \/ st' = [st EXCEPT ![a] = n]
        /\ disk' = disk \/ disk' = [disk EXCEPT ![a] = r]
    BY <1>5 DEF InstallEpochCert, InstallFails, InstallConflict, Append, AppendFails
  <2> HIDE DEF n, r
  <2> QED
    BY <1>0, <1>a, <2>2, <2>3, SupplyMove
<1>6. ASSUME NEW a \in Honest, CompactJournal(a)
      PROVE  SupplyInv'
  <2> DEFINE r == ReplaySnapshot(st[a])
  <2>1. r.ledger = st[a].ledger
    BY DEF ReplaySnapshot, InitState
  <2>2. st' = st /\ (disk' = disk \/ disk' = [disk EXCEPT ![a] = r])
    BY <1>6 DEF CompactJournal, Append, AppendFails
  <2> HIDE DEF r
  <2> QED
    BY <1>0, <1>a, <2>1, <2>2, SupplyMove
<1>7. ASSUME NEW a \in Honest,
             Restart(a) \/ SignEpochVote(a) \/ (\E o \in Orders : Attest(a, o))
      PROVE  SupplyInv'
  <2>1. /\ st' = st \/ st' = [st EXCEPT ![a] = disk[a]]
        /\ disk' = disk
    BY <1>7 DEF Restart, SignEpochVote, Attest
  <2> QED
    BY <1>0, <1>a, <2>1, SupplyMove
<1> QED
  BY <1>1, <1>2, <1>3, <1>4, <1>5, <1>6, <1>7 DEF Next

\* No behaviour creates or destroys money, for any number of accounts, orders,
\* crashes, failed writes, compactions and epoch changes: every ledger, running
\* or rebuilt from its journal, holds exactly the genesis supply.
THEOREM MoneyConserved == Spec => []SupplyConserved
<1>1. Init => SupplyInv
  BY TypeInit DEF Init, InitState, SupplyInv, SupplyConserved
<1>2. SupplyInv => SupplyConserved
  BY DEF SupplyInv
<1> QED
  BY <1>1, <1>2, SupplyStep, PTL DEF Spec

(***************************************************************************)
(* Vote safety and exact recovery of an authority, for deployments that    *)
(* change their committee at most once, to a different roster, and do not  *)
(* combine that with compaction: the authority_recovery run shows why the  *)
(* first restriction is needed, README.md the others.                      *)
(* The last part is about epoch changes.                                   *)
(***************************************************************************)
SingleChange ==
    /\ \A p \in Proposals : p.epoch <= 1 /\ p.next # C0
    /\ Proposals = {} \/ Compacting = {}

\* The trust root of a state, in memory or on disk.
Sane(s) ==
    /\ s.mode # "Corrupt"
    /\ s.epoch \in {0, 1}
    /\ s.epoch = 0 <=> s.committee = C0
    /\ s.mode # "Active" => s.epoch = 0 /\ s.change.epoch = 1 /\ s.change.next # C0
    /\ Proposals = {} => /\ s.mode = "Active" /\ s.epoch = 0
                         /\ s.change = NoChange /\ s.last_cert = NoChange

\* The committee generation the locks of s are promises to.
Generation(s) == IF s.mode = "Installing" THEN s.change.epoch ELSE s.epoch

\* The promise made by vote v is still held in s: by its lock, because the
\* sequence number is spent, or because its generation is over.
Kept(s, v) ==
    \/ v.order \in s.locked
    \/ next_seq(s.ledger, v.order.from) > v.order.seq
    \/ v.epoch < Generation(s)

VoteHeld(s, v) ==
    /\ v.epoch <= Generation(s)
    /\ Kept(s, v)
    /\ \A l \in s.locked :
          slot(l) = slot(v.order) /\ v.epoch = Generation(s) => l = v.order

OneLockPerSlot(s) == \A l, m \in s.locked : slot(l) = slot(m) => l = m

StateOK(s) == Sane(s) /\ OneLockPerSlot(s)

\* Memory is what recover() folds, up to the completion of a covered install.
Matches(s, d) == s = d \/ (install_covered(d) /\ s = complete_install(d))

VoteOK(v) ==
    /\ v.epoch \in {0, 1}
    /\ v.epoch = 0 <=> v.committee = C0

VoteInv ==
    /\ TypeOK
    /\ \A a \in Honest : /\ StateOK(st[a]) /\ StateOK(disk[a])
                         /\ ~poisoned[a] => Matches(st[a], disk[a])
    /\ \A v \in votes : /\ VoteOK(v)
                        /\ VoteHeld(st[v.auth], v) /\ VoteHeld(disk[v.auth], v)
    /\ \A v \in evotes : v.epoch = 1 /\ v.next # C0
    /\ Proposals = {} => evotes = {}
    /\ NoEquivocation

(***************************************************************************)
(* The state operators                                                     *)
(***************************************************************************)
LEMMA StateExtensional ==
    ASSUME NEW s \in States, NEW t \in States,
           s.ledger = t.ledger, s.locked = t.locked, s.confirmed = t.confirmed,
           s.epoch = t.epoch, s.committee = t.committee, s.mode = t.mode,
           s.change = t.change, s.last_cert = t.last_cert
    PROVE  s = t
  BY DEF States

LEMMA CompletedOK ==
    ASSUME NEW s \in States, StateOK(s)
    PROVE  /\ Completed(s) \in States /\ StateOK(Completed(s))
           /\ Completed(s).locked = s.locked /\ Completed(s).ledger = s.ledger
           /\ Generation(Completed(s)) = Generation(s)
           /\ ~install_covered(Completed(s))
<1>1. CASE install_covered(s)
  <2>1. Completed(s) = complete_install(s) /\ s.mode = "Installing"
    BY <1>1 DEF Completed, install_covered
  <2>2. complete_install(s) = [s EXCEPT !.mode = "Active", !.change = NoChange,
                                        !.committee = s.change.next,
                                        !.epoch = s.change.epoch]
    BY DEF complete_install
  <2> QED
    BY <2>1, <2>2, CompletedType
       DEF StateOK, Sane, OneLockPerSlot, Generation, States, install_covered
<1>2. CASE ~install_covered(s)
  BY <1>2 DEF Completed
<1> QED
  BY <1>1, <1>2

\* VoteHeld only looks at the locks, the ledger and the generation.
LEMMA HeldSame ==
    ASSUME NEW s, NEW t, NEW v, s.locked = t.locked, s.ledger = t.ledger,
           Generation(s) = Generation(t), VoteHeld(s, v)
    PROVE  VoteHeld(t, v)
  BY DEF VoteHeld, Kept

LEMMA MatchesAgree ==
    ASSUME NEW s \in States, NEW d \in States, StateOK(d), Matches(s, d)
    PROVE  /\ s.locked = d.locked /\ s.ledger = d.ledger
           /\ s.confirmed = d.confirmed
           /\ Generation(s) = Generation(d)
           /\ Completed(s) = Completed(d)
<1>1. CASE s = d
  BY <1>1
<1>2. CASE install_covered(d) /\ s = complete_install(d)
  <2>1. s = Completed(d)
    BY <1>2 DEF Completed
  <2>2. ~install_covered(s)
    BY <2>1, CompletedOK
  <2>3. s.confirmed = d.confirmed
    BY <1>2 DEF complete_install, States
  <2> QED
    BY <2>1, <2>2, <2>3, CompletedOK DEF Completed
<1> QED
  BY <1>1, <1>2 DEF Matches

\* The lock of a free slot breaks no promise.
LEMMA LockHeld ==
    ASSUME NEW s \in States, NEW t \in States, NEW o \in Orders, NEW v \in VoteType,
           t.locked = s.locked \cup {o}, t.ledger = s.ledger,
           Generation(t) = Generation(s), Generation(s) \in Nat,
           \A l \in s.locked : slot(l) # slot(o),
           preflight(s.ledger, o), VoteHeld(s, v)
    PROVE  VoteHeld(t, v)
<1>1. Kept(t, v) /\ v.epoch <= Generation(t)
  BY DEF VoteHeld, Kept
<1>2. ASSUME slot(o) = slot(v.order), v.epoch = Generation(s)
      PROVE  FALSE
  <2>1. v.order.from = o.from /\ v.order.seq = o.seq
    BY <1>2 DEF slot
  <2>2. next_seq(s.ledger, o.from) = o.seq /\ o.seq \in Nat
    BY AuthorityAssumption, LedgerBounds DEF preflight, next_seq, OrderType
  <2>3. v.order \in s.locked
    BY <1>2, <2>1, <2>2 DEF VoteHeld, Kept
  <2> QED
    BY <1>2, <2>3
<1> QED
  BY <1>1, <1>2 DEF VoteHeld

\* A confirmation keeps every promise: it spends the ones whose lock it drops.
LEMMA ConfirmHeld ==
    ASSUME NEW s \in States, NEW t \in States, NEW o \in Orders, NEW v \in VoteType,
           t.locked = PurgeRounds(s.locked, o), t.ledger = apply(s.ledger, o),
           Generation(t) = Generation(s), preflight(s.ledger, o), VoteHeld(s, v)
    PROVE  VoteHeld(t, v)
<1>1. o \in OrderType /\ v.order \in OrderType /\ s.ledger \in Ledgers
  BY AuthorityAssumption DEF VoteType, States
<1>2. /\ next_seq(t.ledger, v.order.from) >= next_seq(s.ledger, v.order.from)
      /\ next_seq(t.ledger, o.from) > o.seq
  BY <1>1, ApplySeq DEF OrderType
<1>3. /\ next_seq(s.ledger, v.order.from) \in Nat /\ v.order.seq \in Nat
      /\ next_seq(t.ledger, v.order.from) \in Nat
  <2>1. t.ledger \in Ledgers
    BY DEF States
  <2> QED
    BY <1>1, <2>1, LedgerMembership, LedgerBounds DEF next_seq, OrderType, Account
<1>4. Kept(t, v)
  <2>1. CASE v.order \in s.locked
    BY <1>2, <2>1 DEF Kept, PurgeRounds, spent
  <2>2. CASE next_seq(s.ledger, v.order.from) > v.order.seq
    BY <1>2, <1>3, <2>2 DEF Kept
  <2>3. CASE v.epoch < Generation(s)
    BY <2>3 DEF Kept
  <2> QED
    BY <2>1, <2>2, <2>3 DEF VoteHeld, Kept
<1> QED
  BY <1>4 DEF VoteHeld, PurgeRounds

(***************************************************************************)
(* The invariant                                                           *)
(***************************************************************************)
LEMMA VoteInvInit == Init => VoteInv
<1> SUFFICES ASSUME Init PROVE VoteInv
  OBVIOUS
<1>1. TypeOK
  BY TypeInit
<1>2. StateOK(InitState)
  BY DEF InitState, StateOK, Sane, OneLockPerSlot
<1>3. NoEquivocation
  BY DEF Init, NoEquivocation
<1> QED
  BY <1>1, <1>2, <1>3 DEF Init, VoteInv, Matches

\* One authority moves, in memory to s and on disk to d, and signs the votes W
\* (none or one): what has to be shown of s, d and W alone.
LEMMA LocalStep ==
    ASSUME VoteInv, TypeOK', NEW a \in Honest, NEW s \in States, NEW d \in States, NEW W,
           st' = [st EXCEPT ![a] = s], disk' = [disk EXCEPT ![a] = d],
           \A b \in Honest \ {a} : poisoned'[b] = poisoned[b],
           votes' = votes \cup W, evotes' = evotes,
           StateOK(s), StateOK(d), ~poisoned'[a] => Matches(s, d),
           \A v \in votes : v.auth = a => VoteHeld(s, v) /\ VoteHeld(d, v),
           \A w \in W : /\ w.auth = a /\ VoteOK(w) /\ VoteHeld(s, w) /\ VoteHeld(d, w)
                        /\ \A x \in W : x = w
                        /\ \A v \in votes : /\ v.auth = a /\ v.epoch = w.epoch
                                            /\ slot(v.order) = slot(w.order)
                                            => v.order = w.order
    PROVE  VoteInv'
<1>1. \A b \in Honest : /\ StateOK(st'[b]) /\ StateOK(disk'[b])
                        /\ ~poisoned'[b] => Matches(st'[b], disk'[b])
  BY DEF VoteInv, TypeOK
<1>2. ASSUME NEW v \in votes'
      PROVE  VoteOK(v) /\ VoteHeld(st'[v.auth], v) /\ VoteHeld(disk'[v.auth], v)
  <2>1. v.auth \in Honest
    BY DEF TypeOK, VoteType
  <2>2. CASE v \in votes
    BY <2>1, <2>2 DEF VoteInv, TypeOK
  <2>3. CASE v \in W
    BY <2>3 DEF VoteInv, TypeOK
  <2> QED
    BY <2>2, <2>3
<1>3. NoEquivocation'
  <2> SUFFICES ASSUME NEW v \in votes', NEW w \in votes',
                      v.auth = w.auth, v.committee = w.committee,
                      slot(v.order) = slot(w.order)
               PROVE  v.order = w.order
    BY DEF NoEquivocation
  <2>1. v.epoch = w.epoch
    BY <1>2 DEF VoteOK
  <2>2. CASE v \in votes /\ w \in votes
    BY <2>2 DEF VoteInv, NoEquivocation
  <2>3. CASE v \in W /\ w \in W
    BY <2>3
  <2>4. CASE v \in votes /\ w \in W
    BY <2>1, <2>4
  <2>5. CASE v \in W /\ w \in votes
    BY <2>1, <2>5
  <2> QED
    BY <2>2, <2>3, <2>4, <2>5
<1>4. /\ \A v \in evotes' : v.epoch = 1 /\ v.next # C0
      /\ Proposals = {} => evotes' = {}
  BY DEF VoteInv
<1>5. /\ \A b \in Honest : (StateOK(st[b]) /\ StateOK(disk[b])
                            /\ (~poisoned[b] => Matches(st[b], disk[b])))'
      /\ \A v \in votes' : (VoteHeld(st[v.auth], v) /\ VoteHeld(disk[v.auth], v))'
                            /\ VoteOK(v)
  BY <1>1, <1>2
<1> QED
  BY <1>3, <1>4, <1>5 DEF VoteInv

\* The same for a step that signs nothing.
LEMMA QuietStep ==
    ASSUME VoteInv, TypeOK', NEW a \in Honest, NEW s \in States, NEW d \in States,
           st' = [st EXCEPT ![a] = s], disk' = [disk EXCEPT ![a] = d],
           \A b \in Honest \ {a} : poisoned'[b] = poisoned[b],
           votes' = votes, evotes' = evotes,
           StateOK(s), StateOK(d), ~poisoned'[a] => Matches(s, d),
           \A v \in votes : v.auth = a => VoteHeld(s, v) /\ VoteHeld(d, v)
    PROVE  VoteInv'
<1> DEFINE W == {}
<1>1. votes' = votes \cup W /\ \A w \in W : FALSE
  OBVIOUS
<1> HIDE DEF W
<1> QED
  BY <1>1, LocalStep

\* The same for a failed append.
LEMMA FailedStep ==
    ASSUME VoteInv, TypeOK', NEW a \in Honest, NEW s \in States, NEW d \in States,
           st' = [st EXCEPT ![a] = s], AppendFails(a, d), votes' = votes,
           evotes' = evotes, StateOK(s), StateOK(d),
           \A v \in votes : v.auth = a => VoteHeld(s, v) /\ VoteHeld(d, v)
    PROVE  VoteInv'
<1>1. /\ disk' = [disk EXCEPT ![a] = disk[a]] \/ disk' = [disk EXCEPT ![a] = d]
      /\ poisoned'[a] /\ \A b \in Honest \ {a} : poisoned'[b] = poisoned[b]
  BY DEF AppendFails, VoteInv, TypeOK
<1>2. disk[a] \in States /\ StateOK(disk[a])
  BY DEF VoteInv, TypeOK
<1>3. \A v \in votes : v.auth = a => VoteHeld(disk[a], v)
  BY DEF VoteInv
<1>4. CASE disk' = [disk EXCEPT ![a] = disk[a]]
  BY <1>1, <1>2, <1>3, <1>4, QuietStep, ZenonT(30)
<1>5. CASE disk' = [disk EXCEPT ![a] = d]
  BY <1>1, <1>5, QuietStep
<1> QED
  BY <1>1, <1>4, <1>5

LEMMA HandleStep ==
    ASSUME VoteInv, TypeOK', NEW a \in Honest, NEW o \in Orders,
           HandleRevote(a, o) \/ HandleVote(a, o) \/ HandleFails(a, o)
             \/ HandleRefused(a, o)
    PROVE  VoteInv'
<1> DEFINE s == Opened(st[a])
           d == disk[a]
<1>1. /\ ~poisoned[a] /\ st[a] \in States /\ d \in States
      /\ StateOK(st[a]) /\ StateOK(d) /\ Matches(st[a], d)
  BY DEF HandleRevote, HandleVote, HandleFails, HandleRefused, VoteInv, TypeOK
<1>2. /\ s \in States /\ StateOK(s) /\ ~install_covered(s)
      /\ s.locked = st[a].locked /\ s.ledger = st[a].ledger
      /\ Generation(s) = Generation(st[a])
  BY <1>1, CompletedOK DEF Opened
<1>3. /\ s.locked = d.locked /\ s.ledger = d.ledger /\ Generation(s) = Generation(d)
      /\ s = Completed(d)
  BY <1>1, <1>2, MatchesAgree DEF Opened
<1>4. Matches(s, d)
  BY <1>3 DEF Matches, Completed
<1>5. \A v \in votes : v.auth = a => VoteHeld(s, v) /\ VoteHeld(d, v)
  BY <1>2, HeldSame DEF VoteInv
<1>6. /\ Generation(s) \in {0, 1}
      /\ s.mode = "Active" => Generation(s) = s.epoch
  BY <1>2 DEF StateOK, Sane, Generation
<1>7. disk = [disk EXCEPT ![a] = d]
  BY DEF VoteInv, TypeOK
<1> DEFINE w == Vote(a, s, o)
<1>8. /\ w.auth = a /\ w.order = o /\ w.epoch = s.epoch /\ w.committee = s.committee
  BY DEF Vote
<1>9. VoteOK(w)
  BY <1>2, <1>8 DEF VoteOK, StateOK, Sane
<1> HIDE DEF s, d, w
<1>10. CASE HandleRefused(a, o)
  <2>1. /\ st' = [st EXCEPT ![a] = s] /\ disk' = [disk EXCEPT ![a] = d]
        /\ UNCHANGED <<poisoned, votes, evotes>>
    BY <1>7, <1>10 DEF HandleRefused, s
  <2> QED
    BY <1>1, <1>2, <1>4, <1>5, <2>1, QuietStep
<1>11. CASE HandleRevote(a, o)
  <2>1. /\ st' = [st EXCEPT ![a] = s] /\ disk' = [disk EXCEPT ![a] = d]
        /\ UNCHANGED <<poisoned, evotes>> /\ votes' = votes \cup {w}
        /\ s.mode = "Active" /\ o \in s.locked
    BY <1>7, <1>11 DEF HandleRevote, Revotable, s, w
  <2>2. VoteHeld(s, w)
    BY <1>2, <1>6, <1>8, <2>1 DEF VoteHeld, Kept, StateOK, OneLockPerSlot
  <2>3. VoteHeld(d, w)
    BY <1>3, <2>2, HeldSame
  <2>4. \A v \in votes : /\ v.auth = a /\ v.epoch = w.epoch
                         /\ slot(v.order) = slot(w.order)
                         => v.order = w.order
    BY <1>5, <1>6, <1>8, <2>1 DEF VoteHeld
  <2> DEFINE W == {w}
  <2>5. votes' = votes \cup W /\ \A x \in W : x = w
    BY <2>1
  <2>6. \A x \in W : /\ x.auth = a /\ VoteOK(x) /\ VoteHeld(s, x) /\ VoteHeld(d, x)
                     /\ \A y \in W : y = x
                     /\ \A v \in votes : /\ v.auth = a /\ v.epoch = x.epoch
                                         /\ slot(v.order) = slot(x.order)
                                         => v.order = x.order
    BY <1>8, <1>9, <2>2, <2>3, <2>4
  <2> HIDE DEF W
  <2> QED
    BY <1>1, <1>2, <1>4, <1>5, <2>1, <2>5, <2>6, LocalStep, ZenonT(30)
<1> DEFINE t == [s EXCEPT !.locked = @ \cup {o}]
           r == ReplayLocked(d, o)
<1>12. ASSUME Votable(s, o)
       PROVE  /\ t \in States /\ r \in States /\ StateOK(t) /\ StateOK(r)
              /\ t.locked = s.locked \cup {o} /\ t.ledger = s.ledger
              /\ r.locked = s.locked \cup {o} /\ r.ledger = s.ledger
              /\ Generation(t) = Generation(s) /\ Generation(r) = Generation(s)
              /\ Matches(t, r)
  <2>1. /\ \A l \in s.locked : slot(l) # slot(o)
        /\ preflight(s.ledger, o)
    BY <1>12 DEF Votable
  <2>2. {l \in d.locked : slot(l) # slot(o)} = s.locked
    BY <1>3, <2>1
  <2>3. t \in States /\ r \in States
    BY <1>1, <1>2, LockedType
  <2>4. /\ t.locked = s.locked \cup {o} /\ t.ledger = s.ledger /\ t.mode = s.mode
        /\ t.epoch = s.epoch /\ t.committee = s.committee /\ t.change = s.change
        /\ t.last_cert = s.last_cert
    BY <1>2 DEF States
  <2>5. /\ r = [d EXCEPT !.locked = s.locked \cup {o}]
        /\ r.locked = s.locked \cup {o} /\ r.ledger = d.ledger /\ r.mode = d.mode
        /\ r.epoch = d.epoch /\ r.committee = d.committee /\ r.change = d.change
        /\ r.last_cert = d.last_cert
    BY <1>1, <2>2 DEF States, ReplayLocked
  <2>6. OneLockPerSlot(t) /\ OneLockPerSlot(r)
    BY <1>2, <2>1, <2>4, <2>5 DEF StateOK, OneLockPerSlot
  <2>7. StateOK(t) /\ StateOK(r) /\ Generation(t) = Generation(s)
          /\ Generation(r) = Generation(d)
    BY <1>1, <1>2, <2>4, <2>5, <2>6 DEF StateOK, Sane, Generation
  <2>8. Matches(t, r)
    <3>1. CASE s = d
      BY <2>5, <3>1 DEF Matches
    <3>2. CASE install_covered(d) /\ s = complete_install(d)
      <4>1. install_covered(r)
        BY <3>2, <2>5 DEF install_covered
      <4>2. t = complete_install(r)
        BY <1>1, <2>5, <3>2 DEF complete_install, States
      <4> QED
        BY <4>1, <4>2 DEF Matches
    <3> QED
      BY <1>4, <3>1, <3>2 DEF Matches
  <2> QED
    BY <1>3, <2>3, <2>4, <2>5, <2>7, <2>8
<1> HIDE DEF t, r
<1>13. ASSUME Votable(s, o)
       PROVE  \A v \in votes : v.auth = a => VoteHeld(t, v) /\ VoteHeld(r, v)
  <2> SUFFICES ASSUME NEW v \in votes, v.auth = a
               PROVE  VoteHeld(t, v) /\ VoteHeld(r, v)
    OBVIOUS
  <2>1. v \in VoteType /\ VoteHeld(s, v) /\ Generation(s) \in Nat
    BY <1>5, <1>6 DEF VoteInv, TypeOK
  <2>2. /\ \A l \in s.locked : slot(l) # slot(o)
        /\ preflight(s.ledger, o)
    BY <1>13 DEF Votable
  <2> QED
    BY <1>2, <1>12, <1>13, <2>1, <2>2, LockHeld
<1>14. CASE HandleFails(a, o)
  <2>1. /\ st' = [st EXCEPT ![a] = s] /\ AppendFails(a, r) /\ votes' = votes
        /\ evotes' = evotes /\ Votable(s, o)
    BY <1>14 DEF HandleFails, s, r, d
  <2>2. \A v \in votes : v.auth = a => VoteHeld(s, v) /\ VoteHeld(r, v)
    BY <1>5, <1>13, <2>1
  <2> QED
    BY <1>2, <1>12, <2>1, <2>2, FailedStep
<1>15. CASE HandleVote(a, o)
  <2>1. /\ st' = [st EXCEPT ![a] = t] /\ disk' = [disk EXCEPT ![a] = r]
        /\ UNCHANGED <<poisoned, evotes>> /\ votes' = votes \cup {w} /\ Votable(s, o)
    BY <1>15 DEF HandleVote, Append, s, r, d, w, t
  <2>2. s.mode = "Active" /\ \A l \in s.locked : slot(l) # slot(o)
    BY <2>1 DEF Votable
  <2>3. VoteHeld(t, w) /\ VoteHeld(r, w)
    BY <1>6, <1>8, <1>12, <2>1, <2>2 DEF VoteHeld, Kept
  <2>4. \A v \in votes : /\ v.auth = a /\ v.epoch = w.epoch
                         /\ slot(v.order) = slot(w.order)
                         => v.order = w.order
    BY <1>6, <1>8, <1>12, <1>13, <2>1, <2>2 DEF VoteHeld
  <2> DEFINE W == {w}
  <2>5. votes' = votes \cup W /\ \A x \in W : x = w
    BY <2>1
  <2>6. \A x \in W : /\ x.auth = a /\ VoteOK(x) /\ VoteHeld(t, x) /\ VoteHeld(r, x)
                     /\ \A y \in W : y = x
                     /\ \A v \in votes : /\ v.auth = a /\ v.epoch = x.epoch
                                         /\ slot(v.order) = slot(x.order)
                                         => v.order = x.order
    BY <1>8, <1>9, <2>3, <2>4
  <2> HIDE DEF W
  <2> QED
    BY <1>12, <1>13, <2>1, <2>5, <2>6, LocalStep
<1> QED
  BY <1>10, <1>11, <1>14, <1>15

LEMMA ConfirmStep ==
    ASSUME VoteInv, TypeOK', NEW a \in Honest, NEW o \in Orders,
           ConfirmApplied(a, o) \/ ConfirmFails(a, o)
    PROVE  VoteInv'
<1> DEFINE s == st[a]
           d == disk[a]
           n == Applied(s, o)
           r == ReplayConfirmed(d, o)
           m == [s EXCEPT !.ledger = apply(@, o)]
<1>1. /\ ~poisoned[a] /\ s \in States /\ d \in States
      /\ StateOK(s) /\ StateOK(d) /\ Matches(s, d) /\ preflight(s.ledger, o)
      /\ \A c \in s.confirmed : spent(c) # spent(o)
  BY DEF ConfirmApplied, ConfirmFails, Confirmable, VoteInv, TypeOK
<1>2. /\ s.locked = d.locked /\ s.ledger = d.ledger /\ s.confirmed = d.confirmed
      /\ Generation(s) = Generation(d)
  BY <1>1, MatchesAgree
<1>3. n \in States /\ r \in States /\ m \in States
  BY <1>1, ConfirmedType
<1>4. r = [d EXCEPT !.ledger = apply(s.ledger, o), !.confirmed = s.confirmed \cup {o},
                    !.locked = PurgeRounds(s.locked, o)]
  <2>1. {c \in d.confirmed : spent(c) # spent(o)} = s.confirmed
    BY <1>1, <1>2
  <2> QED
    BY <1>1, <1>2, <2>1 DEF ReplayConfirmed
<1>5. n = [s EXCEPT !.ledger = apply(s.ledger, o), !.confirmed = s.confirmed \cup {o},
                    !.locked = PurgeRounds(s.locked, o)]
  BY DEF Applied
<1>6. /\ n.locked = PurgeRounds(s.locked, o) /\ n.ledger = apply(s.ledger, o)
      /\ r.locked = PurgeRounds(d.locked, o) /\ r.ledger = apply(d.ledger, o)
      /\ m.locked = s.locked /\ m.ledger = apply(s.ledger, o)
      /\ Generation(n) = Generation(s) /\ Generation(r) = Generation(d)
      /\ Generation(m) = Generation(s)
  BY <1>1, <1>2, <1>4, <1>5 DEF Generation, States
<1>7. StateOK(n) /\ StateOK(r) /\ StateOK(m)
  BY <1>1, <1>4, <1>5, <1>6 DEF StateOK, Sane, OneLockPerSlot, PurgeRounds, States
<1>8. Matches(Completed(n), r)
  <2>1. CASE s = d
    BY <1>4, <1>5, <2>1 DEF Matches, Completed
  <2>2. CASE install_covered(d) /\ s = complete_install(d)
    <3>1. o \in OrderType /\ s.ledger \in Ledgers
      BY <1>1, AuthorityAssumption DEF States
    <3>2. /\ r.mode = "Installing" /\ r.change = d.change
          /\ DOMAIN d.change.frontier \subseteq Accounts
          /\ \A id \in DOMAIN d.change.frontier : d.change.frontier[id] \in Nat
      <4>1. d.change.frontier \in Frontiers
        BY <1>1 DEF States, Changes
      <4> QED
        BY <1>1, <1>4, <2>2, <4>1, LedgerBounds DEF install_covered, Frontiers, States
    <3>3. \A id \in Accounts : /\ next_seq(r.ledger, id) >= next_seq(d.ledger, id)
                               /\ next_seq(r.ledger, id) \in Nat
                               /\ next_seq(d.ledger, id) \in Nat
      <4>1. r.ledger \in Ledgers /\ d.ledger \in Ledgers
        BY <1>1, <1>3 DEF States
      <4> QED
        BY <1>1, <1>2, <1>6, <3>1, <4>1, ApplySeq, LedgerMembership, LedgerBounds
           DEF next_seq, Account
    <3>4. install_covered(r)
      BY <2>2, <3>2, <3>3 DEF install_covered
    <3>5. n = complete_install(r)
      <4> DEFINE q == complete_install(r)
      <4>1. q \in States
        BY <1>3, <3>4, CompletedType DEF Completed
      <4>2. /\ s.mode = "Active" /\ s.change = NoChange /\ s.committee = d.change.next
            /\ s.epoch = d.change.epoch /\ s.last_cert = d.last_cert
        BY <1>1, <2>2 DEF complete_install, States
      <4>3. /\ n.ledger = apply(s.ledger, o) /\ n.confirmed = s.confirmed \cup {o}
            /\ n.locked = PurgeRounds(s.locked, o) /\ n.mode = s.mode
            /\ n.change = s.change /\ n.committee = s.committee
            /\ n.epoch = s.epoch /\ n.last_cert = s.last_cert
        BY <1>1, <1>5 DEF States
      <4>4. /\ r.ledger = apply(s.ledger, o) /\ r.confirmed = s.confirmed \cup {o}
            /\ r.locked = PurgeRounds(s.locked, o) /\ r.change = d.change
            /\ r.last_cert = d.last_cert
        BY <1>1, <1>4 DEF States
      <4> HIDE DEF r, n
      <4>5. /\ q.ledger = r.ledger /\ q.confirmed = r.confirmed /\ q.locked = r.locked
            /\ q.mode = "Active" /\ q.change = NoChange /\ q.last_cert = r.last_cert
            /\ q.committee = r.change.next /\ q.epoch = r.change.epoch
        BY <1>3 DEF complete_install, States
      <4> HIDE DEF q
      <4>6. n = q
        <5>1. /\ n.ledger = q.ledger /\ n.locked = q.locked
              /\ n.confirmed = q.confirmed /\ n.epoch = q.epoch
              /\ n.committee = q.committee /\ n.mode = q.mode
              /\ n.change = q.change /\ n.last_cert = q.last_cert
          BY <4>2, <4>3, <4>4, <4>5
        <5> QED
          BY <1>3, <4>1, <5>1, StateExtensional
      <4> QED
        BY <4>6 DEF q
    <3>6. ~install_covered(n)
      BY <3>4, <3>5, <1>3, <1>7, CompletedOK DEF Completed
    <3> QED
      BY <3>4, <3>5, <3>6 DEF Matches, Completed
  <2> QED
    BY <1>1, <2>1, <2>2 DEF Matches
<1>9. /\ Completed(n) \in States /\ StateOK(Completed(n))
      /\ Completed(n).locked = n.locked /\ Completed(n).ledger = n.ledger
      /\ Generation(Completed(n)) = Generation(n)
  BY <1>3, <1>7, CompletedOK
<1>10. ASSUME NEW v \in votes, v.auth = a
       PROVE  /\ VoteHeld(Completed(n), v) /\ VoteHeld(r, v) /\ VoteHeld(m, v)
  <2>1. v \in VoteType /\ VoteHeld(s, v) /\ VoteHeld(d, v)
    BY <1>10 DEF VoteInv, TypeOK
  <2> HIDE DEF n, r, m
  <2>2. VoteHeld(r, v)
    BY <1>1, <1>2, <1>3, <1>6, <2>1, ConfirmHeld
  <2>3. VoteHeld(Completed(n), v)
    BY <1>1, <1>3, <1>6, <1>9, <2>1, ConfirmHeld
  <2>4. VoteHeld(m, v)
    <3>1. VoteHeld(n, v)
      BY <1>1, <1>3, <1>6, <2>1, ConfirmHeld
    <3>2. Kept(m, v)
      BY <1>6, <3>1 DEF VoteHeld, Kept, PurgeRounds
    <3> QED
      BY <1>6, <2>1, <3>2 DEF VoteHeld
  <2> QED
    BY <2>2, <2>3, <2>4
<1> HIDE DEF n, r, m
<1>11. CASE ConfirmApplied(a, o)
  <2>1. /\ st' = [st EXCEPT ![a] = Completed(n)] /\ disk' = [disk EXCEPT ![a] = r]
        /\ UNCHANGED <<poisoned, votes, evotes>>
    BY <1>11 DEF ConfirmApplied, Append, n, r
  <2> QED
    BY <1>3, <1>7, <1>8, <1>9, <1>10, <2>1, QuietStep
<1>12. CASE ConfirmFails(a, o)
  <2>1. /\ st' = [st EXCEPT ![a] = m] /\ AppendFails(a, r)
        /\ UNCHANGED <<votes, evotes>>
    BY <1>12 DEF ConfirmFails, r, m, VoteInv, TypeOK
  <2> QED
    BY <1>3, <1>7, <1>10, <2>1, FailedStep
<1> QED
  BY <1>11, <1>12

\* A fence is only taken in generation 0, where memory and disk coincide.
LEMMA FenceStep ==
    ASSUME VoteInv, TypeOK', SingleChange, NEW a \in Honest, NEW p \in Proposals,
           Fence(a, p) \/ FenceFails(a, p)
    PROVE  VoteInv'
<1> DEFINE s == st[a]
           d == disk[a]
           n == [s EXCEPT !.mode = "Fencing", !.change = Fenced(p)]
           r == ReplayEpochFence(d, p)
<1>1. /\ ~poisoned[a] /\ s \in States /\ d \in States
      /\ StateOK(s) /\ StateOK(d) /\ Matches(s, d)
      /\ s.mode = "Active" /\ p.epoch = s.epoch + 1
  BY DEF Fence, FenceFails, Fenceable, VoteInv, TypeOK
<1>2. p.epoch = 1 /\ s.epoch = 0 /\ p.next # C0
  BY <1>1 DEF SingleChange, StateOK, Sane
<1>3. s = d
  BY <1>1, <1>2 DEF Matches, complete_install, install_covered, StateOK, Sane, States
<1>4. n \in States /\ r = n /\ Fenced(p).epoch = 1 /\ Fenced(p).next # C0
  BY <1>1, <1>2, <1>3, FencedType DEF ReplayEpochFence, States, Fenced
<1>5. /\ n.locked = s.locked /\ n.ledger = s.ledger /\ Generation(n) = Generation(s)
      /\ StateOK(n)
  BY <1>1, <1>2, <1>4 DEF States, Generation, StateOK, Sane, OneLockPerSlot
<1> HIDE DEF n, r
<1>6. \A v \in votes : v.auth = a => VoteHeld(s, v) /\ VoteHeld(n, v)
  BY <1>5, HeldSame DEF VoteInv
<1>7. CASE Fence(a, p)
  <2>1. /\ st' = [st EXCEPT ![a] = n] /\ disk' = [disk EXCEPT ![a] = r]
        /\ UNCHANGED <<poisoned, votes, evotes>>
    BY <1>7 DEF Fence, Append, n, r, VoteInv, TypeOK
  <2>2. Matches(n, r)
    BY <1>4 DEF Matches
  <2> QED
    BY <1>4, <1>5, <1>6, <2>1, <2>2, QuietStep
<1>8. CASE FenceFails(a, p)
  <2>1. /\ st' = [st EXCEPT ![a] = s] /\ AppendFails(a, n)
        /\ UNCHANGED <<votes, evotes>>
    BY <1>4, <1>8 DEF FenceFails, r, VoteInv, TypeOK
  <2> QED
    BY <1>1, <1>4, <1>5, <1>6, <2>1, FailedStep
<1> QED
  BY <1>7, <1>8

\* So is an install, and it ends the generation of every vote cast so far.
LEMMA InstallStep ==
    ASSUME VoteInv, TypeOK', NEW a \in Honest, NEW c \in EpochCerts,
           InstallEpochCert(a, c) \/ InstallFails(a, c) \/ InstallConflict(a, c)
    PROVE  VoteInv'
<1> DEFINE s == st[a]
           d == disk[a]
           i == Installed(s, c)
           n == Completed(i)
<1>1. /\ ~poisoned[a] /\ s \in States /\ d \in States
      /\ StateOK(s) /\ StateOK(d) /\ Matches(s, d) /\ c.epoch = s.epoch + 1
  BY DEF InstallEpochCert, InstallFails, InstallConflict, ValidCert, VoteInv, TypeOK
<1>2. c \in Changes /\ c.epoch = 1 /\ c.next # C0 /\ Proposals # {}
  <2>1. c \in Changes
    BY CertType DEF VoteInv
  <2> QED
    BY <2>1 DEF VoteInv, EpochCerts
<1>3. s.epoch = 0
  BY <1>1, <1>2 DEF StateOK, Sane
<1>4. s = d
  BY <1>1, <1>3 DEF Matches, complete_install, install_covered, StateOK, Sane, States
<1>5. /\ i \in States /\ i.locked = {} /\ Generation(i) = 1 /\ StateOK(i)
  BY <1>1, <1>2, <1>3
     DEF Installed, States, Generation, StateOK, Sane, OneLockPerSlot
<1>6. /\ n \in States /\ n.locked = {} /\ Generation(n) = 1 /\ StateOK(n)
  BY <1>5, CompletedOK
<1>7. ReplayEpochInstalled(d, c) = n
  BY <1>4 DEF ReplayEpochInstalled
<1> HIDE DEF n, i
<1>8. ASSUME s.mode # "Installing"
      PROVE  \A v \in votes : v.auth = a => VoteHeld(s, v) /\ VoteHeld(n, v)
  <2>1. Generation(s) = 0
    BY <1>3, <1>8 DEF Generation
  <2>2. \A v \in votes : v.auth = a => VoteHeld(s, v) /\ v.epoch = 0
    BY <2>1 DEF VoteInv, VoteHeld, VoteOK
  <2> QED
    BY <1>6, <2>2 DEF VoteHeld, Kept
<1>9. CASE InstallEpochCert(a, c)
  <2>1. /\ st' = [st EXCEPT ![a] = n] /\ disk' = [disk EXCEPT ![a] = n]
        /\ UNCHANGED <<poisoned, votes, evotes>> /\ s.mode # "Installing"
    BY <1>7, <1>9 DEF InstallEpochCert, Append, n, i
  <2>2. Matches(n, n)
    BY DEF Matches
  <2> QED
    BY <1>6, <1>8, <2>1, <2>2, QuietStep
<1>10. CASE InstallFails(a, c)
  <2>1. /\ st' = [st EXCEPT ![a] = s] /\ AppendFails(a, n)
        /\ UNCHANGED <<votes, evotes>> /\ s.mode # "Installing"
    BY <1>7, <1>10 DEF InstallFails, VoteInv, TypeOK
  <2> QED
    BY <1>1, <1>6, <1>8, <2>1, FailedStep
<1>11. CASE InstallConflict(a, c)
  <2>1. /\ st' = [st EXCEPT ![a] = s] /\ disk' = [disk EXCEPT ![a] = d]
        /\ poisoned' = [poisoned EXCEPT ![a] = TRUE] /\ UNCHANGED <<votes, evotes>>
    BY <1>11 DEF InstallConflict, VoteInv, TypeOK
  <2>2. /\ \A b \in Honest \ {a} : poisoned'[b] = poisoned[b]
        /\ poisoned'[a]
    BY <2>1 DEF VoteInv, TypeOK
  <2>3. \A v \in votes : v.auth = a => VoteHeld(s, v) /\ VoteHeld(d, v)
    BY DEF VoteInv
  <2> QED
    BY <1>1, <2>1, <2>2, <2>3, QuietStep
<1> QED
  BY <1>9, <1>10, <1>11

\* Compaction writes the running state: without epoch changes nothing is lost.
LEMMA CompactStep ==
    ASSUME VoteInv, TypeOK', Proposals = {}, NEW a \in Honest, CompactJournal(a)
    PROVE  VoteInv'
<1> DEFINE s == st[a]
<1>1. s \in States /\ StateOK(s)
  BY DEF VoteInv, TypeOK
<1>2. ReplaySnapshot(s) = s
  <2>1. /\ s.mode = "Active" /\ s.change = NoChange /\ s.last_cert = NoChange
        /\ s.committee = C0 /\ s.epoch = 0
    BY <1>1 DEF StateOK, Sane
  <2> DEFINE r == ReplaySnapshot(s)
  <2>2. r \in States
    BY <1>1, EpochRecordTypes
  <2>3. /\ r.ledger = s.ledger /\ r.locked = s.locked /\ r.confirmed = s.confirmed
        /\ r.epoch = s.epoch /\ r.committee = C0 /\ r.mode = "Active"
        /\ r.change = NoChange /\ r.last_cert = NoChange
    BY DEF ReplaySnapshot, InitState
  <2> HIDE DEF r
  <2>4. r = s
    BY <1>1, <2>1, <2>2, <2>3, StateExtensional
  <2> QED
    BY <2>4 DEF r
<1>3. Matches(s, s) /\ \A v \in votes : v.auth = a => VoteHeld(s, v) /\ VoteHeld(s, v)
  BY DEF VoteInv, Matches
<1>4. /\ st' = [st EXCEPT ![a] = s] /\ UNCHANGED <<votes, evotes>>
      /\ Append(a, s) \/ AppendFails(a, s)
  BY <1>2 DEF CompactJournal, VoteInv, TypeOK
<1>5. CASE Append(a, s)
  <2>1. disk' = [disk EXCEPT ![a] = s] /\ UNCHANGED poisoned
    BY <1>5 DEF Append
  <2> QED
    BY <1>1, <1>3, <1>4, <2>1, QuietStep
<1>6. CASE AppendFails(a, s)
  BY <1>1, <1>3, <1>4, <1>6, FailedStep
<1> QED
  BY <1>4, <1>5, <1>6

LEMMA RestartStep ==
    ASSUME VoteInv, TypeOK', NEW a \in Honest, Restart(a)
    PROVE  VoteInv'
<1> DEFINE d == disk[a]
<1>1. d \in States /\ StateOK(d) /\ Matches(d, d)
  BY DEF VoteInv, TypeOK, Matches
<1>2. \A v \in votes : v.auth = a => VoteHeld(d, v) /\ VoteHeld(d, v)
  BY DEF VoteInv
<1>3. /\ st' = [st EXCEPT ![a] = d] /\ disk' = [disk EXCEPT ![a] = d]
      /\ \A b \in Honest \ {a} : poisoned'[b] = poisoned[b]
      /\ UNCHANGED <<votes, evotes>>
  BY DEF Restart, VoteInv, TypeOK
<1> QED
  BY <1>1, <1>2, <1>3, QuietStep

LEMMA VoteInvStep ==
    ASSUME SingleChange
    PROVE  VoteInv /\ [Next]_vars => VoteInv'
<1> SUFFICES ASSUME VoteInv, [Next]_vars PROVE VoteInv'
  OBVIOUS
<1>0. TypeOK'
  BY TypeStep DEF VoteInv
<1>1. CASE UNCHANGED vars
  BY <1>0, <1>1 DEF vars, VoteInv, NoEquivocation
<1>2. ASSUME NEW a \in Honest, NEW o \in Orders, Attest(a, o)
      PROVE  VoteInv'
  BY <1>0, <1>2 DEF Attest, VoteInv, NoEquivocation
<1>3. ASSUME NEW a \in Honest, SignEpochVote(a)
      PROVE  VoteInv'
  <2>1. st[a].mode = "Fencing" /\ Sane(st[a])
    BY <1>3 DEF SignEpochVote, VoteInv, StateOK
  <2>2. \A v \in evotes' : v.epoch = 1 /\ v.next # C0
    BY <1>3, <2>1 DEF SignEpochVote, EpochVote, VoteInv, Sane
  <2>3. Proposals # {}
    BY <2>1 DEF Sane
  <2> QED
    BY <1>0, <1>3, <2>2, <2>3 DEF SignEpochVote, VoteInv, NoEquivocation
<1>4. ASSUME NEW a \in Honest, a \in Compacting, CompactJournal(a)
      PROVE  VoteInv'
  <2>1. Proposals = {}
    BY <1>4 DEF SingleChange
  <2> QED
    BY <1>0, <1>4, <2>1, CompactStep
<1> QED
  BY <1>0, <1>1, <1>2, <1>3, <1>4, HandleStep, ConfirmStep, FenceStep, InstallStep,
     RestartStep DEF Next

(***************************************************************************)
(* Theorems                                                                *)
(***************************************************************************)

\* No honest authority signs two orders for one slot under one committee, for
\* any interleaving of votes, confirmations, failed writes, crashes, restarts,
\* compactions of a static deployment and one change of committee.
THEOREM VoteSafety ==
    ASSUME SingleChange
    PROVE  Spec => []NoEquivocation
<1>1. VoteInv => NoEquivocation
  BY DEF VoteInv
<1> QED
  BY <1>1, VoteInvInit, VoteInvStep, PTL DEF Spec

\* Under the same restriction a restart loses nothing and never refuses its own
\* journal: recover() folds exactly the state of the running authority.
THEOREM Recovery ==
    ASSUME SingleChange
    PROVE  Spec => []RecoveryExact
<1>1. ASSUME VoteInv PROVE RecoveryExact
  <2> SUFFICES ASSUME NEW a \in Honest
               PROVE  /\ disk[a].mode # "Corrupt"
                      /\ ~poisoned[a] => Completed(disk[a]) = Completed(st[a])
    BY DEF RecoveryExact
  <2>1. st[a] \in States /\ disk[a] \in States /\ StateOK(disk[a])
    BY <1>1 DEF VoteInv, TypeOK
  <2> QED
    BY <1>1, <2>1, MatchesAgree DEF VoteInv, StateOK, Sane
<1> QED
  BY <1>1, VoteInvInit, VoteInvStep, PTL DEF Spec

\* Vote safety and quorum intersection: within the Byzantine budget no two
\* orders of one slot are ever both certifiable under one committee.
THEOREM CertificateUniqueness ==
    ASSUME SingleChange, \A C \in Rosters : Tolerable(C)
    PROVE  Spec => []SlotCertUnique
<1>1. ASSUME VoteInv, EffectInv PROVE SlotCertUnique
  <2> SUFFICES ASSUME NEW u \in votes, NEW o1 \in Orders, NEW o2 \in Orders,
                      slot(o1) = slot(o2),
                      Certified(u.committee, o1), Certified(u.committee, o2)
               PROVE  o1 = o2
    BY DEF SlotCertUnique
  <2> DEFINE C == u.committee
  <2>1. C \in Rosters
    BY <1>1 DEF EffectInv
  <2>2. C \subseteq Authorities /\ C # {}
    BY <2>1, AuthorityAssumption DEF Rosters
  <2>3. IsFiniteSet(C) /\ Tolerable(C)
    BY <2>1, <2>2, AuthorityAssumption, FS_Subset
  <2>4. Voters(C, o1) \in SUBSET C /\ Voters(C, o2) \in SUBSET C
    BY DEF Voters
  <2>5. /\ Cardinality(Voters(C, o1)) >= quorum(Cardinality(C))
        /\ Cardinality(Voters(C, o2)) >= quorum(Cardinality(C))
    BY DEF Certified
  <2>6. PICK m \in Voters(C, o1) \cap Voters(C, o2) : m \notin Faulty
    <3> HIDE DEF Voters, C
    <3> QED BY <2>2, <2>3, <2>4, <2>5, QuorumIntersection
  <2>7. PICK v \in votes : v.auth = m /\ v.committee = C /\ v.order = o1
    BY <2>6 DEF Voters
  <2>8. PICK w \in votes : w.auth = m /\ w.committee = C /\ w.order = o2
    BY <2>6 DEF Voters
  <2> QED
    BY <1>1, <2>7, <2>8 DEF VoteInv, NoEquivocation
<1> QED
  BY <1>1, VoteInvInit, VoteInvStep, EffectInit, EffectStep, PTL DEF Spec

(*****************************************************************************)
(* What an epoch change may rely on: no authority operates a generation      *)
(* whose certificate its ledger does not cover (for any number of changes    *)
(* and with compaction anywhere), and the fence binds the one that signed    *)
(* it (for deployments that change their committee at most once).            *)
(*****************************************************************************)
(***************************************************************************)
(* Coverage                                                                *)
(***************************************************************************)
CertOf(v) == [epoch |-> v.epoch, next |-> v.next, frontier |-> v.frontier]

\* EpochVoters and EpochCertified over a given set of epoch votes.
EVoters(E, C, c) ==
    {m \in C : m \in Faulty \/ \E v \in E :
        v.auth = m /\ v.committee = C /\ v.epoch = c.epoch /\ v.next = c.next
        /\ v.frontier = c.frontier}

Covers(l, f) == \A id \in DOMAIN f : next_seq(l, id) >= f[id]

\* c is certified by the committee of one of its honest voters, a known roster.
Backed(E, v) ==
    /\ v \in E /\ v.committee \in Rosters
    /\ Cardinality(EVoters(E, v.committee, CertOf(v)))
         >= quorum(Cardinality(v.committee))

\* The generation s operates is backed by a certificate its ledger covers, and
\* the one it installs by a certificate that it may not cover yet.
EpochOK(E, s) ==
    /\ s.epoch > 0 => \E v \in E : /\ v.epoch = s.epoch /\ Backed(E, v)
                                   /\ Covers(s.ledger, v.frontier)
    /\ s.mode = "Installing" => \E v \in E : CertOf(v) = s.change /\ Backed(E, v)

EpochInv ==
    /\ EffectInv
    /\ \A a \in Honest : EpochOK(evotes, st[a]) /\ EpochOK(evotes, disk[a])

\* A certificate is never withdrawn: further votes only add to it.
LEMMA BackedGrows ==
    ASSUME NEW E, NEW F, E \subseteq F, NEW v, Backed(E, v)
    PROVE  Backed(F, v)
<1> DEFINE C == v.committee
           P == EVoters(E, C, CertOf(v))
           Q == EVoters(F, C, CertOf(v))
<1>1. C \subseteq Authorities
  BY AuthorityAssumption DEF Backed, Rosters
<1>2. IsFiniteSet(C) /\ P \in SUBSET C /\ Q \in SUBSET C /\ P \subseteq Q
  BY <1>1, AuthorityAssumption, FS_Subset DEF EVoters
<1>3. IsFiniteSet(P) /\ IsFiniteSet(Q)
  <2> HIDE DEF P, Q
  <2> QED BY <1>2, FS_Subset
<1>4. /\ Cardinality(P) \in Nat /\ Cardinality(Q) \in Nat /\ Cardinality(C) \in Nat
      /\ Cardinality(P) <= Cardinality(Q)
  <2> HIDE DEF P, Q, C
  <2> QED BY <1>2, <1>3, FS_Subset, FS_CardinalityType
<1>5. quorum(Cardinality(C)) \in Int
  BY <1>4 DEF quorum
<1>6. Cardinality(P) >= quorum(Cardinality(C))
  BY DEF Backed
<1>7. Cardinality(Q) >= quorum(Cardinality(C))
  <2> HIDE DEF P, Q, C
  <2> QED BY <1>4, <1>5, <1>6
<1> QED
  BY <1>7 DEF Backed

LEMMA EpochOKGrows ==
    ASSUME NEW E, NEW F, E \subseteq F, NEW s, EpochOK(E, s)
    PROVE  EpochOK(F, s)
  BY BackedGrows DEF EpochOK

\* Completing an install turns its certificate into that of the generation.
LEMMA EpochOKCompleted ==
    ASSUME NEW E, NEW s \in States, EpochOK(E, s)
    PROVE  EpochOK(E, Completed(s))
<1>1. CASE install_covered(s)
  <2> DEFINE n == complete_install(s)
  <2>1. /\ Completed(s) = n /\ n.mode = "Active" /\ n.ledger = s.ledger
        /\ n.epoch = s.change.epoch
    BY <1>1 DEF Completed, complete_install, States
  <2> HIDE DEF n
  <2>2. PICK v \in E : CertOf(v) = s.change /\ Backed(E, v)
    BY <1>1 DEF EpochOK, install_covered
  <2>3. v.epoch = s.change.epoch /\ v.frontier = s.change.frontier
    BY <2>2 DEF CertOf
  <2>4. Covers(s.ledger, v.frontier)
    BY <1>1, <2>3 DEF install_covered, Covers
  <2> QED
    BY <2>1, <2>2, <2>3, <2>4 DEF EpochOK
<1>2. CASE ~install_covered(s)
  BY <1>2 DEF Completed
<1> QED
  BY <1>1, <1>2

\* Same generation, same install or none, and no sequence number lower.
LEMMA EpochOKKept ==
    ASSUME NEW E, NEW s, NEW t, EpochOK(E, s), t.epoch = s.epoch,
           t.mode = "Installing" => s.mode = "Installing" /\ t.change = s.change,
           \A v \in E : Covers(s.ledger, v.frontier) => Covers(t.ledger, v.frontier)
    PROVE  EpochOK(E, t)
  BY DEF EpochOK

LEMMA CoversApplied ==
    ASSUME NEW E \in SUBSET EpochVoteType, NEW l \in Ledgers, NEW o \in Orders,
           preflight(l, o), NEW v \in E, Covers(l, v.frontier)
    PROVE  Covers(apply(l, o), v.frontier)
<1>1. o \in OrderType /\ v.frontier \in Frontiers
  BY AuthorityAssumption DEF EpochVoteType
<1>2. apply(l, o) \in Ledgers
  BY <1>1, ApplyType
<1>3. DOMAIN v.frontier \subseteq Accounts /\ \A id \in DOMAIN v.frontier : v.frontier[id] \in Nat
  BY <1>1, LedgerBounds DEF Frontiers
<1>4. \A id \in Accounts : /\ next_seq(l, id) \in Nat /\ next_seq(apply(l, o), id) \in Nat
                           /\ next_seq(apply(l, o), id) >= next_seq(l, id)
  <2>1. \A id \in Accounts : next_seq(apply(l, o), id) >= next_seq(l, id)
    BY <1>1, ApplySeq
  <2>2. ASSUME NEW k \in Ledgers, NEW id \in Accounts PROVE next_seq(k, id) \in Nat
    BY LedgerMembership, LedgerBounds DEF next_seq, Account
  <2> QED
    BY <1>2, <2>1, <2>2
<1> QED
  BY <1>3, <1>4 DEF Covers

\* A certificate an honest authority accepts has an honest voter, whose record
\* names the committee that certified it.
LEMMA CertBacked ==
    ASSUME EffectInv, \A C \in Rosters : Tolerable(C),
           NEW C \in Rosters, NEW c \in Changes, EpochCertified(C, c)
    PROVE  \E v \in evotes : CertOf(v) = c /\ Backed(evotes, v)
<1> DEFINE P == EpochVoters(C, c)
<1>1. C \subseteq Authorities /\ C # {}
  BY AuthorityAssumption DEF Rosters
<1>2. IsFiniteSet(C) /\ Tolerable(C)
  BY <1>1, AuthorityAssumption, FS_Subset
<1>3. P \in SUBSET C /\ Cardinality(P) >= quorum(Cardinality(C))
  BY DEF EpochVoters, EpochCertified
<1>4. PICK m \in P : m \notin Faulty
  <2> HIDE DEF P
  <2> QED BY <1>1, <1>2, <1>3, QuorumIntersection
<1>5. PICK v \in evotes : /\ v.auth = m /\ v.committee = C
                          /\ v.epoch = c.epoch /\ v.next = c.next
                          /\ v.frontier = c.frontier
  BY <1>4 DEF EpochVoters
<1>6. CertOf(v) = c
  BY <1>5 DEF CertOf, Changes
<1>7. EVoters(evotes, C, c) = P
  BY DEF EVoters, EpochVoters
<1> QED
  BY <1>3, <1>5, <1>6, <1>7 DEF Backed

\* One authority moves, in memory to s and on disk, if at all, to d.
LEMMA EpochMove ==
    ASSUME EpochInv, EffectInv', NEW a \in Honest, NEW s, NEW d,
           st' = [st EXCEPT ![a] = s],
           disk' = disk \/ disk' = [disk EXCEPT ![a] = d],
           evotes' = evotes, EpochOK(evotes, s), EpochOK(evotes, d)
    PROVE  EpochInv'
<1>1. ASSUME NEW b \in Honest
      PROVE  EpochOK(evotes, st'[b]) /\ EpochOK(evotes, disk'[b])
  BY DEF EpochInv, EffectInv, TypeOK
<1> QED
  BY <1>1 DEF EpochInv

LEMMA EpochInvInit == Init => EpochInv
  BY EffectInit DEF Init, EpochInv, InitState, EpochOK

LEMMA EpochInvStep ==
    ASSUME \A C \in Rosters : Tolerable(C)
    PROVE  EpochInv /\ [Next]_vars => EpochInv'
<1> SUFFICES ASSUME EpochInv, [Next]_vars PROVE EpochInv'
  OBVIOUS
<1>0. EffectInv' /\ EffectInv
  BY EffectStep DEF EpochInv
<1>a. ASSUME NEW a \in Honest
      PROVE  /\ st[a] \in States /\ disk[a] \in States
             /\ EpochOK(evotes, st[a]) /\ EpochOK(evotes, disk[a])
             /\ st[a].ledger \in Ledgers /\ disk[a].ledger \in Ledgers
             /\ st = [st EXCEPT ![a] = st[a]]
  BY DEF EpochInv, EffectInv, TypeOK, States
<1>b. evotes \in SUBSET EpochVoteType
  BY <1>0 DEF EffectInv, TypeOK
<1>1. CASE UNCHANGED vars
  BY <1>0, <1>1 DEF vars, EpochInv
<1>2. ASSUME NEW a \in Honest, NEW o \in Orders,
             HandleRevote(a, o) \/ HandleVote(a, o) \/ HandleFails(a, o)
               \/ HandleRefused(a, o)
      PROVE  EpochInv'
  <2> DEFINE s == Opened(st[a])
             t == [s EXCEPT !.locked = @ \cup {o}]
             r == ReplayLocked(disk[a], o)
  <2>1. EpochOK(evotes, s) /\ s \in States
    BY <1>a, EpochOKCompleted, CompletedType DEF Opened
  <2> HIDE DEF s
  <2>2. t.epoch = s.epoch /\ t.mode = s.mode /\ t.change = s.change /\ t.ledger = s.ledger
    BY <2>1 DEF States
  <2>3. /\ r.epoch = disk[a].epoch /\ r.mode = disk[a].mode
        /\ r.change = disk[a].change /\ r.ledger = disk[a].ledger
    BY <1>a DEF ReplayLocked, States
  <2> HIDE DEF t, r
  <2>4. EpochOK(evotes, t) /\ EpochOK(evotes, r)
    BY <1>a, <2>1, <2>2, <2>3, EpochOKKept
  <2>5. /\ st' = [st EXCEPT ![a] = s] \/ st' = [st EXCEPT ![a] = t]
        /\ disk' = disk \/ disk' = [disk EXCEPT ![a] = r]
        /\ evotes' = evotes
    BY <1>2 DEF HandleRevote, HandleVote, HandleFails, HandleRefused, Append,
                AppendFails, s, t, r
  <2> QED
    BY <1>0, <2>1, <2>4, <2>5, EpochMove
<1>3. ASSUME NEW a \in Honest, NEW o \in Orders,
             ConfirmApplied(a, o) \/ ConfirmFails(a, o)
      PROVE  EpochInv'
  <2> DEFINE n == Applied(st[a], o)
             m == [st[a] EXCEPT !.ledger = apply(@, o)]
             r == ReplayConfirmed(disk[a], o)
  <2>1. preflight(st[a].ledger, o)
    BY <1>3 DEF ConfirmApplied, ConfirmFails, Confirmable
  <2>2. /\ n.epoch = st[a].epoch /\ n.mode = st[a].mode /\ n.change = st[a].change
        /\ n.ledger = apply(st[a].ledger, o) /\ n \in States
        /\ m.epoch = st[a].epoch /\ m.mode = st[a].mode /\ m.change = st[a].change
        /\ m.ledger = apply(st[a].ledger, o)
    <3>1. n \in States
      BY <1>a, <2>1, ConfirmedType
    <3> QED
      BY <1>a, <3>1 DEF Applied, States
  <2>3. \/ /\ preflight(disk[a].ledger, o) /\ r.ledger = apply(disk[a].ledger, o)
           /\ r.epoch = disk[a].epoch /\ r.mode = disk[a].mode
           /\ r.change = disk[a].change
        \/ r.ledger = disk[a].ledger /\ r.epoch = disk[a].epoch /\ r.mode = "Corrupt"
    BY <1>a DEF ReplayConfirmed, States
  <2> HIDE DEF n, m, r
  <2>4. EpochOK(evotes, n) /\ EpochOK(evotes, m)
    BY <1>a, <1>b, <2>1, <2>2, CoversApplied, EpochOKKept
  <2>5. EpochOK(evotes, r)
    <3>1. CASE preflight(disk[a].ledger, o) /\ r.ledger = apply(disk[a].ledger, o)
                /\ r.epoch = disk[a].epoch /\ r.mode = disk[a].mode
                /\ r.change = disk[a].change
      BY <1>a, <1>b, <3>1, CoversApplied, EpochOKKept
    <3>2. CASE r.ledger = disk[a].ledger /\ r.epoch = disk[a].epoch /\ r.mode = "Corrupt"
      BY <1>a, <3>2, EpochOKKept
    <3> QED
      BY <2>3, <3>1, <3>2
  <2>6. EpochOK(evotes, Completed(n))
    BY <2>2, <2>4, EpochOKCompleted
  <2>7. /\ st' = [st EXCEPT ![a] = Completed(n)] \/ st' = [st EXCEPT ![a] = m]
        /\ disk' = disk \/ disk' = [disk EXCEPT ![a] = r]
        /\ evotes' = evotes
    BY <1>3 DEF ConfirmApplied, ConfirmFails, Append, AppendFails, n, m, r
  <2> QED
    BY <1>0, <2>4, <2>5, <2>6, <2>7, EpochMove
<1>4. ASSUME NEW a \in Honest, NEW o \in Orders, Attest(a, o)
      PROVE  EpochInv'
  BY <1>0, <1>4 DEF Attest, EpochInv
<1>5. ASSUME NEW a \in Honest, NEW p \in Proposals, Fence(a, p) \/ FenceFails(a, p)
      PROVE  EpochInv'
  <2> DEFINE n == [st[a] EXCEPT !.mode = "Fencing", !.change = Fenced(p)]
             r == ReplayEpochFence(disk[a], p)
  <2>1. /\ n.epoch = st[a].epoch /\ n.mode = "Fencing" /\ n.ledger = st[a].ledger
        /\ r.epoch = disk[a].epoch /\ r.mode = "Fencing" /\ r.ledger = disk[a].ledger
    BY <1>a DEF ReplayEpochFence, States
  <2>2. /\ st' = st \/ st' = [st EXCEPT ![a] = n]
        /\ disk' = disk \/ disk' = [disk EXCEPT ![a] = r]
        /\ evotes' = evotes
    BY <1>5 DEF Fence, FenceFails, Append, AppendFails
  <2> HIDE DEF n, r
  <2>3. EpochOK(evotes, n) /\ EpochOK(evotes, r)
    BY <1>a, <2>1, EpochOKKept
  <2> QED
    BY <1>0, <1>a, <2>2, <2>3, EpochMove
<1>6. ASSUME NEW a \in Honest, SignEpochVote(a)
      PROVE  EpochInv'
  <2>1. evotes \subseteq evotes' /\ UNCHANGED <<st, disk>>
    BY <1>6 DEF SignEpochVote
  <2>2. \A b \in Honest : EpochOK(evotes', st[b]) /\ EpochOK(evotes', disk[b])
    BY <1>a, <2>1, EpochOKGrows
  <2> QED
    BY <1>0, <2>1, <2>2 DEF EpochInv
<1>7. ASSUME NEW a \in Honest, NEW c \in EpochCerts,
             InstallEpochCert(a, c) \/ InstallFails(a, c) \/ InstallConflict(a, c)
      PROVE  EpochInv'
  <2>1. c \in Changes /\ st[a].committee \in Rosters /\ EpochCertified(st[a].committee, c)
    BY <1>0, <1>7, CertType DEF InstallEpochCert, InstallFails, InstallConflict,
       ValidCert, EffectInv, RosterOK
  <2>2. \E v \in evotes : CertOf(v) = c /\ Backed(evotes, v)
    BY <1>0, <2>1, CertBacked
  <2>3. ASSUME NEW s \in States, EpochOK(evotes, s)
        PROVE  EpochOK(evotes, Completed(Installed(s, c)))
    <3> DEFINE i == Installed(s, c)
    <3>1. /\ i.epoch = s.epoch /\ i.mode = "Installing" /\ i.change = c
          /\ i.ledger = s.ledger /\ i \in States
      BY <2>1 DEF Installed, States
    <3> HIDE DEF i
    <3>2. EpochOK(evotes, i)
      BY <2>2, <2>3, <3>1 DEF EpochOK
    <3>3. EpochOK(evotes, Completed(i))
      BY <3>1, <3>2, EpochOKCompleted
    <3> QED
      BY <3>3 DEF i
  <2> DEFINE n == Completed(Installed(st[a], c))
             r == ReplayEpochInstalled(disk[a], c)
  <2>4. EpochOK(evotes, n) /\ EpochOK(evotes, r)
    BY <1>a, <2>3 DEF ReplayEpochInstalled
  <2>5. /\ st' = st \/ st' = [st EXCEPT ![a] = n]
        /\ disk' = disk \/ disk' = [disk EXCEPT ![a] = r]
        /\ evotes' = evotes
    BY <1>7 DEF InstallEpochCert, InstallFails, InstallConflict, Append, AppendFails
  <2> HIDE DEF n, r
  <2> QED
    BY <1>0, <1>a, <2>4, <2>5, EpochMove
<1>8. ASSUME NEW a \in Honest, CompactJournal(a)
      PROVE  EpochInv'
  <2> DEFINE r == ReplaySnapshot(st[a])
  <2>1. r.epoch = st[a].epoch /\ r.mode = "Active" /\ r.ledger = st[a].ledger
    BY DEF ReplaySnapshot, InitState
  <2>2. /\ disk' = disk \/ disk' = [disk EXCEPT ![a] = r]
        /\ st' = st /\ evotes' = evotes
    BY <1>8 DEF CompactJournal, Append, AppendFails
  <2> HIDE DEF r
  <2>3. EpochOK(evotes, r)
    BY <1>a, <2>1, EpochOKKept
  <2> QED
    BY <1>0, <1>a, <2>2, <2>3, EpochMove
<1>9. ASSUME NEW a \in Honest, Restart(a)
      PROVE  EpochInv'
  <2>1. st' = [st EXCEPT ![a] = disk[a]] /\ disk' = disk /\ evotes' = evotes
    BY <1>9 DEF Restart
  <2> QED
    BY <1>0, <1>a, <2>1, EpochMove
<1> QED
  BY <1>1, <1>2, <1>3, <1>4, <1>5, <1>6, <1>7, <1>8, <1>9 DEF Next

\* As long as no committee exceeds its Byzantine budget, no authority operates
\* a generation on a ledger behind the frontier that a quorum of the committee
\* before it certified: through crashes in every step of an install, compaction
\* at any point and any number of epoch changes.
THEOREM GenerationsCovered ==
    ASSUME \A C \in Rosters : Tolerable(C)
    PROVE  Spec => []EpochCovered
<1>1. ASSUME EpochInv PROVE EpochCovered
  <2> SUFFICES ASSUME NEW a \in Honest, st[a].epoch > 0
               PROVE  \E v \in evotes :
                        /\ v.epoch = st[a].epoch
                        /\ EpochCertified(v.committee, CertOf(v))
                        /\ \A id \in DOMAIN v.frontier :
                              next_seq(st[a].ledger, id) >= v.frontier[id]
    BY DEF EpochCovered, CertOf
  <2>1. PICK v \in evotes : /\ v.epoch = st[a].epoch /\ Backed(evotes, v)
                            /\ Covers(st[a].ledger, v.frontier)
    BY <1>1 DEF EpochInv, EpochOK
  <2>2. EVoters(evotes, v.committee, CertOf(v)) = EpochVoters(v.committee, CertOf(v))
    BY DEF EVoters, EpochVoters
  <2> QED
    BY <2>1, <2>2 DEF Backed, EpochCertified, Covers
<1> QED
  BY <1>1, EpochInvInit, EpochInvStep, PTL DEF Spec

(***************************************************************************)
(* The fence                                                               *)
(***************************************************************************)
\* s takes no user vote of generation 0 any more.
Bound(s) == s.mode # "Active" \/ s.epoch = 1

\* An authority that signed an epoch vote is bound, and so is what recover()
\* would rebuild of any authority that is.
FenceInv ==
    /\ VoteInv
    /\ \A a \in Honest : Bound(st[a]) => Bound(disk[a])
    /\ \A v \in evotes : Bound(st[v.auth])

LEMMA BoundCompleted ==
    ASSUME NEW s \in States, StateOK(s), Bound(s)
    PROVE  Bound(Completed(s))
  BY DEF Completed, complete_install, install_covered, Bound, StateOK, Sane, States

\* One authority moves and does not come unbound.
LEMMA BoundMove ==
    ASSUME FenceInv, VoteInv', NEW a \in Honest, NEW s, NEW d,
           st' = [st EXCEPT ![a] = s],
           disk' = disk \/ disk' = [disk EXCEPT ![a] = d],
           evotes' = evotes, Bound(st[a]) => Bound(s), Bound(disk[a]) => Bound(d),
           Bound(s) => Bound(disk'[a])
    PROVE  FenceInv'
<1>1. \A b \in Honest : Bound(st'[b]) => Bound(disk'[b])
  BY DEF FenceInv, VoteInv, TypeOK
<1>2. \A v \in evotes : Bound(st'[v.auth])
  BY DEF FenceInv, VoteInv, TypeOK, EpochVoteType
<1> QED
  BY <1>1, <1>2 DEF FenceInv

LEMMA FenceInvInit == Init => FenceInv
  BY VoteInvInit DEF Init, FenceInv

LEMMA FenceInvStep ==
    ASSUME SingleChange
    PROVE  FenceInv /\ [Next]_vars => FenceInv'
<1> SUFFICES ASSUME FenceInv, [Next]_vars PROVE FenceInv'
  OBVIOUS
<1>0. VoteInv' /\ VoteInv
  BY VoteInvStep DEF FenceInv
<1>a. ASSUME NEW a \in Honest
      PROVE  /\ st[a] \in States /\ disk[a] \in States
             /\ StateOK(st[a]) /\ StateOK(disk[a])
             /\ Bound(st[a]) => Bound(disk[a])
             /\ st = [st EXCEPT ![a] = st[a]]
  BY DEF FenceInv, VoteInv, TypeOK
<1>1. CASE UNCHANGED vars
  BY <1>0, <1>1 DEF vars, FenceInv
<1>2. ASSUME NEW a \in Honest, NEW o \in Orders,
             HandleRevote(a, o) \/ HandleVote(a, o) \/ HandleFails(a, o)
               \/ HandleRefused(a, o)
      PROVE  FenceInv'
  <2> DEFINE s == Opened(st[a])
             t == [s EXCEPT !.locked = @ \cup {o}]
             r == ReplayLocked(disk[a], o)
  <2>1. s \in States /\ (Bound(st[a]) <=> Bound(s))
    BY <1>a, BoundCompleted, CompletedType
       DEF Opened, Completed, install_covered, Bound
  <2> HIDE DEF s
  <2>2. Bound(t) <=> Bound(s)
    BY <2>1 DEF States, Bound
  <2>3. Bound(r) <=> Bound(disk[a])
    BY <1>a DEF ReplayLocked, States, Bound
  <2> HIDE DEF t, r
  <2>4. /\ st' = [st EXCEPT ![a] = s] \/ st' = [st EXCEPT ![a] = t]
        /\ disk' = disk \/ disk' = [disk EXCEPT ![a] = r]
        /\ evotes' = evotes
    BY <1>2 DEF HandleRevote, HandleVote, HandleFails, HandleRefused, Append,
                AppendFails, s, t, r
  <2>5. disk'[a] = disk[a] \/ disk'[a] = r
    BY <2>4 DEF FenceInv, VoteInv, TypeOK
  <2> QED
    BY <1>0, <1>a, <2>1, <2>2, <2>3, <2>4, <2>5, BoundMove
<1>3. ASSUME NEW a \in Honest, NEW o \in Orders,
             ConfirmApplied(a, o) \/ ConfirmFails(a, o)
      PROVE  FenceInv'
  <2> DEFINE n == Applied(st[a], o)
             m == [st[a] EXCEPT !.ledger = apply(@, o)]
             r == ReplayConfirmed(disk[a], o)
  <2>1. n \in States
    BY <1>3, <1>a, ConfirmedType DEF ConfirmApplied, ConfirmFails, Confirmable
  <2>2. /\ n.epoch = st[a].epoch /\ n.mode = st[a].mode /\ n.change = st[a].change
        /\ m.epoch = st[a].epoch /\ m.mode = st[a].mode
    BY <1>a DEF Applied, States
  <2>3. Bound(disk[a]) => Bound(r)
    BY <1>a DEF ReplayConfirmed, States, Bound
  <2> HIDE DEF n, m, r
  <2>4. Bound(Completed(n)) <=> Bound(st[a])
    <3> DEFINE q == complete_install(n)
    <3>1. q.mode = "Active" /\ q.epoch = n.change.epoch
      BY <2>1 DEF complete_install, States
    <3> HIDE DEF q
    <3>2. n.mode = "Installing" => n.change.epoch = 1
      BY <1>a, <2>2 DEF StateOK, Sane
    <3>3. CASE install_covered(n)
      BY <2>2, <3>1, <3>2, <3>3 DEF Completed, Bound, install_covered, q
    <3>4. CASE ~install_covered(n)
      BY <2>2, <3>4 DEF Completed, Bound
    <3> QED
      BY <3>3, <3>4
  <2>5. Bound(m) <=> Bound(st[a])
    BY <2>2 DEF Bound
  <2>6. /\ st' = [st EXCEPT ![a] = Completed(n)] \/ st' = [st EXCEPT ![a] = m]
        /\ disk' = disk \/ disk' = [disk EXCEPT ![a] = r]
        /\ evotes' = evotes
    BY <1>3 DEF ConfirmApplied, ConfirmFails, Append, AppendFails, n, m, r
  <2>7. disk'[a] = disk[a] \/ disk'[a] = r
    BY <2>6 DEF FenceInv, VoteInv, TypeOK
  <2> QED
    BY <1>0, <1>a, <2>3, <2>4, <2>5, <2>6, <2>7, BoundMove
<1>4. ASSUME NEW a \in Honest, NEW o \in Orders, Attest(a, o)
      PROVE  FenceInv'
  BY <1>0, <1>4 DEF Attest, FenceInv
<1>5. ASSUME NEW a \in Honest, NEW p \in Proposals, Fence(a, p) \/ FenceFails(a, p)
      PROVE  FenceInv'
  <2> DEFINE n == [st[a] EXCEPT !.mode = "Fencing", !.change = Fenced(p)]
             r == ReplayEpochFence(disk[a], p)
  <2>1. Bound(n) /\ Bound(r)
    BY <1>a DEF ReplayEpochFence, States, Bound
  <2>2. /\ \/ st' = st
           \/ st' = [st EXCEPT ![a] = n] /\ disk' = [disk EXCEPT ![a] = r]
        /\ disk' = disk \/ disk' = [disk EXCEPT ![a] = r]
        /\ evotes' = evotes
    BY <1>5 DEF Fence, FenceFails, Append, AppendFails
  <2> HIDE DEF n, r
  <2>3. disk' = [disk EXCEPT ![a] = r] => disk'[a] = r
    BY DEF FenceInv, VoteInv, TypeOK
  <2> QED
    BY <1>0, <1>a, <2>1, <2>2, <2>3, BoundMove
<1>6. ASSUME NEW a \in Honest, SignEpochVote(a)
      PROVE  FenceInv'
  <2>1. Bound(st[a]) /\ EpochVote(a, st[a]).auth = a
    BY <1>6 DEF SignEpochVote, Bound, EpochVote
  <2> QED
    BY <1>0, <1>6, <2>1 DEF SignEpochVote, FenceInv
<1>7. ASSUME NEW a \in Honest, NEW c \in EpochCerts,
             InstallEpochCert(a, c) \/ InstallFails(a, c) \/ InstallConflict(a, c)
      PROVE  FenceInv'
  <2>1. c \in Changes /\ c.epoch = 1
    BY <1>0, CertType DEF VoteInv, EpochCerts
  <2>2. ASSUME NEW s \in States
        PROVE  Bound(Completed(Installed(s, c)))
    <3> DEFINE i == Installed(s, c)
    <3>1. i \in States /\ i.mode = "Installing" /\ i.change = c
      BY <2>1 DEF Installed, States
    <3> HIDE DEF i
    <3>2. Bound(Completed(i))
      BY <2>1, <3>1 DEF Completed, complete_install, Bound, States
    <3> QED
      BY <3>2 DEF i
  <2> DEFINE n == Completed(Installed(st[a], c))
             r == ReplayEpochInstalled(disk[a], c)
  <2>3. Bound(n) /\ Bound(r)
    BY <1>a, <2>2 DEF ReplayEpochInstalled
  <2>4. /\ \/ st' = st
           \/ st' = [st EXCEPT ![a] = n] /\ disk' = [disk EXCEPT ![a] = r]
        /\ disk' = disk \/ disk' = [disk EXCEPT ![a] = r]
        /\ evotes' = evotes
    BY <1>7 DEF InstallEpochCert, InstallFails, InstallConflict, Append, AppendFails
  <2> HIDE DEF n, r
  <2>5. disk' = [disk EXCEPT ![a] = r] => disk'[a] = r
    BY DEF FenceInv, VoteInv, TypeOK
  <2> QED
    BY <1>0, <1>a, <2>3, <2>4, <2>5, BoundMove
<1>8. ASSUME NEW a \in Honest, a \in Compacting, CompactJournal(a)
      PROVE  FenceInv'
  <2>1. Proposals = {}
    BY <1>8 DEF SingleChange
  <2>2. evotes' = {} /\ \A b \in Honest : ~Bound(st'[b])
    BY <1>0, <2>1 DEF VoteInv, StateOK, Sane, Bound
  <2> QED
    BY <1>0, <2>2 DEF FenceInv
<1>9. ASSUME NEW a \in Honest, Restart(a)
      PROVE  FenceInv'
  <2>1. st' = [st EXCEPT ![a] = disk[a]] /\ disk' = disk /\ evotes' = evotes
    BY <1>9 DEF Restart
  <2> QED
    BY <1>0, <1>a, <2>1, BoundMove
<1> QED
  BY <1>1, <1>2, <1>3, <1>4, <1>5, <1>6, <1>7, <1>8, <1>9 DEF Next

\* Once an authority has signed its assent to the next generation, no step lets
\* it sign a user vote of the generation it gave up, whatever its disk refused
\* and however often it restarted in between.
THEOREM FenceBinds ==
    ASSUME SingleChange
    PROVE  Spec => FenceHolds
<1> DEFINE Keeps == \A v \in votes' \ votes : \A ev \in evotes :
                       ev.auth = v.auth => ev.epoch <= v.epoch
<1>1. ASSUME FenceInv, [Next]_vars PROVE [Keeps]_vars
  <2> SUFFICES ASSUME NEW v \in votes' \ votes, NEW ev \in evotes, ev.auth = v.auth
               PROVE  ev.epoch <= v.epoch
    OBVIOUS
  <2>1. PICK a \in Honest : \E o \in Orders : HandleRevote(a, o) \/ HandleVote(a, o)
    BY <1>1 DEF Next, vars, HandleFails, HandleRefused, ConfirmApplied, ConfirmFails,
       Attest, Fence, FenceFails, SignEpochVote, InstallEpochCert, InstallFails,
       InstallConflict, CompactJournal, Restart
  <2> DEFINE s == Opened(st[a])
  <2>2. v.auth = a /\ v.epoch = s.epoch /\ s.mode = "Active"
    BY <2>1 DEF HandleRevote, HandleVote, Vote, Votable, Revotable
  <2>3. Bound(s)
    <3>1. st[a] \in States /\ StateOK(st[a]) /\ Bound(st[a])
      BY <1>1, <2>2 DEF FenceInv, VoteInv, TypeOK
    <3> QED
      BY <3>1, BoundCompleted DEF Opened
  <2>4. ev.epoch = 1
    BY <1>1 DEF FenceInv, VoteInv
  <2> QED
    BY <2>2, <2>3, <2>4 DEF Bound
<1> QED
  BY <1>1, FenceInvInit, FenceInvStep, PTL DEF Spec, FenceHolds

\* The three guarantees together: a change of committee under load weakens
\* neither the exclusiveness of votes nor finality nor exact recovery.
THEOREM EpochSafety ==
    ASSUME SingleChange, \A C \in Rosters : Tolerable(C)
    PROVE  Spec => []SafeAcrossEpochs
  BY VoteSafety, EffectFinality, Recovery, PTL DEF SafeAcrossEpochs
=============================================================================
