--------------------------- MODULE SlotSealProofs ---------------------------
(***************************************************************************)
(* With one round per slot and at most f Byzantine members, for every      *)
(* committee and every set of orders: a Void and a certificate exclude     *)
(* each other for ever, and all honest nodes decide one seal.              *)
(***************************************************************************)
EXTENDS SlotSeal, FiniteSetTheorems, TLAPS

\* The owner signs for a single round: what no_cert_can_form takes for granted.
SingleRound == \A r, s \in Rounds : r = s

Tolerable == Cardinality(Faulty) <= f

NodeType == [voted_for : Seals \cup {NoSeal}, tally : SUBSET Authorities,
             decided : Seals \cup {NoSeal}]

VoteOnce ==
    \A v, w \in votes : v.auth = w.auth /\ v.round = w.round => v = w

\* The inductive invariant: a seal voted for is still valid, on evidence that
\* still exists, and only a seal voted for is decided.
SealInv ==
    /\ votes \subseteq [auth : Honest, order : Orders, round : Rounds]
    /\ node \in [Honest -> NodeType]
    /\ VoteOnce
    /\ \A a \in Honest : node[a].decided # NoSeal => node[a].decided = node[a].voted_for
    /\ \A a \in Honest : node[a].voted_for # NoSeal => is_externally_valid(node[a].voted_for)

CertVoters(o, r) ==
    {a \in Authorities : \E v \in Showable : v.auth = a /\ v.order = o /\ v.round = r}

\* The committee's numbers are integers and its parts are finite.
LEMMA Numbers ==
    /\ IsFiniteSet(Authorities) /\ IsFiniteSet(Faulty)
    /\ n \in Nat /\ f \in Int /\ quorum \in Int /\ quorum = n - f
    /\ n > 0 => f \in Nat /\ n > 2 * f
<1>1. IsFiniteSet(Authorities) /\ IsFiniteSet(Faulty)
  BY SealAssumption, FS_Subset
<1>2. n \in Nat
  BY <1>1, FS_CardinalityType DEF n
<1> QED BY <1>1, <1>2 DEF f, quorum

\* A seal is not NoSeal, and Void is no Finalize.
LEMMA SealsDiffer ==
    /\ Void # NoSeal
    /\ \A o \in Orders, r \in Rounds : Finalize(o, r) # NoSeal /\ Finalize(o, r) # Void
BY DEF Void, NoSeal, Finalize

\* Evidence on which no certificate can form bars every certificate: more than
\* f honest members are locked on other orders.
LEMMA VoidExcludesCert ==
    ASSUME SingleRound, Tolerable, VoteOnce,
           votes \subseteq [auth : Honest, order : Orders, round : Rounds],
           NEW E \in SUBSET Showable, no_cert_can_form(E),
           NEW o \in Orders, NEW r \in Rounds
    PROVE  ~Certified(o, r)
<1> DEFINE V == Voted(E)
           W == Voters(E, o)
           Others == V \ W
           Locked == Others \ Faulty
           Q == CertVoters(o, r)
<1>1. /\ V \subseteq Authorities /\ W \subseteq V
      /\ IsFiniteSet(V) /\ IsFiniteSet(W) /\ IsFiniteSet(Others) /\ IsFiniteSet(Locked)
  BY Numbers, FS_Subset DEF Voted, Voters
<1>2. Cardinality(W) + f + (n - Cardinality(V)) < quorum
  <2>1. CASE o \in {v.order : v \in E}
    BY <2>1 DEF no_cert_can_form
  <2>2. CASE o \notin {v.order : v \in E}
    <3>1. W = {}
      BY <2>2 DEF Voters
    <3>2. Cardinality(W) = 0
      BY <3>1, FS_EmptySet
    <3> QED BY <3>2, Numbers, <1>1, FS_CardinalityType DEF no_cert_can_form
  <2> QED BY <2>1, <2>2
<1>3. Cardinality(Others) = Cardinality(V) - Cardinality(W)
  <2>1. V \cap W = W
    BY <1>1
  <2> QED BY <2>1, <1>1, FS_Difference, ZenonT(30)
<1>4. Cardinality(Others) - Cardinality(Others \cap Faulty) = Cardinality(Locked)
  BY <1>1, FS_Difference, FS_CardinalityType, FS_Subset
<1>5. Cardinality(Others \cap Faulty) <= f
  BY Numbers, FS_Subset, FS_CardinalityType DEF Tolerable
<1>6. Cardinality(Locked) > f
  <2>1. /\ Cardinality(V) \in Nat /\ Cardinality(W) \in Nat /\ Cardinality(Others) \in Nat
        /\ Cardinality(Locked) \in Nat
    BY <1>1, FS_CardinalityType
  <2>2. IsFiniteSet(Others \cap Faulty) /\ Cardinality(Others \cap Faulty) \in Nat
    BY <1>1, FS_Subset, FS_CardinalityType
  <2> QED BY <2>1, <2>2, <1>2, <1>3, <1>4, <1>5, Numbers
<1>7. Q \subseteq Authorities \ Locked
  <2> SUFFICES ASSUME NEW a \in Q, a \in Locked PROVE FALSE
    BY DEF CertVoters
  <2>1. PICK v \in E : v.auth = a
    BY DEF Voted
  <2>2. v.order # o
    BY <1>1, <2>1 DEF Voters
  <2>3. v \in votes
    BY <2>1 DEF Showable
  <2>4. PICK w \in Showable : w.auth = a /\ w.order = o /\ w.round = r
    BY DEF CertVoters
  <2>5. w \in votes
    BY <2>4 DEF Showable
  <2>6. v.round = w.round
    BY <2>3, <2>5 DEF SingleRound
  <2> QED BY <2>1, <2>2, <2>3, <2>4, <2>5, <2>6 DEF VoteOnce
<1>8. Cardinality(Q) <= n - Cardinality(Locked)
  <2>1. Locked \subseteq Authorities /\ Authorities \cap Locked = Locked
    BY <1>1
  <2>2. Cardinality(Authorities \ Locked) = n - Cardinality(Locked)
    BY <2>1, Numbers, FS_Difference DEF n
  <2>3. IsFiniteSet(Authorities \ Locked)
    BY Numbers, FS_Subset
  <2> QED BY <1>7, <2>2, <2>3, FS_Subset
<1>9. Cardinality(Q) \in Nat /\ Cardinality(Locked) \in Nat
  BY <1>1, <1>7, Numbers, FS_Subset, FS_CardinalityType
<1> QED BY <1>6, <1>8, <1>9, Numbers DEF Certified, CertVoters

\* At most one order of the slot is ever certified: two quorums share an
\* honest member, and it votes once.
LEMMA CertUnique ==
    ASSUME SingleRound, Tolerable, VoteOnce, n > 0,
           votes \subseteq [auth : Honest, order : Orders, round : Rounds],
           NEW o1 \in Orders, NEW r1 \in Rounds, NEW o2 \in Orders, NEW r2 \in Rounds,
           Certified(o1, r1), Certified(o2, r2)
    PROVE  o1 = o2 /\ r1 = r2
<1> DEFINE Q1 == CertVoters(o1, r1)
           Q2 == CertVoters(o2, r2)
<1>1. /\ Q1 \subseteq Authorities /\ Q2 \subseteq Authorities
      /\ IsFiniteSet(Q1) /\ IsFiniteSet(Q2)
      /\ Cardinality(Q1) >= quorum /\ Cardinality(Q2) >= quorum
  BY Numbers, FS_Subset DEF CertVoters, Certified
<1>2. ~(Q1 \cap Q2 \subseteq Faulty)
  <2> SUFFICES ASSUME Q1 \cap Q2 \subseteq Faulty PROVE FALSE
    OBVIOUS
  <2>1. Cardinality(Q1 \cup Q2) =
          Cardinality(Q1) + Cardinality(Q2) - Cardinality(Q1 \cap Q2)
    BY <1>1, FS_Union
  <2>2. Cardinality(Q1 \cup Q2) <= n
    BY <1>1, Numbers, FS_Subset DEF n
  <2>3. Cardinality(Q1 \cap Q2) <= f
    BY Numbers, FS_Subset, FS_CardinalityType DEF Tolerable
  <2>4. /\ Cardinality(Q1) \in Nat /\ Cardinality(Q2) \in Nat
        /\ Cardinality(Q1 \cap Q2) \in Nat
    BY <1>1, FS_Intersection, FS_CardinalityType
  <2>5. f \in Nat /\ n \in Nat /\ n >= 3 * f + 1
    BY Numbers DEF f
  <2> QED BY <1>1, <2>1, <2>2, <2>3, <2>4, <2>5, Numbers
<1>3. PICK a \in Q1 \cap Q2 : a \notin Faulty
  BY <1>2
<1>4. PICK v \in Showable : v.auth = a /\ v.order = o1 /\ v.round = r1
  BY <1>3 DEF CertVoters
<1>5. PICK w \in Showable : w.auth = a /\ w.order = o2 /\ w.round = r2
  BY <1>3 DEF CertVoters
<1>6. v \in votes /\ w \in votes
  BY <1>3, <1>4, <1>5 DEF Showable
<1> QED BY <1>4, <1>5, <1>6 DEF VoteOnce, SingleRound

\* What was valid stays valid as more votes are cast.
LEMMA ValidityGrows ==
    ASSUME votes \subseteq votes', NEW s, is_externally_valid(s)
    PROVE  is_externally_valid(s)'
<1>1. Showable \subseteq Showable'
  BY DEF Showable
<1>2. CASE s = Void /\ \E E \in SUBSET Showable : no_cert_can_form(E)
  <2>1. PICK E \in SUBSET Showable : no_cert_can_form(E)
    BY <1>2
  <2>2. E \in SUBSET Showable' /\ no_cert_can_form(E)'
    BY <2>1, <1>1 DEF no_cert_can_form, Voters, Voted, n, f, quorum
  <2> QED BY <1>2, <2>2 DEF is_externally_valid, Void
<1>3. ASSUME NEW o \in Orders, NEW r \in Rounds, s = Finalize(o, r), Certified(o, r)
      PROVE  is_externally_valid(s)'
  <2> DEFINE Q == {a \in Authorities :
                     \E v \in Showable : v.auth = a /\ v.order = o /\ v.round = r}
             Q2 == {a \in Authorities :
                     \E v \in Showable' : v.auth = a /\ v.order = o /\ v.round = r}
  <2>1. Q \subseteq Q2 /\ IsFiniteSet(Q2) /\ IsFiniteSet(Q)
    BY <1>1, Numbers, FS_Subset
  <2>2. Cardinality(Q) <= Cardinality(Q2) /\ Cardinality(Q) \in Nat /\ Cardinality(Q2) \in Nat
    BY <2>1, FS_Subset, FS_CardinalityType
  <2>3. Cardinality(Q) >= quorum
    BY <1>3 DEF Certified
  <2>4. Cardinality(Q2) >= quorum
    BY <2>2, <2>3, Numbers
  <2>5. Certified(o, r)'
    BY <2>4 DEF Certified, quorum, n, f
  <2> QED BY <1>3, <2>5 DEF is_externally_valid, Finalize
<1> QED BY <1>2, <1>3 DEF is_externally_valid

\* The initial state satisfies the invariant.
LEMMA SealInit == Init => SealInv
BY DEF Init, SealInv, NodeType, VoteOnce, Seals

\* Recording a name keeps a node's type, its vote, and decides only its vote.
LEMMA RecordedFacts ==
    ASSUME NEW q \in NodeType, NEW name \in Authorities,
           q.decided # NoSeal => q.decided = q.voted_for
    PROVE  /\ Recorded(q, name) \in NodeType
           /\ Recorded(q, name).voted_for = q.voted_for
           /\ Recorded(q, name).decided # NoSeal =>
                 Recorded(q, name).decided = q.voted_for
BY DEF Recorded, NodeType

\* Every step preserves the invariant.
LEMMA SealStep == SealInv /\ [Next]_vars => SealInv'
<1> SUFFICES ASSUME SealInv, [Next]_vars PROVE SealInv'
  OBVIOUS
<1> USE DEF SealInv
<1>1. CASE UNCHANGED vars
  <2>1. \A a \in Honest : node[a].voted_for # NoSeal => is_externally_valid(node[a].voted_for)'
    BY <1>1, ValidityGrows DEF vars
  <2> QED BY <1>1, <2>1 DEF vars, VoteOnce
<1>2. ASSUME NEW a \in Honest, NEW o \in Orders, NEW r \in Rounds, Handle(a, o, r)
      PROVE  SealInv'
  <2>1. VoteOnce'
    BY <1>2 DEF Handle, VoteOnce
  <2>2. \A b \in Honest : node[b].voted_for # NoSeal => is_externally_valid(node[b].voted_for)'
    BY <1>2, ValidityGrows DEF Handle
  <2> QED BY <1>2, <2>1, <2>2 DEF Handle
<1>3. ASSUME NEW a \in Honest, NEW s \in Seals, ProcessPropose(a, s)
      PROVE  SealInv'
  <2> DEFINE q == [node[a] EXCEPT !.voted_for = s]
  <2>1. /\ q \in NodeType /\ q.voted_for = s
        /\ q.decided # NoSeal => q.decided = q.voted_for
    BY <1>3 DEF ProcessPropose, NodeType
  <2>2. /\ node' = [node EXCEPT ![a] = Recorded(q, a)]
        /\ UNCHANGED votes /\ a \in Authorities /\ is_externally_valid(s)
    BY <1>3 DEF ProcessPropose, Honest
  <2>3. /\ Recorded(q, a) \in NodeType /\ Recorded(q, a).voted_for = s
        /\ Recorded(q, a).decided # NoSeal => Recorded(q, a).decided = s
    BY <2>1, <2>2, RecordedFacts
  <2>4. \A t : is_externally_valid(t) => is_externally_valid(t)'
    BY <2>2, ValidityGrows
  <2> HIDE DEF q
  <2>5. node' \in [Honest -> NodeType]
    BY <2>2, <2>3
  <2>6. \A b \in Honest : node'[b] = IF b = a THEN Recorded(q, a) ELSE node[b]
    BY <2>2
  <2> QED BY <2>2, <2>3, <2>4, <2>5, <2>6 DEF VoteOnce
<1>4. ASSUME NEW a \in Honest, NEW name \in Authorities, ProcessVote(a, name)
      PROVE  SealInv'
  <2> DEFINE q == node[a]
  <2>1. /\ node' = [node EXCEPT ![a] = Recorded(q, name)]
        /\ UNCHANGED votes /\ q \in NodeType /\ q.voted_for # NoSeal
    BY <1>4 DEF ProcessVote
  <2>2. /\ Recorded(q, name) \in NodeType /\ Recorded(q, name).voted_for = q.voted_for
        /\ Recorded(q, name).decided # NoSeal => Recorded(q, name).decided = q.voted_for
    BY <2>1, RecordedFacts
  <2>3. \A t : is_externally_valid(t) => is_externally_valid(t)'
    BY <2>1, ValidityGrows
  <2>4. is_externally_valid(q.voted_for)
    BY <2>1
  <2> HIDE DEF q
  <2>5. node' \in [Honest -> NodeType]
    BY <2>1, <2>2
  <2>6. \A b \in Honest : node'[b] = IF b = a THEN Recorded(q, name) ELSE node[b]
    BY <2>1
  <2> QED BY <2>1, <2>2, <2>3, <2>4, <2>5, <2>6 DEF VoteOnce
<1> QED BY <1>1, <1>2, <1>3, <1>4 DEF Next

\* A Void an honest node accepted (no_cert_can_form) and a certificate of the
\* slot exclude each other, now and later.
THEOREM VoidSoundness ==
    ASSUME SingleRound, Tolerable
    PROVE  Spec => []VoidSound
<1>1. SealInv => VoidSound
  <2> SUFFICES ASSUME SealInv, NEW a \in Honest, node[a].voted_for = Void,
                      NEW o \in Orders, NEW r \in Rounds
               PROVE  ~Certified(o, r)
    BY DEF VoidSound
  <2>1. is_externally_valid(Void)
    BY SealsDiffer DEF SealInv
  <2>2. PICK E \in SUBSET Showable : no_cert_can_form(E)
    BY <2>1, SealsDiffer DEF is_externally_valid
  <2> QED BY <2>2, VoidExcludesCert DEF SealInv
<1> QED BY <1>1, SealInit, SealStep, PTL DEF Spec

\* All honest nodes that decide (AgreementNode::process) decide the same seal.
THEOREM SealAgreement ==
    ASSUME SingleRound, Tolerable
    PROVE  Spec => []Agreement
<1>1. SealInv => Agreement
  <2> SUFFICES ASSUME SealInv, NEW a \in Honest, NEW b \in Honest,
                      node[a].decided # NoSeal, node[b].decided # NoSeal
               PROVE  node[a].decided = node[b].decided
    BY DEF Agreement
  <2> DEFINE s == node[a].voted_for
             t == node[b].voted_for
  <2>1. /\ node[a].decided = s /\ node[b].decided = t
        /\ is_externally_valid(s) /\ is_externally_valid(t)
    BY DEF SealInv
  <2>2. n > 0
    <3>1. Authorities # {}
      BY DEF Honest
    <3> QED BY <3>1, Numbers, FS_EmptySet DEF n
  <2> HIDE DEF s, t
  <2>3. CASE s = Void /\ t = Void
    BY <2>1, <2>3
  <2>4. ASSUME NEW o \in Orders, NEW r \in Rounds, Certified(o, r),
               \E E \in SUBSET Showable : no_cert_can_form(E)
        PROVE  FALSE
    BY <2>4, VoidExcludesCert DEF SealInv
  <2>5. ASSUME NEW o1 \in Orders, NEW r1 \in Rounds, NEW o2 \in Orders, NEW r2 \in Rounds,
               s = Finalize(o1, r1), Certified(o1, r1),
               t = Finalize(o2, r2), Certified(o2, r2)
        PROVE  s = t
    BY <2>2, <2>5, CertUnique DEF SealInv
  <2> QED BY <2>1, <2>3, <2>4, <2>5 DEF is_externally_valid
<1> QED BY <1>1, SealInit, SealStep, PTL DEF Spec
=============================================================================
