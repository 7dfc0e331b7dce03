--------------------------- MODULE HotStuffProofs ---------------------------
(***************************************************************************)
(* What TLAPS proves of module HotStuff: the harness decides certified     *)
(* blocks only, for every number of validators and every order, loss and   *)
(* repetition of messages; and a nonce is spent once, under every driver.  *)
(***************************************************************************)
EXTENDS HotStuff, FoldProofs, FiniteSetTheorems, SequenceTheorems, TLAPS

Phases == {"Prepare", "PreCommit", "Commit"}

(***************************************************************************)
(* Types                                                                   *)
(***************************************************************************)
TxType == [kind : {"Transfer"}, from : Nodes, to : Nodes, amount : Nat, nonce : Nat]
            \cup [kind : {"AuctionBid"}, from : Nodes, amount : Nat]
            \cup [kind : {"Ranked"}, from : Nodes, frame : Nat]

\* Distinct validators, in order; transactions of the three kinds the executor
\* knows; a bounded exploration of views.
Deployed ==
    /\ Len(Validators) \in Nat \ {0} /\ DOMAIN Validators = 1 .. Len(Validators)
    /\ \A j, k \in 1 .. Len(Validators) : Validators[j] = Validators[k] => j = k
    /\ 0 \notin Nodes
    /\ Txs \subseteq TxType
    /\ InitBalance \in Nat /\ MaxView \in Nat

Chains == Seq([view : Views, txs : Seq(Txs)])
QCs == [block : Chains, view : Views, phase : Phases, signers : Nat]
Blocks == [chain : Chains \ {<<>>}, justify : QCs]
VoteRecs == [from : Nodes, phase : Phases, block : Chains]
VcEntries == [view : Views, from : Nodes, qc : QCs]

\* What took effect is a transfer or a bid; the nonces of the transfers are
\* spent, each of them once.
SpentOnce(e) ==
    /\ \A j \in DOMAIN e.done :
          /\ e.done[j].kind # "Ranked"
          /\ e.done[j].kind = "Transfer" => e.done[j].nonce < e.nonce[e.done[j].from]
    /\ \A j, k \in DOMAIN e.done :
          e.done[j].kind = "Transfer" /\ e.done[j] = e.done[k] => j = k

ExecType == [bal : [Accounts -> Int], nonce : [Accounts -> Nat], done : Seq(Txs)]
Execs == {e \in ExecType : SpentOnce(e)}

HsStates == [view : Views, high : QCs, locked : QCs, pending : Blocks \cup {NoBlock},
             votes : SUBSET VoteRecs, tracker : SUBSET VoteRecs, pool : Seq(Txs),
             vc : SUBSET VcEntries, exec : Execs]

ProposalMsg(b, p) == [type |-> "proposal", block |-> b, phase |-> p]
VoteMsg(c, v, p, i) == [type |-> "vote", block |-> c, view |-> v, phase |-> p, from |-> i]
NewViewMsg(v, qc) == [type |-> "newview", view |-> v, qc |-> qc]
ViewChangeMsg(v, i, qc) == [type |-> "viewchange", view |-> v, from |-> i, qc |-> qc]

MsgOK(m) ==
    \/ \E b \in Blocks, p \in Phases : m = ProposalMsg(b, p)
    \/ \E c \in Chains, v \in Views, p \in Phases, i \in Nodes : m = VoteMsg(c, v, p, i)
    \/ \E v \in Views, qc \in QCs : m = NewViewMsg(v, qc)
    \/ \E v \in Views, i \in Nodes, qc \in QCs : m = ViewChangeMsg(v, i, qc)

Asked == Txs \cup {NoTx}
BridgeOK == bridge \in [tx : Asked, queue : Seq(msgs), returned : SUBSET [tx : Asked, qc : QCs]]

HsTypeOK ==
    /\ hs \in [Nodes -> HsStates]
    /\ \A m \in msgs : MsgOK(m)
    /\ BridgeOK

(***************************************************************************)
(* The executor                                                            *)
(***************************************************************************)
IsRun(g, e, txs) ==
    g = [s \in SUBSET DOMAIN txs |->
           IF s = {} THEN e ELSE execute_one(g[s \ {Max(s)}], txs[Max(s)])]

LEMMA ExecuteBlockDef ==
    ASSUME NEW e, NEW txs
    PROVE  execute_block(e, txs) = (CHOOSE g : IsRun(g, e, txs))[DOMAIN txs]
  BY DEF execute_block, FoldLeft, MapThenFoldSet, IsRun

LEMMA RunExists ==
    ASSUME NEW T, NEW txs \in Seq(T), NEW e
    PROVE  \E g : IsRun(g, e, txs)
<1> DEFINE k == Len(txs)
           Upto(m) == {s \in SUBSET (1 .. k) : Cardinality(s) <= m}
           Table(g, m) == g = [s \in Upto(m) |-> IF s = {} THEN e
                                 ELSE execute_one(g[s \ {Max(s)}], txs[Max(s)])]
           N == {m \in Nat : \E g : Table(g, m)}
<1>0. /\ k \in Nat /\ DOMAIN txs = 1 .. k
      /\ \A s \in SUBSET (1 .. k) : /\ IsFiniteSet(s) /\ Cardinality(s) \in Nat
                                    /\ Cardinality(s) <= Cardinality(1 .. k)
      /\ Cardinality(1 .. k) \in Nat
  <2>1. k \in Nat /\ DOMAIN txs = 1 .. k
    OBVIOUS
  <2> HIDE DEF k
  <2> QED
    BY <2>1, IntervalSubsets
<1> HIDE DEF k
<1>1. 0 \in N
  <2>1. \A s \in Upto(0) : s = {}
    BY <1>0, FS_EmptySet
  <2>2. Table([s \in Upto(0) |-> e], 0)
    BY <2>1
  <2> QED
    BY <2>2
<1>2. ASSUME NEW m \in N PROVE m + 1 \in N
  <2>1. PICK g : Table(g, m)
    BY <1>2
  <2> DEFINE h == [s \in Upto(m + 1) |-> IF s = {} THEN e
                                 ELSE execute_one(g[s \ {Max(s)}], txs[Max(s)])]
  <2>2. ASSUME NEW s \in Upto(m + 1), s # {}
        PROVE  s \ {Max(s)} \in Upto(m)
    <3>1. s \in SUBSET (1 .. k) /\ Cardinality(s) <= m + 1
      OBVIOUS
    <3>2. /\ s \ {Max(s)} \in SUBSET (1 .. k)
          /\ Cardinality(s) \in Nat /\ Cardinality(s \ {Max(s)}) \in Nat
          /\ Cardinality(s \ {Max(s)}) = Cardinality(s) - 1
      BY <1>0, <2>2, <3>1, SmallerWithoutMax
    <3>3. Cardinality(s \ {Max(s)}) <= m
      BY <3>1, <3>2
    <3> QED
      BY <3>2, <3>3
  <2>3. ASSUME NEW s \in Upto(m) PROVE h[s] = g[s]
    <3>1. s \in Upto(m + 1)
      BY <1>0
    <3>2. g[s] = IF s = {} THEN e ELSE execute_one(g[s \ {Max(s)}], txs[Max(s)])
      BY <2>1
    <3> QED
      BY <3>1, <3>2
  <2>4. h = [s \in Upto(m + 1) |-> IF s = {} THEN e
                                 ELSE execute_one(h[s \ {Max(s)}], txs[Max(s)])]
    <3> HIDE DEF Upto
    <3> QED BY <2>2, <2>3
  <2>5. Table(h, m + 1)
    BY <2>4
  <2>6. \E x : Table(x, m + 1)
    <3> HIDE DEF Table, h
    <3> QED BY <2>5
  <2>7. m + 1 \in Nat
    OBVIOUS
  <2> HIDE DEF Table
  <2> QED
    BY <2>6, <2>7
<1>3. N = Nat
  <2> HIDE DEF N
  <2>1. N \in SUBSET Nat
    BY DEF N
  <2> QED BY <1>1, <1>2, <2>1, SetInduction
<1>4. Cardinality(1 .. k) \in N
  BY <1>0, <1>3
<1>5. Upto(Cardinality(1 .. k)) = SUBSET (1 .. k)
  BY <1>0
<1> QED
  BY <1>0, <1>4, <1>5 DEF IsRun

\* What every transaction preserves, a block preserves.
LEMMA ExecuteBlockIn ==
    ASSUME NEW T, NEW txs \in Seq(T), NEW G, NEW e \in G,
           \A x \in G, tx \in T : execute_one(x, tx) \in G
    PROVE  execute_block(e, txs) \in G
<1> DEFINE k == Len(txs)
<1>1. PICK g : IsRun(g, e, txs) /\ execute_block(e, txs) = g[DOMAIN txs]
  <2>1. IsRun(CHOOSE g : IsRun(g, e, txs), e, txs)
    BY RunExists
  <2> QED
    BY <2>1, ExecuteBlockDef
<1> DEFINE N == {m \in Nat : \A s \in SUBSET (1 .. k) : Cardinality(s) <= m => g[s] \in G}
<1>0. /\ k \in Nat /\ DOMAIN txs = 1 .. k /\ \A j \in 1 .. k : txs[j] \in T
      /\ \A s \in SUBSET (1 .. k) : IsFiniteSet(s) /\ Cardinality(s) \in Nat
  <2>1. k \in Nat /\ DOMAIN txs = 1 .. k /\ \A j \in 1 .. k : txs[j] \in T
    OBVIOUS
  <2> HIDE DEF k
  <2> QED
    BY <2>1, IntervalSubsets
<1> HIDE DEF k
<1>a. ASSUME NEW s \in SUBSET (1 .. k)
      PROVE  g[s] = IF s = {} THEN e ELSE execute_one(g[s \ {Max(s)}], txs[Max(s)])
  BY <1>0, <1>1 DEF IsRun
<1>2. 0 \in N
  <2>1. ASSUME NEW s \in SUBSET (1 .. k), Cardinality(s) <= 0 PROVE g[s] \in G
    <3>1. s = {}
      BY <1>0, <2>1, FS_EmptySet
    <3> QED
      BY <1>a, <3>1
  <2> QED
    BY <2>1
<1>3. ASSUME NEW m \in N PROVE m + 1 \in N
  <2>0. m \in Nat /\ \A s \in SUBSET (1 .. k) : Cardinality(s) <= m => g[s] \in G
    BY <1>3
  <2>1. ASSUME NEW s \in SUBSET (1 .. k), Cardinality(s) <= m + 1 PROVE g[s] \in G
    <3>1. CASE s = {}
      BY <1>a, <3>1
    <3>2. CASE s # {}
      <4> DEFINE r == s \ {Max(s)}
      <4>1. /\ Max(s) \in s /\ r \in SUBSET (1 .. k)
            /\ Cardinality(s) \in Nat /\ Cardinality(r) \in Nat
            /\ Cardinality(r) = Cardinality(s) - 1
        BY <1>0, <3>2, SmallerWithoutMax
      <4>2. g[s] = execute_one(g[r], txs[Max(s)])
        BY <1>a, <3>2
      <4> HIDE DEF r
      <4>3. Cardinality(r) <= m
        BY <2>0, <2>1, <4>1
      <4>4. g[r] \in G /\ txs[Max(s)] \in T
        <5> HIDE DEF N
        <5> QED BY <1>0, <2>0, <4>1, <4>3
      <4> QED
        BY <4>2, <4>4
    <3> QED
      BY <3>1, <3>2
  <2> QED
    BY <2>0, <2>1
<1>4. N = Nat
  <2> HIDE DEF N
  <2>1. N \in SUBSET Nat
    BY DEF N
  <2> QED BY <1>2, <1>3, <2>1, SetInduction
<1>5. 1 .. k \in SUBSET (1 .. k) /\ Cardinality(1 .. k) \in N
  <2>1. 1 .. k \in SUBSET (1 .. k)
    OBVIOUS
  <2> QED
    BY <1>0, <1>4, <2>1
<1> QED
  BY <1>0, <1>1, <1>5

\* One transaction: nothing, or its effect and its nonce spent.
LEMMA ExecuteOne ==
    ASSUME Deployed, NEW e \in ExecType, NEW tx \in Txs
    PROVE  LET r == execute_one(e, tx) IN
           \/ r = e
           \/ /\ r \in ExecType /\ tx.from \in Accounts
              /\ r.nonce = [e.nonce EXCEPT ![tx.from] = @ + 1]
              /\ r.done = Append(e.done, tx)
              /\ tx.kind # "Ranked"
              /\ tx.kind = "Transfer" => tx.nonce = e.nonce[tx.from]
<1> DEFINE bal(u) == [e.bal EXCEPT ![tx.from] = @ - tx.amount, ![u] = @ + tx.amount]
           next == [e.nonce EXCEPT ![tx.from] = @ + 1]
           Moved(u) == [e EXCEPT !.bal = bal(u), !.nonce = next]
           Done(x) == [x EXCEPT !.done = Append(@, tx)]
<1>1. tx \in TxType /\ tx.from \in Nodes
  BY DEF Deployed, TxType
<1>2. ASSUME NEW u \in Accounts, tx.amount \in Nat
      PROVE  /\ Done(Moved(u)) \in ExecType
             /\ Done(Moved(u)).nonce = [e.nonce EXCEPT ![tx.from] = @ + 1]
             /\ Done(Moved(u)).done = Append(e.done, tx)
  <2> DEFINE x == Moved(u)
             b == bal(u)
             c == next
  <2>0. e.bal \in [Accounts -> Int] /\ e.nonce \in [Accounts -> Nat] /\ e.done \in Seq(Txs)
        /\ tx.from \in Accounts
    BY <1>1 DEF ExecType, Accounts
  <2>1. b \in [Accounts -> Int] /\ c \in [Accounts -> Nat]
    <3> DEFINE d == [e.bal EXCEPT ![tx.from] = @ - tx.amount]
    <3>1. d \in [Accounts -> Int]
      BY <1>2, <2>0
    <3>2. b = [d EXCEPT ![u] = @ + tx.amount]
      OBVIOUS
    <3>3. c \in [Accounts -> Nat]
      BY <2>0
    <3> HIDE DEF d
    <3>4. [d EXCEPT ![u] = @ + tx.amount] \in [Accounts -> Int]
      <4>1. d[u] + tx.amount \in Int
        BY <1>2, <3>1
      <4> QED
        BY <3>1, <4>1
    <3> HIDE DEF b, c
    <3> QED
      BY <3>2, <3>3, <3>4, Zenon
  <2> HIDE DEF b, c
  <2>2. /\ x.bal = b /\ x.nonce = c /\ x.done = e.done
        /\ x = [bal |-> b, nonce |-> c, done |-> e.done]
    <3>1. x = [e EXCEPT !.bal = b, !.nonce = c]
      BY DEF b, c
    <3> HIDE DEF x
    <3> QED BY <3>1 DEF ExecType
  <2> HIDE DEF x
  <2>3. Append(e.done, tx) \in Seq(Txs)
    BY <2>0
  <2> QED
    BY <2>1, <2>2, <2>3 DEF ExecType, x, c
<1>3. CASE tx.kind = "Transfer"
  <2>1. execute_one(e, tx) = LET r == transfer(e, tx.from, tx.to, tx.amount, tx.nonce)
                             IN IF r = e THEN e ELSE Done(r)
    BY <1>3, Zenon DEF execute_one
  <2>2. tx.to \in Accounts /\ tx.amount \in Nat
    BY <1>1, <1>3 DEF TxType, Accounts
  <2>3. \/ transfer(e, tx.from, tx.to, tx.amount, tx.nonce) = e
        \/ /\ transfer(e, tx.from, tx.to, tx.amount, tx.nonce) = Moved(tx.to)
           /\ tx.nonce = e.nonce[tx.from]
    BY DEF transfer
  <2> HIDE DEF Moved, Done
  <2> QED
    BY <1>1, <1>2, <1>3, <2>1, <2>2, <2>3 DEF Accounts
<1>4. CASE tx.kind = "AuctionBid"
  <2>1. execute_one(e, tx) = LET r == transfer(e, tx.from, 0, tx.amount, e.nonce[tx.from])
                             IN IF r = e THEN e ELSE Done(r)
    BY <1>4, Zenon DEF execute_one
  <2>2. 0 \in Accounts /\ tx.amount \in Nat
    BY <1>1, <1>4 DEF TxType, Accounts
  <2>3. \/ transfer(e, tx.from, 0, tx.amount, e.nonce[tx.from]) = e
        \/ transfer(e, tx.from, 0, tx.amount, e.nonce[tx.from]) = Moved(0)
    BY DEF transfer
  <2> HIDE DEF Moved, Done
  <2> QED
    BY <1>1, <1>2, <1>4, <2>1, <2>2, <2>3 DEF Accounts
<1>5. CASE tx.kind = "Ranked"
  <2>1. execute_one(e, tx) = e
    BY <1>5, Zenon DEF execute_one
  <2> QED
    BY <2>1
<1> QED
  BY <1>1, <1>3, <1>4, <1>5 DEF TxType

LEMMA ExecuteSpends ==
    ASSUME Deployed, NEW e \in Execs, NEW tx \in Txs
    PROVE  execute_one(e, tx) \in Execs
<1> DEFINE r == execute_one(e, tx)
<1>1. e \in ExecType /\ SpentOnce(e)
  BY DEF Execs
<1>2. CASE r = e
  BY <1>2
<1>3. CASE /\ r \in ExecType /\ tx.from \in Accounts
           /\ r.nonce = [e.nonce EXCEPT ![tx.from] = @ + 1]
           /\ r.done = Append(e.done, tx)
           /\ tx.kind # "Ranked"
           /\ tx.kind = "Transfer" => tx.nonce = e.nonce[tx.from]
  <2> HIDE DEF r
  <2>1. /\ e.nonce \in [Accounts -> Nat] /\ e.done \in Seq(Txs)
        /\ DOMAIN r.done = 1 .. (Len(e.done) + 1) /\ DOMAIN e.done = 1 .. Len(e.done)
        /\ Len(e.done) \in Nat
        /\ r.done[Len(e.done) + 1] = tx
        /\ \A j \in 1 .. Len(e.done) : r.done[j] = e.done[j] /\ e.done[j] \in Txs
    BY <1>1, <1>3 DEF ExecType
  <2>2. ASSUME NEW t \in Txs, t.kind = "Transfer"
        PROVE  t.from \in Accounts /\ t.nonce \in Nat
    BY <2>2 DEF Deployed, TxType, Accounts
  <2>3. \A a \in Accounts : r.nonce[a] \in Nat /\ r.nonce[a] >= e.nonce[a] /\ e.nonce[a] \in Nat
    BY <1>3, <2>1
  <2>4. r.nonce[tx.from] > e.nonce[tx.from]
    BY <1>3, <2>1
  <2>5. ASSUME NEW j \in DOMAIN r.done, r.done[j].kind = "Transfer"
        PROVE  r.done[j].nonce < r.nonce[r.done[j].from]
    <3>1. CASE j \in 1 .. Len(e.done)
      <4> DEFINE t == e.done[j]
      <4>1. t \in Txs /\ t.kind = "Transfer" /\ r.done[j] = t /\ j \in DOMAIN e.done
        BY <2>1, <2>5, <3>1
      <4>2. t.nonce < e.nonce[t.from]
        BY <1>1, <4>1 DEF SpentOnce
      <4> HIDE DEF t
      <4> QED
        BY <2>2, <2>3, <4>1, <4>2
    <3>2. CASE j = Len(e.done) + 1
      BY <1>3, <2>1, <2>3, <2>4, <2>5, <3>2
    <3> QED
      BY <2>1, <3>1, <3>2
  <2>6. ASSUME NEW j \in 1 .. Len(e.done), tx.kind = "Transfer" PROVE e.done[j] # tx
    <3>1. e.done[j] = tx => tx.nonce < e.nonce[tx.from]
      BY <1>1, <2>1, <2>6 DEF SpentOnce
    <3> QED
      BY <1>3, <2>2, <2>3, <2>6, <3>1
  <2>7. ASSUME NEW j \in DOMAIN r.done, NEW k \in DOMAIN r.done,
               r.done[j].kind = "Transfer", r.done[j] = r.done[k]
        PROVE  j = k
    <3>1. CASE j \in 1 .. Len(e.done) /\ k \in 1 .. Len(e.done)
      BY <1>1, <2>1, <2>7, <3>1 DEF SpentOnce
    <3>2. CASE j = Len(e.done) + 1 /\ k \in 1 .. Len(e.done)
      BY <2>1, <2>6, <2>7, <3>2
    <3>3. CASE j \in 1 .. Len(e.done) /\ k = Len(e.done) + 1
      BY <2>1, <2>6, <2>7, <3>3
    <3> QED
      BY <2>1, <3>1, <3>2, <3>3
  <2>b. ASSUME NEW j \in DOMAIN r.done PROVE r.done[j].kind # "Ranked"
    <3>1. CASE j \in 1 .. Len(e.done)
      BY <1>1, <2>1, <3>1 DEF SpentOnce
    <3>2. CASE j = Len(e.done) + 1
      BY <1>3, <2>1, <3>2
    <3> QED
      BY <2>1, <3>1, <3>2
  <2>8. SpentOnce(r)
    BY <2>5, <2>7, <2>b DEF SpentOnce
  <2> QED
    BY <1>3, <2>8 DEF Execs, r
<1> QED
  BY <1>1, <1>2, <1>3, ExecuteOne

LEMMA BlockSpends ==
    ASSUME Deployed, NEW e \in Execs, NEW txs \in Seq(Txs)
    PROVE  execute_block(e, txs) \in Execs
<1>1. \A x \in Execs, tx \in Txs : execute_one(x, tx) \in Execs
  BY ExecuteSpends
<1> QED
  BY <1>1, ExecuteBlockIn

(***************************************************************************)
(* Type correctness, and nonces spent once, under every driver             *)
(***************************************************************************)
LEMMA NodesFinite ==
    ASSUME Deployed
    PROVE  IsFiniteSet(Nodes) /\ \A v \in Nat : leader_for_view(v) \in Nodes
<1>1. n \in Nat \ {0} /\ DOMAIN Validators = 1 .. n
  BY DEF Deployed, n
<1>2. [j \in 1 .. n |-> Validators[j]] \in Surjection(1 .. n, Nodes)
  BY <1>1 DEF Nodes, Range, Surjection
<1>3. IsFiniteSet(1 .. n)
  BY <1>1, FS_Interval
<1>4. IsFiniteSet(Nodes)
  BY <1>2, <1>3, FS_Surjection
<1>5. ASSUME NEW v \in Nat PROVE leader_for_view(v) \in Nodes
  <2>1. (v % n) + 1 \in 1 .. n
    BY <1>1
  <2> QED
    BY <1>1, <2>1 DEF leader_for_view, Nodes, Range
<1> QED
  BY <1>4, <1>5

\* A state with some of its fields assigned.
LEMMA EnterViewType ==
    ASSUME NEW s \in HsStates, NEW v \in Views
    PROVE  /\ EnterView(s, v) \in HsStates
           /\ EnterView(s, v).view = v /\ EnterView(s, v).pending = NoBlock
           /\ EnterView(s, v).votes = {}
  BY DEF EnterView, HsStates

LEMMA AppendLast ==
    ASSUME NEW T, NEW s \in Seq(T), NEW x \in T
    PROVE  /\ Append(s, x) \in Seq(T) /\ Append(s, x) # <<>>
           /\ Append(s, x)[Len(Append(s, x))] = x
  OBVIOUS

LEMMA BlockType ==
    ASSUME NEW v \in Views, NEW high \in QCs, NEW txs \in Seq(Txs)
    PROVE  Block(v, high, txs) \in Blocks /\ view_of(Block(v, high, txs)) = v
<1> DEFINE x == [view |-> v, txs |-> txs]
           c == Append(high.block, x)
<1>1. high.block \in Chains /\ x \in [view : Views, txs : Seq(Txs)]
  BY DEF QCs
<1>2. c \in Chains /\ c # <<>> /\ c[Len(c)] = x
  <2> HIDE DEF x
  <2> QED BY <1>1, AppendLast DEF Chains
<1> HIDE DEF c
<1> QED
  BY <1>2 DEF Block, Blocks, view_of, Last, c

LEMMA BlockTail ==
    ASSUME NEW b \in Blocks
    PROVE  view_of(b) \in Views /\ Last(b.chain).txs \in Seq(Txs) /\ b # NoBlock
<1> DEFINE c == b.chain
<1>1. c \in Chains /\ c # <<>>
  BY DEF Blocks
<1>2. c[Len(c)] \in [view : Views, txs : Seq(Txs)]
  <2> DEFINE T == [view : Views, txs : Seq(Txs)]
  <2>1. c \in Seq(T) /\ c # <<>>
    BY <1>1 DEF Chains
  <2> HIDE DEF c, T
  <2>2. Len(c) \in DOMAIN c
    BY <2>1
  <2>3. c[Len(c)] \in T
    BY <2>1, <2>2
  <2> QED
    BY <2>3 DEF c, T
<1>3. b # NoBlock
  BY DEF Blocks, NoBlock
<1> QED
  BY <1>2, <1>3 DEF view_of, Last

LEMMA VoteQCType ==
    ASSUME Deployed, NEW i, hs[i] \in HsStates, NEW m, m.type = "vote", MsgOK(m)
    PROVE  /\ VoteQC(i, m) \in QCs /\ Counted(i, m) \in HsStates
           /\ Counted(i, m).pending = hs[i].pending /\ Counted(i, m).view = hs[i].view
           /\ Counted(i, m).votes = hs[i].votes \cup
                 {[from |-> m.from, phase |-> m.phase, block |-> m.block]}
<1> DEFINE vote == [from |-> m.from, phase |-> m.phase, block |-> m.block]
           Froms == {v.from : v \in {w \in Counted(i, m).votes :
                                       w.block = m.block /\ w.phase = m.phase}}
<1>1. vote \in VoteRecs
  BY DEF MsgOK, ProposalMsg, VoteMsg, NewViewMsg, ViewChangeMsg, VoteRecs
<1> HIDE DEF vote
<1>2. Counted(i, m) = [hs[i] EXCEPT !.tracker = hs[i].tracker \cup {vote},
                                    !.votes = hs[i].votes \cup {vote}]
  BY DEF Counted, vote
<1>3. /\ Counted(i, m) \in HsStates /\ Counted(i, m).votes = hs[i].votes \cup {vote}
      /\ Counted(i, m).pending = hs[i].pending /\ Counted(i, m).view = hs[i].view
      /\ Counted(i, m).votes \in SUBSET VoteRecs /\ hs[i].view \in Views
  <2> DEFINE t == hs[i].tracker \cup {vote}
             w == hs[i].votes \cup {vote}
  <2>1. t \in SUBSET VoteRecs /\ w \in SUBSET VoteRecs /\ hs[i].view \in Views
    BY <1>1 DEF HsStates
  <2> HIDE DEF t, w
  <2>2. Counted(i, m) = [hs[i] EXCEPT !.tracker = t, !.votes = w]
    BY <1>2 DEF t, w
  <2> DEFINE s == hs[i]
             r == [s EXCEPT !.tracker = t, !.votes = w]
  <2>3. s \in HsStates /\ Counted(i, m) = r
    BY <2>2
  <2> HIDE DEF s
  <2>4. r \in HsStates /\ r.votes = w /\ r.pending = s.pending /\ r.view = s.view
    BY <2>1, <2>3 DEF HsStates
  <2> HIDE DEF r
  <2> QED
    BY <2>1, <2>3, <2>4, Zenon DEF w, s
<1>4. Froms \in SUBSET Nodes
  BY <1>3 DEF VoteRecs
<1>5. Cardinality(Froms) \in Nat
  BY <1>4, NodesFinite, FS_Subset, FS_CardinalityType
<1>6. VoteQC(i, m) = [block |-> m.block, view |-> hs[i].view, phase |-> m.phase,
                      signers |-> Cardinality(Froms)]
  BY DEF VoteQC
<1> HIDE DEF Froms
<1>7. m.block \in Chains /\ m.phase \in Phases
  BY <1>1 DEF vote, VoteRecs
<1> QED
  BY <1>3, <1>5, <1>6, <1>7 DEF QCs, vote

\* What a step does to the state of one validator and to the messages.
Moves(i) ==
    /\ \E t \in HsStates : hs' = [hs EXCEPT ![i] = t]
    /\ msgs' = msgs \/ \E x : MsgOK(x) /\ msgs' = msgs \cup {x}

LEMMA SubmitTxMoves ==
    ASSUME HsTypeOK, NEW i \in Nodes, NEW tx \in Txs, SubmitTx(i, tx)
    PROVE  Moves(i)
<1> DEFINE s == hs[i]
           p == Append(s.pool, tx)
           t == [s EXCEPT !.pool = p]
<1>1. s \in HsStates /\ hs' = [hs EXCEPT ![i] = t] /\ msgs' = msgs
  BY DEF SubmitTx, HsTypeOK
<1>2. p \in Seq(Txs)
  <2> HIDE DEF s
  <2> QED BY <1>1 DEF HsStates
<1> HIDE DEF s, p
<1>3. t \in HsStates
  BY <1>1, <1>2 DEF HsStates
<1> HIDE DEF t
<1> QED
  BY <1>1, <1>3 DEF Moves

LEMMA ProposeMoves ==
    ASSUME HsTypeOK, NEW i \in Nodes, Propose(i)
    PROVE  Moves(i)
<1> DEFINE s == hs[i]
           b == Block(s.view, s.high, s.pool)
           p == <<>>
           t == [s EXCEPT !.pool = p, !.pending = b]
<1>1. s \in HsStates /\ p \in Seq(Txs) /\ hs' = [hs EXCEPT ![i] = t]
      /\ msgs' = msgs \cup {ProposalMsg(b, "Prepare")}
  BY DEF Propose, HsTypeOK, ProposalMsg
<1> HIDE DEF s
<1>2. b \in Blocks
  BY <1>1, BlockType DEF HsStates
<1> HIDE DEF b, p
<1>3. t \in HsStates
  BY <1>1, <1>2 DEF HsStates
<1> HIDE DEF t
<1>4. MsgOK(ProposalMsg(b, "Prepare"))
  BY <1>2 DEF MsgOK, Phases
<1> QED
  BY <1>1, <1>3, <1>4 DEF Moves

\* The four kinds of messages, told apart by their type.
LEMMA MsgKinds ==
    ASSUME NEW m, MsgOK(m)
    PROVE  /\ m.type = "proposal" => /\ m.block \in Blocks /\ m.phase \in Phases
                                    /\ m = ProposalMsg(m.block, m.phase)
           /\ m.type = "vote" => /\ m.block \in Chains /\ m.view \in Views
                                /\ m.phase \in Phases /\ m.from \in Nodes
                                /\ m = VoteMsg(m.block, m.view, m.phase, m.from)
           /\ m.type = "newview" => m.view \in Views /\ m.qc \in QCs
           /\ m.type = "viewchange" => m.view \in Views /\ m.qc \in QCs /\ m.from \in Nodes
  BY DEF MsgOK, ProposalMsg, VoteMsg, NewViewMsg, ViewChangeMsg

\* The state of a validator that accepts a proposal.
Accepted(i, m) ==
    [hs[i] EXCEPT !.pending = m.block,
        !.locked = IF m.phase = "PreCommit"
                   THEN [m.block.justify EXCEPT !.block = m.block.chain, !.view = hs[i].view]
                   ELSE @]

LEMMA AcceptedType ==
    ASSUME NEW i, hs[i] \in HsStates, NEW m, m.block \in Blocks
    PROVE  /\ Accepted(i, m) \in HsStates
           /\ Accepted(i, m).pending = m.block /\ Accepted(i, m).view = hs[i].view
           /\ Accepted(i, m).votes = hs[i].votes
<1> DEFINE s == hs[i]
           b == m.block
           l == IF m.phase = "PreCommit"
                THEN [b.justify EXCEPT !.block = b.chain, !.view = s.view] ELSE s.locked
           t == [s EXCEPT !.pending = b, !.locked = l]
<1>1. s \in HsStates /\ b \in Blocks /\ s.view \in Views /\ s.locked \in QCs
  BY DEF HsStates
<1>2. b.justify \in QCs /\ b.chain \in Chains
  BY <1>1 DEF Blocks
<1>3. l \in QCs
  <2> HIDE DEF s, b
  <2> QED BY <1>1, <1>2 DEF QCs
<1>4. Accepted(i, m) = t
  BY DEF Accepted
<1> HIDE DEF s, b, l
<1>5. t \in HsStates /\ t.pending = b /\ t.view = s.view /\ t.votes = s.votes
  BY <1>1, <1>3 DEF HsStates
<1> HIDE DEF t
<1> QED
  BY <1>4, <1>5 DEF s, b

LEMMA OnProposalMoves ==
    ASSUME Deployed, HsTypeOK, NEW i \in Nodes, NEW m \in msgs, OnProposal(i, m)
    PROVE  Moves(i)
<1> DEFINE a == Accepted(i, m)
           e == EnterView(a, hs[i].view + 1)
           t == IF m.phase = "Commit" /\ ~is_leader(i) THEN [e EXCEPT !.vc = {}] ELSE a
           x == VoteMsg(m.block.chain, hs[i].view, m.phase, i)
<1>1. hs[i] \in HsStates /\ m.block \in Blocks /\ m.phase \in Phases
  BY MsgKinds DEF HsTypeOK, OnProposal, Accepts
<1>2. /\ hs' = [hs EXCEPT ![i] = t] /\ msgs' = msgs \cup {x}
      /\ hs[i].view < MaxView \/ m.phase # "Commit"
  BY DEF OnProposal, Accepted, VoteMsg
<1>3. a \in HsStates
  BY <1>1, AcceptedType
<1>4. hs[i].view \in Views /\ m.block.chain \in Chains
  BY <1>1 DEF HsStates, Blocks
<1>5. MsgOK(x)
  BY <1>1, <1>4 DEF MsgOK
<1>6. t \in HsStates
  <2>1. CASE m.phase = "Commit" /\ ~is_leader(i)
    <3>1. hs[i].view + 1 \in Views
      BY <1>2, <1>4, <2>1 DEF Views, Deployed
    <3>2. e \in HsStates
      <4> HIDE DEF a
      <4> QED BY <1>3, <3>1, EnterViewType
    <3> HIDE DEF e
    <3>3. [e EXCEPT !.vc = {}] \in HsStates
      BY <3>2 DEF HsStates
    <3> QED
      BY <2>1, <3>3
  <2>2. CASE ~(m.phase = "Commit" /\ ~is_leader(i))
    BY <1>3, <2>2
  <2> QED
    BY <2>1, <2>2
<1> HIDE DEF t, x
<1> QED
  BY <1>2, <1>5, <1>6 DEF Moves

LEMMA OnVoteMoves ==
    ASSUME Deployed, HsTypeOK, NEW i \in Nodes, NEW m \in msgs, OnVote(i, m)
    PROVE  Moves(i)
<1>1. hs[i] \in HsStates /\ MsgOK(m) /\ m.type = "vote"
  BY DEF HsTypeOK, OnVote, Counts
<1> QED
  BY <1>1, VoteQCType DEF OnVote, Moves

LEMMA OnQuorumMoves ==
    ASSUME Deployed, HsTypeOK, NEW i \in Nodes, NEW m \in msgs, OnQuorum(i, m)
    PROVE  Moves(i)
<1> DEFINE s == Counted(i, m)
           qc == VoteQC(i, m)
           l == IF m.phase = "PreCommit" THEN qc ELSE s.locked
           w == {}
           t == [s EXCEPT !.votes = w, !.high = qc, !.locked = l]
           x == ProposalMsg(s.pending, NextPhase(m.phase))
<1>1. hs[i] \in HsStates /\ MsgOK(m) /\ m.type = "vote"
  BY DEF HsTypeOK, OnQuorum, Counts
<1>2. /\ hs' = [hs EXCEPT ![i] = t]
      /\ msgs' = msgs \cup Broadcast(s.pending, NextPhase(m.phase))
  BY DEF OnQuorum
<1>3. qc \in QCs /\ s \in HsStates /\ w \in SUBSET VoteRecs
  BY <1>1, VoteQCType
<1> HIDE DEF s, qc, w
<1>4. l \in QCs /\ s.pending \in Blocks \cup {NoBlock}
  BY <1>3 DEF HsStates
<1> HIDE DEF l
<1>5. t \in HsStates
  BY <1>3, <1>4 DEF HsStates
<1> HIDE DEF t
<1>6. CASE s.pending = NoBlock
  BY <1>2, <1>5, <1>6 DEF Moves, Broadcast
<1>7. CASE s.pending \in Blocks /\ s.pending # NoBlock
  <2>1. MsgOK(x)
    BY <1>7 DEF MsgOK, NextPhase, Phases
  <2>2. msgs' = msgs \cup {x}
    BY <1>2, <1>7 DEF Broadcast, ProposalMsg
  <2> HIDE DEF x
  <2> QED
    BY <1>2, <1>5, <2>1, <2>2 DEF Moves
<1> QED
  BY <1>4, <1>6, <1>7

LEMMA OnDecideMoves ==
    ASSUME Deployed, HsTypeOK, NEW i \in Nodes, NEW m \in msgs, OnDecide(i, m)
    PROVE  Moves(i)
<1> DEFINE s == hs[i]
           qc == VoteQC(i, m)
           txs == IF s.pending = NoBlock THEN <<>> ELSE Last(s.pending.chain).txs
           e == EnterView(s, s.view + 1)
           c == {}
           d == execute_block(e.exec, txs)
           t == [e EXCEPT !.high = qc, !.locked = qc, !.vc = c, !.exec = d]
           x == NewViewMsg(s.view + 1, qc)
<1>1. s \in HsStates /\ MsgOK(m) /\ m.type = "vote"
  BY DEF HsTypeOK, OnDecide, Counts
<1>2. /\ hs' = [hs EXCEPT ![i] = t] /\ msgs' = msgs \cup {x} /\ s.view < MaxView
  BY DEF OnDecide, NewViewMsg
<1>3. qc \in QCs
  BY <1>1, VoteQCType
<1> HIDE DEF s, qc
<1>4. s.view + 1 \in Views /\ s.pending \in Blocks \cup {NoBlock}
  BY <1>1, <1>2 DEF HsStates, Deployed, Views
<1>5. txs \in Seq(Txs)
  BY <1>4, BlockTail
<1>6. e \in HsStates
  BY <1>1, <1>4, EnterViewType
<1> HIDE DEF e, txs
<1>7. d \in Execs /\ c \in SUBSET VcEntries
  BY <1>5, <1>6, BlockSpends DEF HsStates
<1> HIDE DEF d, c
<1>8. t \in HsStates
  BY <1>3, <1>6, <1>7 DEF HsStates
<1>9. MsgOK(x)
  BY <1>3, <1>4 DEF MsgOK
<1> HIDE DEF t, x
<1> QED
  BY <1>2, <1>8, <1>9 DEF Moves

LEMMA OnNewViewMoves ==
    ASSUME HsTypeOK, NEW i \in Nodes, NEW m \in msgs, OnNewView(i, m)
    PROVE  Moves(i)
<1> DEFINE h == IF m.qc.view > hs[i].high.view THEN m.qc ELSE hs[i].high
           s == [hs[i] EXCEPT !.high = h]
           t == IF m.view > s.view THEN EnterView(s, m.view) ELSE s
<1>1. hs[i] \in HsStates /\ m.qc \in QCs /\ m.view \in Views
  BY MsgKinds DEF HsTypeOK, OnNewView
<1>2. hs' = [hs EXCEPT ![i] = t] /\ msgs' = msgs
  BY DEF OnNewView
<1>3. h \in QCs
  BY <1>1 DEF HsStates
<1> HIDE DEF h
<1>4. s \in HsStates
  BY <1>1, <1>3 DEF HsStates
<1> HIDE DEF s
<1>5. t \in HsStates
  BY <1>1, <1>4, EnterViewType
<1> HIDE DEF t
<1> QED
  BY <1>2, <1>5 DEF Moves

LEMMA TickMoves ==
    ASSUME Deployed, HsTypeOK, NEW i \in Nodes, Tick(i)
    PROVE  Moves(i)
<1> DEFINE x == ViewChangeMsg(hs[i].view + 1, i, hs[i].high)
<1>1. hs \in [Nodes -> HsStates] /\ hs[i] \in HsStates
  BY DEF HsTypeOK
<1>2. hs' = hs /\ msgs' = msgs \cup {x} /\ hs[i].view < MaxView
  BY DEF Tick, ViewChangeMsg
<1>3. hs[i].view + 1 \in Views /\ hs[i].high \in QCs
  BY <1>1, <1>2 DEF HsStates, Views, Deployed
<1>4. MsgOK(x)
  BY <1>3 DEF MsgOK
<1> HIDE DEF x
<1>5. hs' = [hs EXCEPT ![i] = hs[i]]
  BY <1>1, <1>2
<1> QED
  BY <1>1, <1>2, <1>4, <1>5 DEF Moves

LEMMA OnViewChangeMoves ==
    ASSUME HsTypeOK, NEW i \in Nodes, NEW m \in msgs, OnViewChange(i, m)
    PROVE  Moves(i)
<1> DEFINE s == hs[i]
           entries == {e \in s.vc : e.view = m.view} \cup
                          {[view |-> m.view, from |-> m.from, qc |-> m.qc]}
<1>1. s \in HsStates /\ m.view \in Views /\ m.qc \in QCs /\ m.from \in Nodes /\ msgs' = msgs
  BY MsgKinds DEF HsTypeOK, OnViewChange
<1>2. entries \in SUBSET VcEntries
  <2>1. s.vc \in SUBSET VcEntries
    BY <1>1 DEF HsStates
  <2>2. [view |-> m.view, from |-> m.from, qc |-> m.qc] \in VcEntries
    BY <1>1 DEF VcEntries
  <2> QED
    BY <2>1, <2>2
<1>3. \/ hs' = [hs EXCEPT ![i] = [s EXCEPT !.vc = s.vc \cup entries]]
      \/ \E qc \in {e.qc : e \in entries} :
            LET e == EnterView(s, m.view) IN
            hs' = [hs EXCEPT ![i] = [e EXCEPT !.vc = {},
                                        !.high = IF qc.view > e.high.view THEN qc ELSE e.high]]
  BY DEF OnViewChange
<1> HIDE DEF s, entries
<1>4. CASE hs' = [hs EXCEPT ![i] = [s EXCEPT !.vc = s.vc \cup entries]]
  <2> DEFINE c == s.vc \cup entries
             t == [s EXCEPT !.vc = c]
  <2>1. c \in SUBSET VcEntries
    BY <1>1, <1>2 DEF HsStates
  <2> HIDE DEF c
  <2>2. t \in HsStates
    BY <1>1, <2>1 DEF HsStates
  <2>3. hs' = [hs EXCEPT ![i] = t]
    BY <1>4 DEF c
  <2> HIDE DEF t
  <2> QED
    BY <1>1, <2>2, <2>3 DEF Moves
<1>5. ASSUME NEW qc \in {e.qc : e \in entries},
             LET e == EnterView(s, m.view) IN
             hs' = [hs EXCEPT ![i] = [e EXCEPT !.vc = {},
                                        !.high = IF qc.view > e.high.view THEN qc ELSE e.high]]
      PROVE  Moves(i)
  <2> DEFINE e == EnterView(s, m.view)
             c == {}
             h == IF qc.view > e.high.view THEN qc ELSE e.high
             t == [e EXCEPT !.vc = c, !.high = h]
  <2>1. hs' = [hs EXCEPT ![i] = t] /\ c \in SUBSET VcEntries
    BY <1>5
  <2>2. qc \in QCs
    BY <1>2 DEF VcEntries
  <2>3. e \in HsStates
    BY <1>1, EnterViewType
  <2> HIDE DEF e, c
  <2>4. h \in QCs
    BY <2>2, <2>3 DEF HsStates
  <2> HIDE DEF h
  <2>5. t \in HsStates
    BY <2>1, <2>3, <2>4 DEF HsStates
  <2> HIDE DEF t
  <2> QED
    BY <1>1, <2>1, <2>5 DEF Moves
<1> QED
  BY <1>3, <1>4, <1>5

\* The branch of propose_checkpoint at a validator that does not lead moves as
\* SubmitTx does, the branch at the leader as Propose does.
LEMMA ProposeCheckpointMoves ==
    ASSUME HsTypeOK, NEW i \in Nodes, NEW tx \in Txs, ProposeCheckpoint(i, tx)
    PROVE  Moves(i) /\ BridgeOK'
<1> DEFINE s == hs[i]
           p == Append(s.pool, tx)
           z == <<>>
           b == Block(s.view, s.high, p)
           m == ProposalMsg(b, "Prepare")
           t == [s EXCEPT !.pool = z, !.pending = b]
           u == [s EXCEPT !.pool = p]
<1>1. s \in HsStates /\ z \in Seq(Txs)
  BY DEF HsTypeOK
<1>2. \/ /\ hs' = [hs EXCEPT ![i] = t] /\ msgs' = msgs \cup {m}
         /\ bridge' = [bridge EXCEPT !.tx = tx, !.queue = <<m>>]
      \/ /\ hs' = [hs EXCEPT ![i] = u] /\ msgs' = msgs /\ bridge' = bridge
  BY DEF ProposeCheckpoint, ProposalMsg
<1> HIDE DEF s, z
<1>3. p \in Seq(Txs)
  BY <1>1 DEF HsStates
<1> HIDE DEF p
<1>4. b \in Blocks
  BY <1>1, <1>3, BlockType DEF HsStates
<1>5. MsgOK(m)
  BY <1>4 DEF MsgOK, Phases
<1> HIDE DEF b, m
<1>6. t \in HsStates /\ u \in HsStates
  BY <1>1, <1>3, <1>4 DEF HsStates
<1> HIDE DEF t, u
<1>7. Moves(i)
  BY <1>2, <1>5, <1>6 DEF Moves
<1>8. BridgeOK'
  <2> DEFINE q == <<m>>
             B(M) == [tx : Asked, queue : Seq(M), returned : SUBSET [tx : Asked, qc : QCs]]
  <2>1. CASE msgs' = msgs /\ bridge' = bridge
    BY <2>1 DEF HsTypeOK, BridgeOK
  <2>2. CASE msgs' = msgs \cup {m} /\ bridge' = [bridge EXCEPT !.tx = tx, !.queue = <<m>>]
    <3>1. q \in Seq(msgs') /\ tx \in Asked
      BY <2>2 DEF Asked
    <3>2. bridge' = [bridge EXCEPT !.tx = tx, !.queue = q]
      BY <2>2
    <3>3. bridge \in B(msgs)
      BY DEF HsTypeOK, BridgeOK
    <3> HIDE DEF q
    <3> QED
      BY <3>1, <3>2, <3>3 DEF BridgeOK
  <2> QED
    BY <1>2, <2>1, <2>2
<1> QED
  BY <1>7, <1>8

LEMMA MovesType ==
    ASSUME HsTypeOK, NEW i \in Nodes, Moves(i)
    PROVE  /\ hs' \in [Nodes -> HsStates] /\ hs'[i] \in HsStates
           /\ \A m \in msgs' : MsgOK(m)
           /\ msgs \subseteq msgs' /\ \E x : msgs' \ msgs \in {{}, {x}}
<1>1. PICK t \in HsStates : hs' = [hs EXCEPT ![i] = t]
  BY DEF Moves
<1>2. hs' \in [Nodes -> HsStates] /\ hs'[i] \in HsStates
  BY <1>1 DEF HsTypeOK
<1>3. CASE msgs' = msgs
  BY <1>2, <1>3 DEF HsTypeOK
<1>4. CASE \E x : MsgOK(x) /\ msgs' = msgs \cup {x}
  <2>1. PICK x : MsgOK(x) /\ msgs' = msgs \cup {x}
    BY <1>4
  <2>2. \A m \in msgs' : MsgOK(m)
    BY <2>1 DEF HsTypeOK
  <2>3. msgs' \ msgs \in {{}, {x}} /\ msgs \subseteq msgs'
    BY <2>1
  <2> QED
    BY <1>2, <2>2, <2>3
<1> QED
  BY <1>3, <1>4 DEF Moves

\* The order of at most one new message.
LEMMA FewToSeq ==
    ASSUME NEW S, NEW x, S = {} \/ S = {x}
    PROVE  SetToSeq(S) \in Seq(S)
<1>1. CASE S = {}
  <2>1. Cardinality(S) = 0
    BY <1>1, FS_EmptySet
  <2>2. <<>> \in [1 .. 0 -> S] /\ IsInjective(<<>>)
    BY DEF IsInjective
  <2>3. SetToSeq(S) \in [1 .. 0 -> S]
    BY <2>1, <2>2 DEF SetToSeq
  <2> QED
    BY <2>3
<1>2. CASE S = {x}
  <2>1. Cardinality(S) = 1
    BY <1>2, FS_Singleton
  <2>2. [j \in 1 .. 1 |-> x] \in [1 .. 1 -> S] /\ IsInjective([j \in 1 .. 1 |-> x])
    BY <1>2 DEF IsInjective
  <2> DEFINE q == SetToSeq(S)
  <2>3. q \in [1 .. 1 -> S]
    BY <2>1, <2>2 DEF SetToSeq
  <2> HIDE DEF q
  <2>4. q = [j \in 1 .. 1 |-> x]
    BY <1>2, <2>3
  <2>5. [j \in 1 .. 1 |-> x] = <<x>>
    OBVIOUS
  <2> QED
    BY <1>2, <2>4, <2>5 DEF q
<1> QED
  BY <1>1, <1>2

LEMMA DriveToCommitType ==
    ASSUME Deployed, HsTypeOK, NEW i \in Nodes, DriveToCommit(i)
    PROVE  HsTypeOK'
<1> DEFINE m == Head(bridge.queue)
           B(M) == [tx : Asked, queue : Seq(M), returned : SUBSET [tx : Asked, qc : QCs]]
<1>1. /\ bridge \in B(msgs) /\ bridge.queue \in Seq(msgs) /\ bridge.queue # <<>>
      /\ Tail(bridge.queue) \in Seq(msgs) /\ m \in msgs
  BY HeadTailProperties DEF HsTypeOK, BridgeOK, DriveToCommit
<1>2. CASE /\ OnProposal(i, m) \/ OnVote(i, m) \/ OnQuorum(i, m)
           /\ bridge' = [bridge EXCEPT !.queue = Tail(bridge.queue) \o SetToSeq(msgs' \ msgs)]
  <2> DEFINE q == Tail(bridge.queue) \o SetToSeq(msgs' \ msgs)
  <2>1. Moves(i)
    BY <1>1, <1>2, OnProposalMoves, OnVoteMoves, OnQuorumMoves
  <2>2. /\ hs' \in [Nodes -> HsStates] /\ \A x \in msgs' : MsgOK(x)
        /\ msgs \subseteq msgs' /\ \E x : msgs' \ msgs \in {{}, {x}}
    BY <2>1, MovesType
  <2>3. SetToSeq(msgs' \ msgs) \in Seq(msgs' \ msgs)
    <3>1. PICK x : msgs' \ msgs \in {{}, {x}}
      BY <2>2
    <3> DEFINE S == msgs' \ msgs
    <3>a. S = {} \/ S = {x}
      BY <3>1
    <3> HIDE DEF S
    <3>2. SetToSeq(S) \in Seq(S)
      BY <3>a, FewToSeq
    <3> QED
      BY <3>2 DEF S
  <2>4. SetToSeq(msgs' \ msgs) \in Seq(msgs') /\ Tail(bridge.queue) \in Seq(msgs')
    BY <1>1, <2>2, <2>3, SeqMonotonic
  <2>5. q \in Seq(msgs')
    BY <2>4, ConcatProperties
  <2>6. bridge' = [bridge EXCEPT !.queue = q]
    BY <1>2
  <2> HIDE DEF q
  <2>7. bridge' \in B(msgs')
    BY <1>1, <2>5, <2>6
  <2> QED
    BY <2>2, <2>7 DEF HsTypeOK, BridgeOK
<1>3. CASE bridge' = [bridge EXCEPT !.queue = Tail(bridge.queue) \o <<>>] /\ UNCHANGED <<hs, msgs>>
  <2> DEFINE q == Tail(bridge.queue) \o <<>>
  <2>1. q \in Seq(msgs) /\ bridge' = [bridge EXCEPT !.queue = q]
    BY <1>1, <1>3
  <2> HIDE DEF q
  <2>2. bridge' \in B(msgs)
    BY <1>1, <2>1
  <2> QED
    BY <1>3, <2>2 DEF HsTypeOK, BridgeOK
<1>4. CASE /\ OnDecide(i, m)
           /\ bridge' = [bridge EXCEPT !.queue = <<>>,
                  !.returned = bridge.returned \cup {[tx |-> bridge.tx, qc |-> hs'[i].high]}]
  <2> DEFINE q == <<>>
             c == [tx |-> bridge.tx, qc |-> hs'[i].high]
             r == bridge.returned \cup {c}
  <2>1. /\ hs' \in [Nodes -> HsStates] /\ hs'[i] \in HsStates
        /\ \A x \in msgs' : MsgOK(x)
    BY <1>1, <1>4, OnDecideMoves, MovesType
  <2>2. q \in Seq(msgs') /\ hs'[i].high \in QCs
    BY <2>1 DEF HsStates
  <2>3. c \in [tx : Asked, qc : QCs]
    BY <1>1, <2>2
  <2>4. r \in SUBSET [tx : Asked, qc : QCs]
    <3> HIDE DEF c
    <3> QED BY <1>1, <2>3
  <2>5. bridge' = [bridge EXCEPT !.queue = q, !.returned = r]
    BY <1>4
  <2> HIDE DEF q, r
  <2>6. bridge' \in B(msgs')
    BY <1>1, <2>2, <2>4, <2>5
  <2> QED
    BY <2>1, <2>6 DEF HsTypeOK, BridgeOK
<1> QED
  BY <1>2, <1>3, <1>4 DEF DriveToCommit

LEMMA HsTypeInit ==
    ASSUME Deployed, HsInit
    PROVE  HsTypeOK
<1> DEFINE e == [bal |-> [a \in Accounts |-> IF a = 0 THEN 0 ELSE InitBalance],
                 nonce |-> [a \in Accounts |-> 0], done |-> <<>>]
           c == Genesis
           p == <<>>
           z == {}
<1>1. GenesisQC \in QCs
  <2>1. c \in Chains /\ 0 \in Views
    BY DEF Genesis, Chains, Views, Deployed
  <2> HIDE DEF c
  <2>2. GenesisQC = [block |-> c, view |-> 0, phase |-> "Prepare", signers |-> 0]
    BY DEF GenesisQC, c
  <2> QED
    BY <2>1, <2>2 DEF QCs, Phases
<1>2. e \in Execs
  <2>1. e \in ExecType
    BY DEF ExecType, Deployed
  <2>2. DOMAIN e.done = {}
    OBVIOUS
  <2> QED
    BY <2>1, <2>2 DEF Execs, SpentOnce
<1>3. p \in Seq(Txs) /\ p \in Seq(msgs) /\ 0 \in Views
      /\ z \in SUBSET VoteRecs /\ z \in SUBSET VcEntries
      /\ z \in SUBSET [tx : Asked, qc : QCs] /\ NoTx \in Asked
  BY DEF Views, Deployed, Asked
<1>4. Fresh = [view |-> 0, high |-> GenesisQC, locked |-> GenesisQC, pending |-> NoBlock,
               votes |-> z, tracker |-> z, pool |-> p, vc |-> z, exec |-> e]
  BY DEF Fresh
<1>5. hs = [i \in Nodes |-> Fresh] /\ msgs = {}
      /\ bridge = [tx |-> NoTx, queue |-> p, returned |-> z]
  BY DEF HsInit
<1> HIDE DEF e, p, z
<1>6. Fresh \in HsStates
  BY <1>1, <1>2, <1>3, <1>4 DEF HsStates
<1>7. BridgeOK
  BY <1>3, <1>5 DEF BridgeOK
<1> QED
  BY <1>5, <1>6, <1>7 DEF HsTypeOK

LEMMA HsTypeStep ==
    ASSUME Deployed, HsTypeOK, [HsNext]_hsVars
    PROVE  HsTypeOK'
<1>1. CASE UNCHANGED hsVars
  BY <1>1 DEF hsVars, HsTypeOK, BridgeOK
<1>2. CASE NetworkStep /\ UNCHANGED bridge
  <2>1. \E i \in Nodes : Moves(i)
    <3>1. Live \subseteq Nodes
      BY DEF Live
    <3> QED
      BY <1>2, <3>1, SubmitTxMoves, ProposeMoves, OnProposalMoves, OnVoteMoves, OnQuorumMoves,
         OnDecideMoves, OnNewViewMoves, TickMoves, OnViewChangeMoves DEF NetworkStep
  <2>2. /\ hs' \in [Nodes -> HsStates] /\ msgs \subseteq msgs'
        /\ \A m \in msgs' : MsgOK(m)
    BY <2>1, MovesType
  <2>3. BridgeOK'
    <3>1. bridge \in [tx : Asked, queue : Seq(msgs), returned : SUBSET [tx : Asked, qc : QCs]]
      BY DEF HsTypeOK, BridgeOK
    <3>2. ASSUME NEW q \in Seq(msgs) PROVE q \in Seq(msgs')
      BY <2>2, SeqMonotonic
    <3> QED
      BY <1>2, <3>1, <3>2 DEF BridgeOK
  <2> QED
    BY <2>2, <2>3 DEF HsTypeOK
<1>3. CASE BridgeStep
  <2>1. Validators[1] \in Nodes
    BY DEF Deployed, Nodes, Range
  <2>2. CASE \E tx \in Txs : ProposeCheckpoint(Validators[1], tx)
    <3>1. Moves(Validators[1]) /\ BridgeOK'
      BY <2>1, <2>2, ProposeCheckpointMoves
    <3> QED
      BY <2>1, <3>1, MovesType DEF HsTypeOK
  <2>3. CASE DriveToCommit(Validators[1])
    BY <2>1, <2>3, DriveToCommitType
  <2> QED
    BY <1>3, <2>2, <2>3 DEF BridgeStep
<1> QED
  BY <1>1, <1>2, <1>3 DEF HsNext

\* Under every driver and for every number of validators, the state of each
\* validator, every message and the queue of the bridge keep their types.
THEOREM HotStuffTyped ==
    ASSUME Deployed
    PROVE  HsSpec => []HsTypeOK
<1>1. HsInit => HsTypeOK
  BY HsTypeInit
<1>2. HsTypeOK /\ [HsNext]_hsVars => HsTypeOK'
  BY HsTypeStep
<1> QED
  BY <1>1, <1>2, PTL DEF HsSpec

\* A transfer takes effect at most once in every executor, under every driver,
\* however views go back and blocks are decided again: its nonce is spent with
\* it (executor.rs: execute_one).  Bids carry no nonce, so the statement is
\* about pools without them.
THEOREM TransfersOnce ==
    ASSUME Deployed, \A tx \in Txs : tx.kind # "AuctionBid"
    PROVE  HsSpec => []ExecutedOnce
<1>1. ASSUME HsTypeOK PROVE ExecutedOnce
  <2>1. ASSUME NEW i \in Nodes, NEW j \in DOMAIN hs[i].exec.done,
               NEW k \in DOMAIN hs[i].exec.done,
               hs[i].exec.done[j] = hs[i].exec.done[k]
        PROVE  j = k
    <3> DEFINE e == hs[i].exec
    <3>1. hs[i] \in HsStates
      BY <1>1 DEF HsTypeOK
    <3>2. e \in ExecType /\ SpentOnce(e)
      BY <3>1 DEF HsStates, Execs
    <3> HIDE DEF e
    <3>3. j \in DOMAIN e.done /\ k \in DOMAIN e.done /\ e.done[j] = e.done[k]
      BY <2>1 DEF e
    <3>4. e.done[j] \in Txs /\ e.done[j].kind # "Ranked"
      BY <3>2, <3>3 DEF ExecType, SpentOnce
    <3>5. e.done[j].kind = "Transfer"
      BY <3>4 DEF Deployed, TxType
    <3> QED
      BY <3>2, <3>3, <3>5 DEF SpentOnce
  <2> QED
    BY <2>1 DEF ExecutedOnce
<1> QED
  BY <1>1, HotStuffTyped, PTL

(***************************************************************************)
(* Certified decisions, when the harness drives                            *)
(*                                                                         *)
(* A proposal is accepted when its proposer leads the view the validator   *)
(* is in, so the statement is about the first round of leaders: MaxView is *)
(* below the number of validators.                                         *)
(***************************************************************************)
Proposed(b, p) == ProposalMsg(b, p) \in msgs
Known(b) == \E p \in Phases : Proposed(b, p)

\* A quorum of validators has sent its vote.
Backed(c, v, p) ==
    \E Q \in SUBSET Nodes : /\ Cardinality(Q) >= quorum_size
                            /\ \A x \in Q : VoteMsg(c, v, p, x) \in msgs

\* A view has one block,
OneBlock == \A b, c \in Blocks : Known(b) /\ Known(c) /\ view_of(b) = view_of(c) => b = c

\* which is what a validator in the view has pending, if anything,
PendingKnown ==
    \A i \in Nodes : hs[i].pending # NoBlock =>
        Known(hs[i].pending) /\ view_of(hs[i].pending) = hs[i].view

\* and which its proposer holds until it leaves the view.
ProposerHolds ==
    \A b \in Blocks : Known(b) =>
        \/ hs[proposer(b)].view > view_of(b)
        \/ hs[proposer(b)].view = view_of(b) /\ hs[proposer(b)].pending = b

\* Votes are for blocks proposed in that phase and view, and a leader counts
\* votes that were sent.
VotesJustified ==
    \A c \in Chains, v \in Views, p \in Phases, x \in Nodes : VoteMsg(c, v, p, x) \in msgs =>
        \E b \in Blocks : b.chain = c /\ view_of(b) = v /\ Proposed(b, p)
CountedSent ==
    \A i \in Nodes : \A w \in hs[i].votes : VoteMsg(w.block, hs[i].view, w.phase, w.from) \in msgs

\* A phase is announced once a quorum has voted in the one before.
PhasesBacked ==
    \A b \in Blocks :
        /\ Proposed(b, "PreCommit") => Backed(b.chain, view_of(b), "Prepare")
        /\ Proposed(b, "Commit") => Backed(b.chain, view_of(b), "PreCommit")

DecidedBacked ==
    \A d \in decided :
        /\ \E b \in Blocks : Known(b) /\ b.chain = d.block /\ view_of(b) = d.view
        /\ \A p \in Phases : Backed(d.block, d.view, p)

NoTimeouts == \A m \in msgs : m.type # "viewchange"

CertInv ==
    /\ HsTypeOK
    /\ OneBlock /\ PendingKnown /\ ProposerHolds
    /\ VotesJustified /\ CountedSent
    /\ PhasesBacked /\ DecidedBacked
    /\ NoTimeouts

FirstRound == Deployed /\ Driver = "harness" /\ MaxView < n

LEMMA LeaderOnce ==
    ASSUME FirstRound, NEW u \in Views, NEW v \in Views, leader_for_view(u) = leader_for_view(v)
    PROVE  u = v
<1>1. n \in Nat \ {0} /\ u \in 0 .. (n - 1) /\ v \in 0 .. (n - 1)
  BY DEF FirstRound, Deployed, Views, n
<1>2. u % n = u /\ v % n = v
  BY <1>1
<1> QED
  BY <1>1, <1>2 DEF FirstRound, Deployed, leader_for_view, n

LEMMA SomeVote ==
    ASSUME Deployed, NEW c, NEW v, NEW p, Backed(c, v, p)
    PROVE  \E x \in Nodes : VoteMsg(c, v, p, x) \in msgs
<1>1. PICK Q \in SUBSET Nodes : /\ Cardinality(Q) >= quorum_size
                                /\ \A x \in Q : VoteMsg(c, v, p, x) \in msgs
  BY DEF Backed
<1>2. n \in Nat \ {0}
  BY DEF Deployed, n
<1>3. quorum_size > 0 /\ quorum_size \in Nat
  BY <1>2 DEF quorum_size, f
<1>4. Q # {}
  BY <1>1, <1>3, FS_EmptySet
<1> QED
  BY <1>1, <1>4

LEMMA BackedKept ==
    ASSUME msgs \subseteq msgs', NEW c, NEW v, NEW p, Backed(c, v, p)
    PROVE  Backed(c, v, p)'
  BY DEF Backed

\* The votes a leader counts to the quorum were sent by a quorum.
LEMMA QuorumBacked ==
    ASSUME FirstRound, CertInv, NEW i \in Nodes, NEW m \in msgs, Counts(i, m),
           has_quorum(VoteQC(i, m))
    PROVE  Backed(m.block, hs[i].view, m.phase)
<1> DEFINE vote == [from |-> m.from, phase |-> m.phase, block |-> m.block]
           Q == {v.from : v \in {w \in Counted(i, m).votes :
                                    w.block = m.block /\ w.phase = m.phase}}
<1>1. /\ hs[i] \in HsStates /\ MsgOK(m) /\ m.type = "vote" /\ m.view = hs[i].view
      /\ m = VoteMsg(m.block, m.view, m.phase, m.from) /\ m.from \in Nodes
  BY MsgKinds DEF CertInv, HsTypeOK, Counts
<1>2. Counted(i, m).votes = hs[i].votes \cup {vote} /\ hs[i].votes \in SUBSET VoteRecs
  BY <1>1, VoteQCType DEF FirstRound, HsStates
<1>3. ASSUME NEW x \in Q PROVE x \in Nodes /\ VoteMsg(m.block, hs[i].view, m.phase, x) \in msgs
  <2>1. PICK w \in hs[i].votes \cup {vote} : /\ w.block = m.block /\ w.phase = m.phase
                                             /\ x = w.from
    BY <1>2, <1>3
  <2>2. CASE w \in hs[i].votes
    BY <1>2, <2>1, <2>2 DEF CertInv, CountedSent, VoteRecs
  <2>3. CASE w = vote
    BY <1>1, <2>1, <2>3
  <2> QED
    BY <2>1, <2>2, <2>3
<1>4. Cardinality(Q) >= quorum_size
  BY DEF has_quorum, VoteQC
<1> HIDE DEF Q
<1> QED
  BY <1>3, <1>4 DEF Backed

\* What the steps that propose no new block have in common.
LEMMA Carry ==
    ASSUME FirstRound, CertInv, NEW i \in Nodes, NEW t \in HsStates,
           hs' = [hs EXCEPT ![i] = t], msgs \subseteq msgs',
           \A b \in Blocks : Known(b)' => Known(b),
           \/ t.view > hs[i].view /\ t.pending = NoBlock
           \/ /\ t.view = hs[i].view
              /\ \/ t.pending = hs[i].pending
                 \/ t.pending \in Blocks /\ Known(t.pending) /\ view_of(t.pending) = t.view,
           \A w \in t.votes : VoteMsg(w.block, t.view, w.phase, w.from) \in msgs'
    PROVE  OneBlock' /\ PendingKnown' /\ ProposerHolds' /\ CountedSent'
<1>0. /\ hs \in [Nodes -> HsStates] /\ hs[i] \in HsStates /\ hs'[i] = t
      /\ \A j \in Nodes : j # i => hs'[j] = hs[j]
      /\ \A j \in Nodes : hs[j].view \in Nat /\ hs[j].pending \in Blocks \cup {NoBlock}
      /\ t.view \in Nat
  BY DEF CertInv, HsTypeOK, HsStates, Views
<1>1. OneBlock'
  BY DEF CertInv, OneBlock, view_of
<1>2. PendingKnown'
  <2>1. ASSUME NEW j \in Nodes, hs'[j].pending # NoBlock
        PROVE  Known(hs'[j].pending) /\ view_of(hs'[j].pending) = hs'[j].view
    <3>1. CASE j # i
      BY <1>0, <2>1, <3>1 DEF CertInv, PendingKnown
    <3>2. CASE j = i
      BY <1>0, <2>1, <3>2 DEF CertInv, PendingKnown
    <3> QED
      BY <3>1, <3>2
  <2>2. ASSUME NEW j \in Nodes, hs'[j].pending # NoBlock
        PROVE  /\ \E p \in Phases : ProposalMsg(hs'[j].pending, p) \in msgs'
               /\ view_of(hs'[j].pending) = hs'[j].view
    BY <2>1, <2>2 DEF Known, Proposed
  <2> QED
    BY <2>2 DEF PendingKnown, Known, Proposed, ProposalMsg, view_of
<1>3. ProposerHolds'
  <2>1. ASSUME NEW b \in Blocks, Known(b)
        PROVE  \/ hs'[proposer(b)].view > view_of(b)
               \/ hs'[proposer(b)].view = view_of(b) /\ hs'[proposer(b)].pending = b
    <3>1. proposer(b) \in Nodes /\ view_of(b) \in Nat
      BY BlockTail, NodesFinite DEF proposer, Views, FirstRound
    <3>2. \/ hs[proposer(b)].view > view_of(b)
          \/ hs[proposer(b)].view = view_of(b) /\ hs[proposer(b)].pending = b
      BY <2>1 DEF CertInv, ProposerHolds
    <3>3. CASE proposer(b) # i
      BY <1>0, <3>1, <3>2, <3>3
    <3>4. CASE proposer(b) = i /\ (t.view > hs[i].view \/ hs[i].view > view_of(b))
      BY <1>0, <3>1, <3>2, <3>4
    <3>5. CASE proposer(b) = i /\ t.view = hs[i].view /\ hs[i].view = view_of(b)
      <4>1. hs[i].pending = b /\ b # NoBlock
        BY <1>0, <3>1, <3>2, <3>5, BlockTail
      <4>2. t.pending = b
        <5>1. CASE t.pending = hs[i].pending
          BY <4>1, <5>1
        <5>2. CASE t.pending \in Blocks /\ Known(t.pending) /\ view_of(t.pending) = t.view
          BY <2>1, <3>5, <5>2 DEF CertInv, OneBlock
        <5> QED
          BY <1>0, <3>5, <5>1, <5>2
      <4> QED
        BY <1>0, <3>5, <4>2
    <3> QED
      BY <1>0, <3>1, <3>2, <3>3, <3>4, <3>5
  <2> QED
    BY <2>1 DEF ProposerHolds, proposer, view_of, leader_for_view
<1>4. CountedSent'
  BY <1>0 DEF CertInv, CountedSent
<1> QED
  BY <1>1, <1>2, <1>3, <1>4

\* What new messages and decisions owe the invariant.
VotesOwed ==
    \A c \in Chains, v \in Views, p \in Phases, x \in Nodes : VoteMsg(c, v, p, x) \in msgs' =>
        \/ VoteMsg(c, v, p, x) \in msgs
        \/ \E b \in Blocks : b.chain = c /\ view_of(b) = v /\ Proposed(b, p)
PhasesOwed ==
    \A b \in Blocks :
        /\ ProposalMsg(b, "PreCommit") \in msgs' =>
               Proposed(b, "PreCommit") \/ Backed(b.chain, view_of(b), "Prepare")
        /\ ProposalMsg(b, "Commit") \in msgs' =>
               Proposed(b, "Commit") \/ Backed(b.chain, view_of(b), "PreCommit")
DecidedOwed ==
    \A d \in decided' : d \notin decided =>
        /\ \E b \in Blocks : Known(b) /\ b.chain = d.block /\ view_of(b) = d.view
        /\ \A p \in Phases : Backed(d.block, d.view, p)

LEMMA CarryMsgs ==
    ASSUME CertInv, msgs \subseteq msgs', VotesOwed, PhasesOwed, DecidedOwed,
           \A m \in msgs' : m \in msgs \/ m.type # "viewchange"
    PROVE  VotesJustified' /\ PhasesBacked' /\ DecidedBacked' /\ NoTimeouts'
<1>1. VotesJustified'
  <2>1. ASSUME NEW c \in Chains, NEW v \in Views, NEW p \in Phases, NEW x \in Nodes,
               VoteMsg(c, v, p, x) \in msgs'
        PROVE  \E b \in Blocks : b.chain = c /\ view_of(b) = v /\ ProposalMsg(b, p) \in msgs'
    <3>1. \E b \in Blocks : b.chain = c /\ view_of(b) = v /\ Proposed(b, p)
      BY <2>1 DEF CertInv, VotesJustified, VotesOwed
    <3> QED
      BY <3>1 DEF Proposed
  <2> QED
    BY <2>1 DEF VotesJustified, Proposed, VoteMsg, ProposalMsg, view_of
<1>2. PhasesBacked'
  <2>1. ASSUME NEW b \in Blocks, ProposalMsg(b, "PreCommit") \in msgs'
        PROVE  Backed(b.chain, view_of(b), "Prepare")'
    <3>1. Backed(b.chain, view_of(b), "Prepare")
      BY <2>1 DEF CertInv, PhasesBacked, PhasesOwed
    <3> QED
      BY <3>1, BackedKept DEF view_of
  <2>2. ASSUME NEW b \in Blocks, ProposalMsg(b, "Commit") \in msgs'
        PROVE  Backed(b.chain, view_of(b), "PreCommit")'
    <3>1. Backed(b.chain, view_of(b), "PreCommit")
      BY <2>2 DEF CertInv, PhasesBacked, PhasesOwed
    <3> QED
      BY <3>1, BackedKept DEF view_of
  <2> QED
    BY <2>1, <2>2 DEF PhasesBacked, Proposed, ProposalMsg
<1>3. DecidedBacked'
  <2>1. ASSUME NEW d \in decided'
        PROVE  /\ \E b \in Blocks : Known(b)' /\ b.chain = d.block /\ view_of(b) = d.view
               /\ \A p \in Phases : Backed(d.block, d.view, p)'
    <3>1. /\ \E b \in Blocks : Known(b) /\ b.chain = d.block /\ view_of(b) = d.view
          /\ \A p \in Phases : Backed(d.block, d.view, p)
      BY DEF CertInv, DecidedBacked, DecidedOwed
    <3>2. \A b \in Blocks : Known(b) => Known(b)'
      BY DEF Known, Proposed
    <3>3. \A p \in Phases : Backed(d.block, d.view, p)'
      BY <3>1, BackedKept
    <3> QED
      BY <3>1, <3>2, <3>3
  <2> QED
    BY <2>1 DEF DecidedBacked, view_of
<1>4. NoTimeouts'
  BY DEF CertInv, NoTimeouts
<1> QED
  BY <1>1, <1>2, <1>3, <1>4

\* A step that neither sends nor decides.
LEMMA CarryQuiet ==
    ASSUME FirstRound, CertInv, HsTypeOK', NEW i \in Nodes, NEW t \in HsStates,
           hs' = [hs EXCEPT ![i] = t], msgs' = msgs, decided' = decided,
           \/ t.view > hs[i].view /\ t.pending = NoBlock
           \/ t.view = hs[i].view /\ t.pending = hs[i].pending,
           \A w \in t.votes : VoteMsg(w.block, t.view, w.phase, w.from) \in msgs
    PROVE  CertInv'
<1>1. \A b \in Blocks : Known(b)' => Known(b)
  BY DEF Known, Proposed
<1>2. OneBlock' /\ PendingKnown' /\ ProposerHolds' /\ CountedSent'
  BY <1>1, Carry
<1>3. VotesOwed /\ PhasesOwed /\ DecidedOwed
  BY DEF VotesOwed, PhasesOwed, DecidedOwed, Proposed
<1>4. VotesJustified' /\ PhasesBacked' /\ DecidedBacked' /\ NoTimeouts'
  BY <1>3, CarryMsgs
<1> QED
  BY <1>2, <1>4 DEF CertInv

LEMMA SubmitTxCert ==
    ASSUME FirstRound, CertInv, HsTypeOK', NEW i \in Nodes, NEW tx, SubmitTx(i, tx)
    PROVE  CertInv'
<1> DEFINE s == hs[i]
           p == Append(s.pool, tx)
           t == [s EXCEPT !.pool = p]
<1>1. s \in HsStates /\ hs' = [hs EXCEPT ![i] = t] /\ msgs' = msgs /\ decided' = decided
  BY DEF SubmitTx, CertInv, HsTypeOK
<1>2. \A w \in s.votes : VoteMsg(w.block, s.view, w.phase, w.from) \in msgs
  BY DEF CertInv, CountedSent
<1>3. t = hs'[i] /\ t \in HsStates
  BY <1>1 DEF CertInv, HsTypeOK
<1>4. t.view = s.view /\ t.pending = s.pending /\ t.votes = s.votes
  <2> HIDE DEF s, p
  <2> QED BY <1>1 DEF HsStates
<1> HIDE DEF t
<1> QED
  BY <1>1, <1>2, <1>3, <1>4, CarryQuiet

LEMMA OnVoteCert ==
    ASSUME FirstRound, CertInv, HsTypeOK', NEW i \in Nodes, NEW m \in msgs, OnVote(i, m)
    PROVE  CertInv'
<1> DEFINE vote == [from |-> m.from, phase |-> m.phase, block |-> m.block]
           t == Counted(i, m)
<1>1. /\ hs[i] \in HsStates /\ MsgOK(m) /\ m.type = "vote" /\ m.view = hs[i].view
      /\ m = VoteMsg(m.block, m.view, m.phase, m.from)
      /\ hs' = [hs EXCEPT ![i] = t] /\ msgs' = msgs /\ decided' = decided
  BY MsgKinds DEF CertInv, HsTypeOK, OnVote, Counts
<1>2. /\ t \in HsStates /\ t.pending = hs[i].pending /\ t.view = hs[i].view
      /\ t.votes = hs[i].votes \cup {vote}
  BY <1>1, VoteQCType DEF FirstRound
<1>3. ASSUME NEW w \in t.votes PROVE VoteMsg(w.block, t.view, w.phase, w.from) \in msgs
  BY <1>1, <1>2, <1>3 DEF CertInv, CountedSent
<1> HIDE DEF t
<1> QED
  BY <1>1, <1>2, <1>3, CarryQuiet

LEMMA OnNewViewCert ==
    ASSUME FirstRound, CertInv, HsTypeOK', NEW i \in Nodes, NEW m \in msgs, OnNewView(i, m)
    PROVE  CertInv'
<1> DEFINE h == IF m.qc.view > hs[i].high.view THEN m.qc ELSE hs[i].high
           s == [hs[i] EXCEPT !.high = h]
           t == IF m.view > s.view THEN EnterView(s, m.view) ELSE s
<1>1. hs[i] \in HsStates /\ m.qc \in QCs /\ m.view \in Views
  BY MsgKinds DEF CertInv, HsTypeOK, OnNewView
<1>2. hs' = [hs EXCEPT ![i] = t] /\ msgs' = msgs /\ decided' = decided
  BY DEF OnNewView
<1>3. h \in QCs
  BY <1>1 DEF HsStates
<1> HIDE DEF h
<1>4. s \in HsStates /\ s.view = hs[i].view /\ s.pending = hs[i].pending /\ s.votes = hs[i].votes
  BY <1>1, <1>3 DEF HsStates
<1> HIDE DEF s
<1>5. CASE m.view > s.view
  <2>1. t \in HsStates /\ t.view = m.view /\ t.pending = NoBlock /\ t.votes = {}
    BY <1>1, <1>4, <1>5, EnterViewType
  <2> HIDE DEF t
  <2> QED
    BY <1>2, <1>4, <1>5, <2>1, CarryQuiet
<1>6. CASE ~(m.view > s.view)
  <2>1. t = s
    BY <1>6
  <2>2. \A w \in s.votes : VoteMsg(w.block, s.view, w.phase, w.from) \in msgs
    BY <1>4 DEF CertInv, CountedSent
  <2> HIDE DEF t
  <2> QED
    BY <1>2, <1>4, <2>1, <2>2, CarryQuiet
<1> QED
  BY <1>5, <1>6

\* A vote is for a block known in the phase, and that is the pending block of
\* every validator in the view that has one.
LEMMA VotedBlock ==
    ASSUME FirstRound, CertInv, NEW i \in Nodes, NEW m \in msgs, Counts(i, m)
    PROVE  \E b \in Blocks : /\ Proposed(b, m.phase) /\ Known(b)
                             /\ b.chain = m.block /\ view_of(b) = hs[i].view
                             /\ hs[i].pending \in {b, NoBlock}
<1>1. /\ hs[i] \in HsStates /\ m.block \in Chains /\ m.view \in Views /\ m.phase \in Phases
      /\ m.from \in Nodes /\ m = VoteMsg(m.block, m.view, m.phase, m.from)
      /\ m.view = hs[i].view
  BY MsgKinds DEF CertInv, HsTypeOK, Counts
<1>2. PICK b \in Blocks : b.chain = m.block /\ view_of(b) = m.view /\ Proposed(b, m.phase)
  BY <1>1 DEF CertInv, VotesJustified
<1>3. Known(b)
  BY <1>1, <1>2 DEF Known
<1>4. hs[i].pending \in Blocks \cup {NoBlock}
  BY <1>1 DEF HsStates
<1>5. hs[i].pending # NoBlock => hs[i].pending = b
  BY <1>1, <1>2, <1>3, <1>4 DEF CertInv, PendingKnown, OneBlock
<1> QED
  BY <1>1, <1>2, <1>3, <1>5

LEMMA ProposeCert ==
    ASSUME FirstRound, CertInv, HsTypeOK', NEW i \in Nodes, Propose(i)
    PROVE  CertInv'
<1> DEFINE s == hs[i]
           b == Block(s.view, s.high, s.pool)
           p == <<>>
           t == [s EXCEPT !.pool = p, !.pending = b]
           x == ProposalMsg(b, "Prepare")
<1>1. /\ s \in HsStates /\ hs \in [Nodes -> HsStates] /\ hs' = [hs EXCEPT ![i] = t]
      /\ msgs' = msgs \cup {x} /\ decided' = decided
      /\ leader_for_view(s.view) = i /\ s.pending = NoBlock
  BY DEF Propose, CertInv, HsTypeOK, ProposalMsg, is_leader, MayPropose, FirstRound
<1>2. \A w \in s.votes : VoteMsg(w.block, s.view, w.phase, w.from) \in msgs
  BY DEF CertInv, CountedSent
<1>3. b \in Blocks /\ view_of(b) = s.view /\ s.view \in Views
  <2> HIDE DEF s
  <2> QED BY <1>1, BlockType DEF HsStates
<1>4. t.view = s.view /\ t.pending = b /\ t.votes = s.votes
  <2> HIDE DEF s, b, p
  <2> QED BY <1>1 DEF HsStates
<1>5. /\ hs'[i] = t
      /\ \A j \in Nodes : j # i => hs'[j] = hs[j]
  BY <1>1
<1> HIDE DEF t, b
<1>6. ASSUME NEW c \in Blocks, Known(c) PROVE view_of(c) # s.view
  <2>1. SUFFICES ASSUME view_of(c) = s.view PROVE FALSE
    OBVIOUS
  <2>2. proposer(c) = i
    BY <1>1, <2>1 DEF proposer
  <2>3. hs[i].view > view_of(c) \/ hs[i].pending = c
    BY <1>6, <2>2 DEF CertInv, ProposerHolds
  <2>4. hs[i].view = view_of(c) /\ hs[i].view \in Nat /\ c # NoBlock
    BY <1>3, <2>1, BlockTail DEF Views
  <2> QED
    BY <1>1, <2>3, <2>4
<1>7. ASSUME NEW c \in Blocks, NEW q \in Phases, ProposalMsg(c, q) \in msgs'
      PROVE  Proposed(c, q) \/ (c = b /\ q = "Prepare")
  BY <1>1, <1>7 DEF Proposed, ProposalMsg
<1>8. ASSUME NEW c \in Blocks, Known(c)' PROVE Known(c) \/ c = b
  BY <1>7, <1>8 DEF Known, Proposed
<1>9. OneBlock'
  <2>1. ASSUME NEW c \in Blocks, NEW d \in Blocks, Known(c)', Known(d)', view_of(c) = view_of(d)
        PROVE  c = d
    BY <1>3, <1>6, <1>8, <2>1 DEF CertInv, OneBlock
  <2> QED
    BY <2>1 DEF OneBlock, view_of
<1>10. PendingKnown'
  <2>1. ASSUME NEW j \in Nodes, hs'[j].pending # NoBlock
        PROVE  /\ \E q \in Phases : ProposalMsg(hs'[j].pending, q) \in msgs'
               /\ view_of(hs'[j].pending) = hs'[j].view
    <3>1. CASE j = i
      BY <1>1, <1>3, <1>4, <1>5, <3>1 DEF Phases
    <3>2. CASE j # i
      BY <1>1, <1>5, <2>1, <3>2 DEF CertInv, PendingKnown, Known, Proposed
    <3> QED
      BY <3>1, <3>2
  <2> QED
    BY <2>1 DEF PendingKnown, Known, Proposed, ProposalMsg, view_of
<1>11. ProposerHolds'
  <2>1. ASSUME NEW c \in Blocks, Known(c)'
        PROVE  \/ hs'[proposer(c)].view > view_of(c)
               \/ hs'[proposer(c)].view = view_of(c) /\ hs'[proposer(c)].pending = c
    <3>1. CASE c = b
      BY <1>1, <1>3, <1>4, <1>5, <3>1 DEF proposer
    <3>2. CASE Known(c)
      <4>1. \/ hs[proposer(c)].view > view_of(c)
            \/ hs[proposer(c)].view = view_of(c) /\ hs[proposer(c)].pending = c
        BY <3>2 DEF CertInv, ProposerHolds
      <4>2. proposer(c) \in Nodes /\ c # NoBlock
        BY BlockTail, NodesFinite DEF proposer, Views, FirstRound
      <4>3. CASE proposer(c) = i
        BY <1>1, <1>4, <1>5, <4>1, <4>2, <4>3
      <4>4. CASE proposer(c) # i
        BY <1>5, <4>1, <4>2, <4>4
      <4> QED
        BY <4>3, <4>4
    <3> QED
      BY <1>8, <2>1, <3>1, <3>2
  <2> QED
    BY <2>1 DEF ProposerHolds, proposer, view_of, leader_for_view
<1>12. CountedSent'
  <2>1. ASSUME NEW j \in Nodes, NEW w \in hs'[j].votes
        PROVE  VoteMsg(w.block, hs'[j].view, w.phase, w.from) \in msgs'
    <3>1. CASE j = i
      BY <1>1, <1>2, <1>4, <1>5, <2>1, <3>1
    <3>2. CASE j # i
      BY <1>1, <1>5, <2>1, <3>2 DEF CertInv, CountedSent
    <3> QED
      BY <3>1, <3>2
  <2> QED
    BY <2>1 DEF CountedSent, VoteMsg
<1>13. VotesOwed /\ PhasesOwed /\ DecidedOwed
  <2>1. VotesOwed
    BY <1>1 DEF VotesOwed, VoteMsg, ProposalMsg
  <2>2. PhasesOwed
    BY <1>7 DEF PhasesOwed, Phases
  <2> QED
    BY <1>1, <2>1, <2>2 DEF DecidedOwed
<1>14. VotesJustified' /\ PhasesBacked' /\ DecidedBacked' /\ NoTimeouts'
  <2>1. \A m \in msgs' : m \in msgs \/ m.type # "viewchange"
    BY <1>1 DEF ProposalMsg
  <2> QED
    BY <1>1, <1>13, <2>1, CarryMsgs
<1> QED
  BY <1>9, <1>10, <1>11, <1>12, <1>14 DEF CertInv

LEMMA OnProposalCert ==
    ASSUME FirstRound, CertInv, HsTypeOK', NEW i \in Nodes, NEW m \in msgs, OnProposal(i, m)
    PROVE  CertInv'
<1> DEFINE a == Accepted(i, m)
           e == EnterView(a, hs[i].view + 1)
           t == IF m.phase = "Commit" /\ ~is_leader(i) THEN [e EXCEPT !.vc = {}] ELSE a
           b == m.block
           x == VoteMsg(b.chain, hs[i].view, m.phase, i)
<1>1. /\ hs[i] \in HsStates /\ b \in Blocks /\ m.phase \in Phases /\ m = ProposalMsg(b, m.phase)
      /\ proposer(b) = leader_for_view(hs[i].view)
  BY MsgKinds DEF CertInv, HsTypeOK, OnProposal, Accepts
<1>2. /\ hs' = [hs EXCEPT ![i] = t] /\ msgs' = msgs \cup {x} /\ decided' = decided
      /\ hs[i].view < MaxView \/ m.phase # "Commit"
  BY DEF OnProposal, Accepted, VoteMsg
<1>3. Proposed(b, m.phase) /\ Known(b) /\ view_of(b) = hs[i].view /\ hs[i].view \in Views
  <2>1. hs[i].view \in Views /\ view_of(b) \in Views
    BY <1>1, BlockTail DEF HsStates
  <2>2. view_of(b) = hs[i].view
    BY <1>1, <2>1, LeaderOnce DEF proposer
  <2> QED
    BY <1>1, <2>1, <2>2 DEF Proposed, Known
<1>4. a \in HsStates /\ a.pending = b /\ a.view = hs[i].view /\ a.votes = hs[i].votes
  BY <1>1, AcceptedType
<1>5. /\ t \in HsStates
      /\ \/ t.view > hs[i].view /\ t.pending = NoBlock /\ t.votes = {}
         \/ t.view = hs[i].view /\ t.pending = b /\ t.votes = hs[i].votes
  <2> HIDE DEF a
  <2>1. CASE m.phase = "Commit" /\ ~is_leader(i)
    <3>1. hs[i].view + 1 \in Views /\ hs[i].view \in Nat
      BY <1>2, <1>3, <2>1 DEF Views, Deployed, FirstRound
    <3>2. e \in HsStates /\ e.view = hs[i].view + 1 /\ e.pending = NoBlock /\ e.votes = {}
      BY <1>4, <3>1, EnterViewType
    <3> HIDE DEF e
    <3> DEFINE r == [e EXCEPT !.vc = {}]
    <3>3. r \in HsStates /\ r.view = e.view /\ r.pending = e.pending /\ r.votes = e.votes
      BY <3>2 DEF HsStates
    <3>4. t = r
      BY <2>1
    <3> HIDE DEF r, t
    <3> QED
      BY <3>1, <3>2, <3>3, <3>4
  <2>2. CASE ~(m.phase = "Commit" /\ ~is_leader(i))
    <3>1. t = a
      BY <2>2
    <3> HIDE DEF t
    <3> QED
      BY <1>4, <3>1
  <2> QED
    BY <2>1, <2>2
<1> HIDE DEF t
<1>6. ASSUME NEW c \in Blocks, NEW q \in Phases, ProposalMsg(c, q) \in msgs'
      PROVE  Proposed(c, q)
  BY <1>2, <1>6 DEF Proposed, ProposalMsg, VoteMsg
<1>7. \A c \in Blocks : Known(c)' => Known(c)
  BY <1>6 DEF Known, Proposed
<1>8. \A w \in hs[i].votes : VoteMsg(w.block, hs[i].view, w.phase, w.from) \in msgs
  BY DEF CertInv, CountedSent
<1>9. msgs \subseteq msgs'
  BY <1>2
<1>10. \A w \in t.votes : VoteMsg(w.block, t.view, w.phase, w.from) \in msgs'
  BY <1>5, <1>8, <1>9
<1>11. OneBlock' /\ PendingKnown' /\ ProposerHolds' /\ CountedSent'
  BY <1>1, <1>2, <1>3, <1>5, <1>7, <1>9, <1>10, Carry
<1>12. VotesOwed
  <2>1. ASSUME NEW c, NEW v, NEW q, NEW y, VoteMsg(c, v, q, y) \in msgs'
        PROVE  \/ VoteMsg(c, v, q, y) \in msgs
               \/ c = b.chain /\ v = hs[i].view /\ q = m.phase
    BY <1>2, <2>1 DEF VoteMsg
  <2> QED
    BY <1>1, <1>3, <2>1 DEF VotesOwed
<1>13. PhasesOwed /\ DecidedOwed
  BY <1>2, <1>6 DEF PhasesOwed, DecidedOwed, Phases
<1>14. \A y \in msgs' : y \in msgs \/ y.type # "viewchange"
  BY <1>2 DEF VoteMsg
<1>15. VotesJustified' /\ PhasesBacked' /\ DecidedBacked' /\ NoTimeouts'
  BY <1>9, <1>12, <1>13, <1>14, CarryMsgs
<1> QED
  BY <1>11, <1>15 DEF CertInv

LEMMA OnQuorumCert ==
    ASSUME FirstRound, CertInv, HsTypeOK', NEW i \in Nodes, NEW m \in msgs, OnQuorum(i, m)
    PROVE  CertInv'
<1> DEFINE s == Counted(i, m)
           qc == VoteQC(i, m)
           l == IF m.phase = "PreCommit" THEN qc ELSE s.locked
           w == {}
           t == [s EXCEPT !.votes = w, !.high = qc, !.locked = l]
           N == Broadcast(s.pending, NextPhase(m.phase))
<1>1. /\ hs[i] \in HsStates /\ MsgOK(m) /\ m.type = "vote" /\ Counts(i, m)
      /\ m.phase \in {"Prepare", "PreCommit"} /\ has_quorum(VoteQC(i, m))
  BY DEF CertInv, HsTypeOK, OnQuorum, Counts
<1>2. /\ hs' = [hs EXCEPT ![i] = t] /\ msgs' = msgs \cup N /\ decided' = decided
  BY DEF OnQuorum
<1>3. /\ qc \in QCs /\ s \in HsStates /\ w \in SUBSET VoteRecs
      /\ s.pending = hs[i].pending /\ s.view = hs[i].view
  BY <1>1, VoteQCType DEF FirstRound
<1> HIDE DEF qc
<1>4. PICK b \in Blocks : /\ Proposed(b, m.phase) /\ Known(b)
                          /\ b.chain = m.block /\ view_of(b) = hs[i].view
                          /\ hs[i].pending \in {b, NoBlock}
  BY <1>1, VotedBlock
<1>5. Backed(b.chain, view_of(b), m.phase)
  BY <1>1, <1>4, QuorumBacked
<1>6. /\ t \in HsStates /\ t.votes = {} /\ t.view = hs[i].view /\ t.pending = hs[i].pending
  <2>1. l \in QCs
    <3> HIDE DEF s
    <3> QED BY <1>3 DEF HsStates
  <2> DEFINE u == [s EXCEPT !.votes = w, !.high = qc, !.locked = l]
  <2>2. u \in HsStates /\ u.votes = w /\ u.view = s.view /\ u.pending = s.pending
    <3> HIDE DEF s, w, l
    <3> QED BY <1>3, <2>1 DEF HsStates
  <2>3. t = u
    OBVIOUS
  <2> HIDE DEF t, u
  <2> QED
    BY <1>3, <2>2, <2>3
<1>7. N \in {{}, {ProposalMsg(b, NextPhase(m.phase))}}
  BY <1>3, <1>4 DEF Broadcast, ProposalMsg
<1> HIDE DEF t, s, N
<1>8. ASSUME NEW c \in Blocks, NEW q \in Phases, ProposalMsg(c, q) \in msgs'
      PROVE  Proposed(c, q) \/ (c = b /\ q = NextPhase(m.phase))
  BY <1>2, <1>7, <1>8 DEF Proposed, ProposalMsg
<1>9. \A c \in Blocks : Known(c)' => Known(c)
  BY <1>4, <1>8 DEF Known, Proposed
<1>10. OneBlock' /\ PendingKnown' /\ ProposerHolds' /\ CountedSent'
  BY <1>2, <1>6, <1>9, Carry
<1>11. VotesOwed
  BY <1>2, <1>7 DEF VotesOwed, VoteMsg, ProposalMsg
<1>12. PhasesOwed
  BY <1>1, <1>5, <1>8 DEF PhasesOwed, NextPhase, Phases
<1>13. DecidedOwed
  BY <1>2 DEF DecidedOwed
<1>14. msgs \subseteq msgs' /\ \A y \in msgs' : y \in msgs \/ y.type # "viewchange"
  BY <1>2, <1>7 DEF ProposalMsg
<1>15. VotesJustified' /\ PhasesBacked' /\ DecidedBacked' /\ NoTimeouts'
  BY <1>11, <1>12, <1>13, <1>14, CarryMsgs
<1> QED
  BY <1>10, <1>15 DEF CertInv

\* A block that is known in a phase has the quorums of the phases before.
LEMMA PhasesChain ==
    ASSUME FirstRound, CertInv, NEW b \in Blocks, Proposed(b, "Commit")
    PROVE  Backed(b.chain, view_of(b), "PreCommit") /\ Backed(b.chain, view_of(b), "Prepare")
<1>1. b.chain \in Chains /\ view_of(b) \in Views
  BY BlockTail DEF Blocks
<1>2. Backed(b.chain, view_of(b), "PreCommit")
  BY DEF CertInv, PhasesBacked
<1>3. PICK x \in Nodes : VoteMsg(b.chain, view_of(b), "PreCommit", x) \in msgs
  BY <1>2, SomeVote DEF FirstRound
<1>4. PICK c \in Blocks : c.chain = b.chain /\ view_of(c) = view_of(b) /\ Proposed(c, "PreCommit")
  BY <1>1, <1>3 DEF CertInv, VotesJustified, Phases
<1>5. Backed(c.chain, view_of(c), "Prepare")
  BY <1>4 DEF CertInv, PhasesBacked
<1> QED
  BY <1>2, <1>4, <1>5

LEMMA OnDecideCert ==
    ASSUME FirstRound, CertInv, HsTypeOK', NEW i \in Nodes, NEW m \in msgs, OnDecide(i, m)
    PROVE  CertInv'
<1> DEFINE s == hs[i]
           qc == VoteQC(i, m)
           txs == IF s.pending = NoBlock THEN <<>> ELSE Last(s.pending.chain).txs
           e == EnterView(s, s.view + 1)
           c == {}
           d == execute_block(e.exec, txs)
           t == [e EXCEPT !.high = qc, !.locked = qc, !.vc = c, !.exec = d]
           x == NewViewMsg(s.view + 1, qc)
<1>1. /\ s \in HsStates /\ MsgOK(m) /\ m.type = "vote" /\ Counts(i, m)
      /\ m.phase = "Commit" /\ has_quorum(VoteQC(i, m))
  BY DEF CertInv, HsTypeOK, OnDecide, Counts
<1>2. /\ hs' = [hs EXCEPT ![i] = t] /\ msgs' = msgs \cup {x} /\ s.view < MaxView
      /\ decided' = IF s.pending = NoBlock THEN decided
                    ELSE decided \cup {[node |-> i, view |-> s.view, block |-> s.pending.chain]}
  BY DEF OnDecide, NewViewMsg
<1>3. PICK b \in Blocks : /\ Proposed(b, m.phase) /\ Known(b)
                          /\ b.chain = m.block /\ view_of(b) = s.view
                          /\ s.pending \in {b, NoBlock}
  BY <1>1, VotedBlock
<1>4. \A p \in Phases : Backed(b.chain, view_of(b), p)
  <2>1. Backed(b.chain, view_of(b), "Commit")
    BY <1>1, <1>3, QuorumBacked
  <2> QED
    BY <1>1, <1>3, <2>1, PhasesChain DEF Phases
<1>5. t \in HsStates /\ t.view > s.view /\ t.pending = NoBlock /\ t.votes = {}
  <2>1. t \in HsStates
    <3>1. hs'[i] = t /\ hs'[i] \in HsStates
      BY <1>2 DEF CertInv, HsTypeOK
    <3> QED
      BY <3>1
  <2>2. s.view + 1 \in Views /\ s.view \in Nat
    <3> HIDE DEF s
    <3> QED BY <1>1, <1>2 DEF HsStates, Views, Deployed, FirstRound
  <2> HIDE DEF s
  <2>3. e \in HsStates /\ e.view = s.view + 1 /\ e.pending = NoBlock /\ e.votes = {}
    BY <1>1, <2>2, EnterViewType
  <2> HIDE DEF e, c, d, qc
  <2>4. t.view = e.view /\ t.pending = e.pending /\ t.votes = e.votes
    BY <2>3 DEF HsStates
  <2> HIDE DEF t
  <2> QED
    BY <2>1, <2>2, <2>3, <2>4
<1> HIDE DEF t
<1>6. ASSUME NEW g \in Blocks, NEW q \in Phases, ProposalMsg(g, q) \in msgs'
      PROVE  Proposed(g, q)
  BY <1>2, <1>6 DEF Proposed, ProposalMsg, NewViewMsg
<1>7. \A g \in Blocks : Known(g)' => Known(g)
  BY <1>6 DEF Known, Proposed
<1>8. msgs \subseteq msgs' /\ \A y \in msgs' : y \in msgs \/ y.type # "viewchange"
  BY <1>2 DEF NewViewMsg
<1>9. OneBlock' /\ PendingKnown' /\ ProposerHolds' /\ CountedSent'
  BY <1>2, <1>5, <1>7, <1>8, Carry
<1>10. VotesOwed
  BY <1>2 DEF VotesOwed, VoteMsg, NewViewMsg
<1>11. PhasesOwed
  BY <1>6 DEF PhasesOwed, Phases
<1>12. DecidedOwed
  <2>1. ASSUME NEW y \in decided', y \notin decided
        PROVE  y.block = b.chain /\ y.view = view_of(b)
    BY <1>2, <1>3, <2>1
  <2> QED
    BY <1>3, <1>4, <2>1 DEF DecidedOwed
<1>13. VotesJustified' /\ PhasesBacked' /\ DecidedBacked' /\ NoTimeouts'
  BY <1>8, <1>10, <1>11, <1>12, CarryMsgs
<1> QED
  BY <1>9, <1>13 DEF CertInv

\* A quorum that has voted is a quorum of vote messages.
LEMMA BackedVotes ==
    ASSUME FirstRound, HsTypeOK, NEW c, NEW v, NEW p, Backed(c, v, p)
    PROVE  Cardinality(VotesFor(c, v, p)) >= quorum_size
<1> DEFINE All == {VoteMsg(c, v, p, x) : x \in Nodes}
           g == [x \in Nodes |-> VoteMsg(c, v, p, x)]
<1>1. PICK Q \in SUBSET Nodes : /\ Cardinality(Q) >= quorum_size
                                /\ \A x \in Q : VoteMsg(c, v, p, x) \in msgs
  BY DEF Backed
<1>2. IsFiniteSet(Nodes) /\ IsFiniteSet(Q) /\ quorum_size \in Nat
  <2>1. n \in Nat \ {0}
    BY DEF FirstRound, Deployed, n
  <2>2. quorum_size \in Nat
    BY <2>1 DEF quorum_size, f
  <2> QED
    BY <2>2, NodesFinite, FS_Subset DEF FirstRound
<1>3. g \in Surjection(Nodes, All)
  BY DEF Surjection
<1>4. IsFiniteSet(All)
  BY <1>2, <1>3, FS_Surjection
<1>5. VotesFor(c, v, p) \in SUBSET All
  <2>1. ASSUME NEW m \in VotesFor(c, v, p) PROVE m \in All
    <3>1. m \in msgs /\ m.type = "vote" /\ m.block = c /\ m.view = v /\ m.phase = p /\ MsgOK(m)
      BY DEF VotesFor, HsTypeOK
    <3>2. m.from \in Nodes /\ m = VoteMsg(c, v, p, m.from)
      BY <3>1, MsgKinds
    <3> QED
      BY <3>2
  <2> QED
    BY <2>1
<1>6. IsFiniteSet(VotesFor(c, v, p))
  BY <1>4, <1>5, FS_Subset
<1>7. [x \in Q |-> VoteMsg(c, v, p, x)] \in Injection(Q, VotesFor(c, v, p))
  BY <1>1 DEF Injection, IsInjective, VotesFor, VoteMsg
<1>8. Cardinality(Q) <= Cardinality(VotesFor(c, v, p))
  BY <1>6, <1>7, FS_Injection
<1>9. Cardinality(Q) \in Nat /\ Cardinality(VotesFor(c, v, p)) \in Nat
  BY <1>2, <1>6, FS_CardinalityType
<1> QED
  BY <1>1, <1>2, <1>8, <1>9

LEMMA CertInit ==
    ASSUME FirstRound, HsInit
    PROVE  CertInv
<1>1. HsTypeOK
  BY HsTypeInit DEF FirstRound
<1>2. msgs = {} /\ decided = {} /\ \A i \in Nodes : hs[i].pending = NoBlock /\ hs[i].votes = {}
  BY DEF HsInit, Fresh
<1> QED
  BY <1>1, <1>2 DEF CertInv, OneBlock, PendingKnown, ProposerHolds, VotesJustified, CountedSent,
     PhasesBacked, DecidedBacked, NoTimeouts, Known, Proposed

LEMMA CertStep ==
    ASSUME FirstRound, CertInv, [HsNext]_hsVars
    PROVE  CertInv'
<1>0. HsTypeOK'
  BY HsTypeStep DEF FirstRound, CertInv
<1>1. CASE UNCHANGED hsVars
  <2>1. hs' = hs /\ msgs' = msgs /\ decided' = decided
    BY <1>1 DEF hsVars
  <2>2. OneBlock' /\ PendingKnown' /\ ProposerHolds'
    BY <2>1 DEF CertInv, OneBlock, PendingKnown, ProposerHolds, Known, Proposed
  <2>3. CountedSent'
    BY <2>1 DEF CertInv, CountedSent
  <2>4. VotesOwed /\ PhasesOwed /\ DecidedOwed
    BY <2>1 DEF VotesOwed, PhasesOwed, DecidedOwed, Proposed
  <2>5. VotesJustified' /\ PhasesBacked' /\ DecidedBacked' /\ NoTimeouts'
    BY <2>1, <2>4, CarryMsgs
  <2> QED
    BY <1>0, <2>2, <2>3, <2>5 DEF CertInv
<1>2. CASE NetworkStep
  <2>1. Live \subseteq Nodes
    BY DEF Live
  <2>2. ASSUME NEW i \in Nodes, Tick(i) PROVE CertInv'
    BY <2>2 DEF Tick, FirstRound
  <2>3. ASSUME NEW i \in Nodes, NEW m \in msgs, OnViewChange(i, m) PROVE CertInv'
    BY <2>3 DEF OnViewChange, CertInv, NoTimeouts
  <2> QED
    BY <1>0, <1>2, <2>1, <2>2, <2>3, SubmitTxCert, ProposeCert, OnProposalCert, OnVoteCert,
       OnQuorumCert, OnDecideCert, OnNewViewCert DEF NetworkStep
<1> QED
  BY <1>1, <1>2 DEF HsNext, FirstRound

\* When the harness drives, through the first round of leaders and for every
\* number of validators, silent ones and transactions: however messages are
\* lost, repeated and reordered, a decided block has a quorum of votes in each
\* of its three phases, and a view decides one block (state.rs: on_proposal,
\* on_vote).
THEOREM DecisionsCertified ==
    ASSUME FirstRound
    PROVE  HsSpec => []CertifiedCommit
<1>1. HsInit => CertInv
  BY CertInit
<1>2. CertInv /\ [HsNext]_hsVars => CertInv'
  BY CertStep
<1>3. ASSUME CertInv PROVE CertifiedCommit
  <2>1. ASSUME NEW d \in decided, NEW p \in Phases
        PROVE  Cardinality(VotesFor(d.block, d.view, p)) >= quorum_size
    BY <1>3, BackedVotes DEF CertInv, DecidedBacked
  <2>2. ASSUME NEW d \in decided, NEW e \in decided, d.view = e.view
        PROVE  d.block = e.block
    <3>1. PICK b \in Blocks : Known(b) /\ b.chain = d.block /\ view_of(b) = d.view
      BY <1>3 DEF CertInv, DecidedBacked
    <3>2. PICK c \in Blocks : Known(c) /\ c.chain = e.block /\ view_of(c) = e.view
      BY <1>3 DEF CertInv, DecidedBacked
    <3>3. b = c
      BY <1>3, <2>2, <3>1, <3>2 DEF CertInv, OneBlock
    <3> QED
      BY <3>1, <3>2, <3>3
  <2> QED
    BY <2>1, <2>2 DEF CertifiedCommit, Phases
<1> QED
  BY <1>1, <1>2, <1>3, PTL DEF HsSpec
=============================================================================
