------------------------------ MODULE HotStuff ------------------------------
(***************************************************************************)
(* The HotStuff validators of 333-platform (bft/), their pacemaker and the *)
(* executor above them, driven the three ways the platform drives them: by *)
(* the in-process harness (netcode/bft_multi_node.rs, platform_mesh.rs),   *)
(* which proposes once per view and never ticks; by the browser's polling  *)
(* loop (wasm/entry.rs), which proposes whenever its pool is not empty and *)
(* ticks the pacemaker; or by the checkpoint bridge (netcode/              *)
(* bft_bridge.rs), which feeds a validator its own messages in a loop.     *)
(*                                                                         *)
(* msgs holds every message ever sent: a validator may process any of them *)
(* at any time, again, or never.  Silent validators drop everything, which *)
(* is what the drivers call byzantine; forged messages are not modelled.   *)
(* A block's hash is its chain: the sequence of proposals from genesis.    *)
(***************************************************************************)
EXTENDS Integers, FiniteSets, Sequences, SequencesExt

CONSTANTS
    Validators,     \* the validator set in order: a sequence of node ids
    Silent,         \* validators that drop every message
    Txs,            \* transactions that may be submitted
    InitBalance,    \* balance init_account gives each validator
    MaxPool,        \* MAX_POOL_SIZE
    Driver,         \* "harness", "browser" or "bridge"
    MaxView         \* bound on the views explored

VARIABLES
    hs,         \* hs[i]: HotStuffState of validator i, with its executor
    msgs,       \* messages sent so far
    submitted,  \* transactions submitted so far
    decided,    \* history of decisions: who committed which block, in which view
    bridge      \* the bridge's call: its transaction, its queue of messages,
                \* and the certificates that calls have returned

hsVars == <<hs, msgs, submitted, decided, bridge>>

Nodes == Range(Validators)
Live == Nodes \ Silent
Views == 0 .. MaxView

\* ValidatorSet: n, f and the quorum.
n == Len(Validators)
f == (n - 1) \div 3
quorum_size == 2 * f + 1

leader_for_view(v) == Validators[(v % n) + 1]

Genesis == <<>>
GenesisQC == [block |-> Genesis, view |-> 0, phase |-> "Prepare", signers |-> 0]
NoBlock == [none |-> TRUE]
NoTx == [kind |-> "none"]

\* A block: its chain ends with its own view and transactions.
Block(view, high, txs) ==
    [chain |-> Append(high.block, [view |-> view, txs |-> txs]), justify |-> high]

view_of(b) == Last(b.chain).view
parent_hash(b) == Front(b.chain)
proposer(b) == leader_for_view(view_of(b))

\* A certificate keeps the number of its distinct signers.
has_quorum(qc) == qc.signers >= quorum_size

is_leader(i) == leader_for_view(hs[i].view) = i

-----------------------------------------------------------------------------
\* Executor.  Account 0 is the escrow of auction bids.
Accounts == Nodes \cup {0}

transfer(e, from, to, amount, nonce) ==
    IF from = to \/ nonce # e.nonce[from] \/ e.bal[from] < amount THEN e
    ELSE LET bal == [e.bal EXCEPT ![from] = @ - amount, ![to] = @ + amount]
             next == [e.nonce EXCEPT ![from] = @ + 1]
         IN [e EXCEPT !.bal = bal, !.nonce = next]

\* Mutant: a transfer is executed whatever its nonce.
execute_oneAnyNonce(e, tx) ==
    IF tx.kind # "Transfer" THEN e
    ELSE [transfer(e, tx.from, tx.to, tx.amount, e.nonce[tx.from])
             EXCEPT !.done = Append(@, tx)]

\* done lists the transactions that took effect.
execute_one(e, tx) ==
    LET r == CASE tx.kind = "Transfer" ->
                    transfer(e, tx.from, tx.to, tx.amount, tx.nonce)
               [] tx.kind = "AuctionBid" ->
                    transfer(e, tx.from, 0, tx.amount, e.nonce[tx.from])
               [] tx.kind = "Ranked" -> e
    IN IF r = e THEN e ELSE [r EXCEPT !.done = Append(@, tx)]

execute_block(e, txs) == FoldLeft(execute_one, e, txs)

-----------------------------------------------------------------------------
\* A new validator.  The phase, the map of blocks and the last sixteen
\* committed blocks are written and never read by the protocol.
Fresh == [view |-> 0, high |-> GenesisQC, locked |-> GenesisQC, pending |-> NoBlock,
          votes |-> {}, tracker |-> {}, pool |-> <<>>, vc |-> {},
          exec |-> [bal |-> [a \in Accounts |-> IF a = 0 THEN 0 ELSE InitBalance],
                    nonce |-> [a \in Accounts |-> 0], done |-> <<>>]]

HsInit ==
    /\ hs = [i \in Nodes |-> Fresh]
    /\ msgs = {}
    /\ submitted = {}
    /\ decided = {}
    /\ bridge = [tx |-> NoTx, queue |-> <<>>, returned |-> {}]

\* submit_tx, at the node the transaction is from; refused when the pool is
\* full.
SubmitTx(i, tx) ==
    /\ tx.from = i /\ tx \notin submitted
    /\ Len(hs[i].pool) < MaxPool
    /\ submitted' = submitted \cup {tx}
    /\ hs' = [hs EXCEPT ![i] = [hs[i] EXCEPT !.pool = Append(@, tx)]]
    /\ UNCHANGED <<msgs, decided>>

\* The harness proposes once in a view and pumps messages until the block is
\* decided (a round that stalls is not retried in its view); the polling loop
\* proposes whenever there is something to propose.
MayPropose(i) ==
    Driver = "browser" \/ hs[i].pending = NoBlock

\* propose: drains the whole pool into a block on top of the highest QC.
Propose(i) ==
    /\ i \notin Silent /\ is_leader(i) /\ hs[i].pool # <<>> /\ MayPropose(i)
    /\ LET b == Block(hs[i].view, hs[i].high, hs[i].pool) IN
       /\ hs' = [hs EXCEPT ![i] = [hs[i] EXCEPT !.pool = <<>>, !.pending = b]]
       /\ msgs' = msgs \cup {[type |-> "proposal", block |-> b, phase |-> "Prepare"]}
    /\ UNCHANGED <<submitted, decided>>

\* What every way of entering a view clears.
EnterView(s, v) ==
    [s EXCEPT !.view = v, !.pending = NoBlock, !.votes = {}, !.tracker = {}]

justify_is_valid(qc) == qc = GenesisQC \/ has_quorum(qc)

\* The safety rule: the block is as recent as the lock, extends it or is it.
safe(s, b) ==
    \/ b.justify.view >= s.locked.view
    \/ parent_hash(b) = s.locked.block
    \/ b.chain = s.locked.block

\* A proposal that is voted for.
Accepts(i, m) ==
    /\ m.type = "proposal"
    /\ proposer(m.block) = leader_for_view(hs[i].view)
    /\ justify_is_valid(m.block.justify)
    /\ safe(hs[i], m.block)

\* on_proposal: lock on a PreCommit, vote, and leave the view after voting on
\* a Commit.
OnProposal(i, m) ==
    LET s == hs[i]
        b == m.block
        accepted == [s EXCEPT !.pending = b,
                        !.locked = IF m.phase = "PreCommit"
                                   THEN [b.justify EXCEPT !.block = b.chain, !.view = s.view]
                                   ELSE @]
    IN /\ Accepts(i, m)
       /\ s.view < MaxView \/ m.phase # "Commit"
       /\ msgs' = msgs \cup {[type |-> "vote", block |-> b.chain, view |-> s.view,
                              phase |-> m.phase, from |-> i]}
       /\ hs' = [hs EXCEPT ![i] =
                    IF m.phase = "Commit" /\ ~is_leader(i)
                    THEN [EnterView(accepted, s.view + 1) EXCEPT !.vc = {}]
                    ELSE accepted]
       /\ UNCHANGED <<submitted, decided>>

\* The vote a leader counts: for its view, and not a second block of one
\* signer in one phase.
Counts(i, m) ==
    /\ m.type = "vote"
    /\ is_leader(i)
    /\ m.view = hs[i].view
    /\ m.from \in Nodes
    /\ \A t \in hs[i].tracker : t.from = m.from /\ t.phase = m.phase => t.block = m.block
    /\ ~\E v \in hs[i].votes : v.block = m.block /\ v.phase = m.phase /\ v.from = m.from

\* The state of the leader once the vote is counted, and the QC it makes.
Counted(i, m) ==
    LET vote == [from |-> m.from, phase |-> m.phase, block |-> m.block]
    IN [hs[i] EXCEPT !.tracker = @ \cup {vote}, !.votes = @ \cup {vote}]

\* Mutant: votes are bucketed by block alone, so a late vote of the phase
\* before counts towards the certificate of this one.
VoteQCAnyPhase(i, m) ==
    [block |-> m.block, view |-> hs[i].view, phase |-> m.phase,
     signers |-> Cardinality({v.from : v \in {w \in Counted(i, m).votes :
                                                 w.block = m.block}})]

VoteQC(i, m) ==
    [block |-> m.block, view |-> hs[i].view, phase |-> m.phase,
     signers |-> Cardinality({v.from : v \in {w \in Counted(i, m).votes :
                                 w.block = m.block /\ w.phase = m.phase}})]

\* on_vote below the quorum.
OnVote(i, m) ==
    /\ Counts(i, m)
    /\ ~has_quorum(VoteQC(i, m))
    /\ hs' = [hs EXCEPT ![i] = Counted(i, m)]
    /\ UNCHANGED <<msgs, submitted, decided>>

Broadcast(b, p) ==
    IF b = NoBlock THEN {} ELSE {[type |-> "proposal", block |-> b, phase |-> p]}

\* on_vote at the quorum of Prepare or of PreCommit: the pending block goes on
\* to the next phase, whichever block the votes were for.
NextPhase(p) == IF p = "Prepare" THEN "PreCommit" ELSE "Commit"

OnQuorum(i, m) ==
    LET qc == VoteQC(i, m)
        s == Counted(i, m)
    IN /\ Counts(i, m)
       /\ has_quorum(qc)
       /\ m.phase \in {"Prepare", "PreCommit"}
       /\ hs' = [hs EXCEPT ![i] =
                    [s EXCEPT !.votes = {}, !.high = qc,
                              !.locked = IF m.phase = "PreCommit" THEN qc ELSE @]]
       /\ msgs' = msgs \cup Broadcast(s.pending, NextPhase(m.phase))
       /\ UNCHANGED <<submitted, decided>>

\* on_vote at the quorum of Commit: the leader decides its pending block,
\* executes it, enters the next view and announces it.
OnDecide(i, m) ==
    LET qc == VoteQC(i, m)
        s == hs[i]
        b == s.pending
        txs == IF b = NoBlock THEN <<>> ELSE Last(b.chain).txs
    IN /\ Counts(i, m)
       /\ has_quorum(qc)
       /\ m.phase = "Commit"
       /\ s.view < MaxView
       /\ hs' = [hs EXCEPT ![i] =
                    [EnterView(s, s.view + 1) EXCEPT
                        !.high = qc, !.locked = qc, !.vc = {},
                        !.exec = execute_block(@, txs)]]
       /\ msgs' = msgs \cup {[type |-> "newview", view |-> s.view + 1, qc |-> qc]}
       /\ decided' = IF b = NoBlock THEN decided
                     ELSE decided \cup {[node |-> i, view |-> s.view, block |-> b.chain]}
       /\ UNCHANGED <<submitted>>

\* on_new_view: the QC is taken when newer, the view when higher.
OnNewView(i, m) ==
    LET s == [hs[i] EXCEPT !.high = IF m.qc.view > @.view THEN m.qc ELSE @]
    IN /\ m.type = "newview"
       /\ hs' = [hs EXCEPT ![i] = IF m.view > s.view THEN EnterView(s, m.view) ELSE s]
       /\ UNCHANGED <<msgs, submitted, decided>>

\* tick: the pacemaker of a validator that is not the leader times out.
Tick(i) ==
    /\ Driver = "browser"
    /\ ~is_leader(i)
    /\ hs[i].view < MaxView
    /\ msgs' = msgs \cup {[type |-> "viewchange", view |-> hs[i].view + 1,
                           from |-> i, qc |-> hs[i].high]}
    /\ UNCHANGED <<hs, submitted, decided>>

\* The certificate of the highest view among the entries; the last one counts
\* among equals, so any of them may be taken.
IsHighest(qc, entries) ==
    qc \in {e.qc : e \in entries} /\ \A e \in entries : e.qc.view <= qc.view

\* process_view_change_quorum: entries are kept per new view and sender; a
\* quorum enters the view, whatever view the validator is in.
OnViewChange(i, m) ==
    LET s == hs[i]
        entries == {e \in s.vc : e.view = m.view} \cup
                       {[view |-> m.view, from |-> m.from, qc |-> m.qc]}
    IN /\ m.type = "viewchange"
       /\ ~\E e \in s.vc : e.view = m.view /\ e.from = m.from
       /\ IF Cardinality(entries) < quorum_size
          THEN hs' = [hs EXCEPT ![i] = [hs[i] EXCEPT !.vc = @ \cup entries]]
          ELSE \E qc \in {e.qc : e \in entries} :
                 /\ IsHighest(qc, entries)
                 /\ hs' = [hs EXCEPT ![i] =
                              [EnterView(s, m.view) EXCEPT
                                  !.vc = {},
                                  !.high = IF qc.view > @.view THEN qc ELSE @]]
       /\ UNCHANGED <<msgs, submitted, decided>>

\* Validators that exchange messages.
NetworkStep ==
    \/ \E i \in Live, tx \in Txs : SubmitTx(i, tx)
    \/ \E i \in Live : Propose(i)
    \/ \E i \in Live, m \in msgs : OnProposal(i, m)
    \/ \E i \in Live, m \in msgs : OnVote(i, m)
    \/ \E i \in Live, m \in msgs : OnQuorum(i, m)
    \/ \E i \in Live, m \in msgs : OnDecide(i, m)
    \/ \E i \in Live, m \in msgs : OnNewView(i, m)
    \/ \E i \in Live : Tick(i)
    \/ \E i \in Live, m \in msgs : OnViewChange(i, m)

-----------------------------------------------------------------------------
\* The bridge, at validator i.  propose_checkpoint submits the handle and, as
\* leader, proposes; a validator that does not lead returns an error and keeps
\* the handle in its pool.
ProposeCheckpoint(i, tx) ==
    LET b == Block(hs[i].view, hs[i].high, Append(hs[i].pool, tx))
        m == [type |-> "proposal", block |-> b, phase |-> "Prepare"]
    IN /\ bridge.queue = <<>> /\ tx \notin submitted
       /\ Len(hs[i].pool) < MaxPool
       /\ submitted' = submitted \cup {tx}
       /\ IF is_leader(i)
          THEN /\ hs' = [hs EXCEPT ![i] = [hs[i] EXCEPT !.pool = <<>>, !.pending = b]]
               /\ msgs' = msgs \cup {m}
               /\ bridge' = [bridge EXCEPT !.tx = tx, !.queue = <<m>>]
          ELSE /\ hs' = [hs EXCEPT ![i] = [hs[i] EXCEPT !.pool = Append(@, tx)]]
               /\ UNCHANGED <<msgs, bridge>>
       /\ UNCHANGED decided

\* drive_to_commit, one turn of its loop: the first message is processed and
\* what comes of it is queued, a message that is refused or a vote short of
\* the quorum leaves nothing (the call fails when the queue is empty), and the
\* decision returns the highest QC.
DriveToCommit(i) ==
    LET m == Head(bridge.queue)
        Queue(new) == [bridge EXCEPT !.queue = Tail(@) \o new]
    IN /\ bridge.queue # <<>>
       /\ \/ /\ OnProposal(i, m) \/ OnVote(i, m) \/ OnQuorum(i, m)
             /\ bridge' = Queue(SetToSeq(msgs' \ msgs))
          \/ /\ ~Accepts(i, m) /\ ~Counts(i, m)
             /\ bridge' = Queue(<<>>)
             /\ UNCHANGED <<hs, msgs, submitted, decided>>
          \/ /\ OnDecide(i, m)
             /\ bridge' = [bridge EXCEPT !.queue = <<>>,
                              !.returned = @ \cup {[tx |-> bridge.tx, qc |-> hs'[i].high]}]

\* A checkpoint's certificate is accepted with a quorum of Commit votes.
verify_checkpoint_qc(qc) == qc.signers > 0 /\ has_quorum(qc) /\ qc.phase = "Commit"

BridgeStep ==
    \/ \E tx \in Txs : ProposeCheckpoint(Validators[1], tx)
    \/ DriveToCommit(Validators[1])

HsNext ==
    \/ Driver # "bridge" /\ NetworkStep /\ UNCHANGED bridge
    \/ Driver = "bridge" /\ BridgeStep

HsSpec == HsInit /\ [][HsNext]_hsVars

-----------------------------------------------------------------------------
VotesFor(block, view, phase) ==
    {m \in msgs : /\ m.type = "vote" /\ m.block = block
                  /\ m.view = view /\ m.phase = phase}

\* A block is decided only after a quorum of validators has voted for that
\* very block in all three phases of the view that decides it, and no view
\* decides two (state.rs: on_vote, vote_tracker), when the harness drives.
CertifiedCommit ==
    /\ \A d \in decided, p \in {"Prepare", "PreCommit", "Commit"} :
          Cardinality(VotesFor(d.block, d.view, p)) >= quorum_size
    /\ \A d, e \in decided : d.view = e.view => d.block = e.block

\* However calls of the bridge fail, a certificate one returns is accepted by
\* its peers and is for the block, decided, with the call's own checkpoint
\* (bft_bridge.rs: propose_checkpoint, verify_checkpoint_qc).
CheckpointsCertified ==
    \A c \in bridge.returned :
        /\ verify_checkpoint_qc(c.qc)
        /\ c.tx \in Range(Last(c.qc.block).txs)
        /\ \E d \in decided : d.block = c.qc.block

\* A transaction takes effect at most once in an executor, however often its
\* block is decided again after the views went back (executor.rs: nonce).
ExecutedOnce ==
    \A i \in Nodes : \A j, k \in DOMAIN hs[i].exec.done :
        hs[i].exec.done[j] = hs[i].exec.done[k] => j = k

\* Whatever the timer does, the blocks decided lie on one chain: the comment
\* on the pacemaker's clock says a spurious timeout costs liveness, never
\* safety (viewchange.rs).
OneChain ==
    \A d, e \in decided : IsPrefix(d.block, e.block) \/ IsPrefix(e.block, d.block)
=============================================================================
