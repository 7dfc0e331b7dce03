# A verification project for 333

TLA+ models of the protocols of 333 that carry its money and its promises, the
TLC runs that check them on small instances, and TLAPS proofs of the properties
that matter most. `PROJECT.json` maps every definition to the source lines it
stands for, and lists components, runs, findings, hazards and theorems.

## 1. Inventory

333 is a Cargo workspace of some thirty crates, a larger `333-platform` crate
and a `substrate` workspace. The parts with protocol state of their own:

| Part | State | Operations | Talks to |
|---|---|---|---|
| `333-transfer` ledger (`lib.rs`) | balance and next sequence number per account | `preflight`, `apply` | called by authority and by `Replica` |
| `333-transfer` authority (`authority.rs`, `effect.rs`, `epoch.rs`) | ledger, locks per (account, seq, round), confirmations per (account, seq), committee, epoch state, poisoned flag | `handle`, `confirm`, `confirm_as_observer`, `attestation_for`, `fence`, `sign_epoch_vote`, `install_epoch_cert`, `compact_journal`, `recover` | owners and clients by signed messages; the journal by calls |
| `333-transfer` file journal (`journal.rs`) | a file: magic, identity, checksummed frames; a lock on its inode | `open`, `bind`, `replay`, `append`, `compact` | the kernel's files, `flock`, `fsync`, `rename` |
| `333-transfer` daemon (`bin/node.rs`) and drivers (`net.rs`) | applied certificates, pending epoch certificate, quiet-time counters; mailboxes, rounds | poll loop, rebroadcast, fence, epoch vote; `certify_via_mesh_rounds` | sockets; one authority |
| `333-transfer` links (`tcp.rs`, `epidemic.rs`, `wire.rs`), `333-gossip`, `333-membership` | sessions, eager and lazy edges, partial views | send and heal, broadcast, graft and prune, join and disconnect | peers |
| `333-transfer` `Replica` + `333-crdt` `rcb` | ledger over reliable causal broadcast | `submit`, `receive` | other replicas |
| `333-slotseal` | votes seen, vote given, tally, decision per node | `process(Propose)`, `process(Vote)` | evidence from the authorities |
| `333-compute-exchange` | one aggregate (consent, lease, attempt, settlement), inbox of decided commands | ten commands, each a pure decision and a fold of events | adapters that run the effects |
| `333-platform` HotStuff (`bft/`) | view, phase, locked and high QC, pool, votes, executor | `propose`, `process`, `tick`, view change | validators by messages |
| `333-platform` netcode and games (`netcode/`, `apps/`) | frames, snapshots, digests, checkpoints, turns, epochs | advance, roll back, observe, vote to eject | peers' digests and inputs |
| `333-platform` kernel (`kernel/`, `dispatch.rs`, `compute/`) | services, jobs, instances, task queues, workers | register, tick, cancel, sweep, dispatch, assign, verify | callbacks and the game loop |
| `333-platform` peers (`p2p/`, `sync.rs`, `wasm/shared.rs`) | rooms, connections, worlds, one shared ring | offer, answer, merge, push, pop | browsers and tabs |
| `333-orchestration` | workflow and step states, journal | `execute`, `resume_compensation` | step executors |
| `substrate` wal, billing | segments, CRC chain, tail offset; accounts and their trace | `append`, `sync`, `cut`, `release_older`, `repair`; `meter_and_bill` | files |
| `333-token`, `333-iam`, `333-release`, `333-signaling`, `333-hypervisor`, `333-storage-advanced`, `333-consensus` | balances and stakes; nonces and revocations; manifests; topics and scores; instances; replicas of blocks; votes per height | their public calls, some between two mutexes | each other and callers' threads |

What is left (cryptographic envelopes, WASM bindings, wrappers of external
libraries, traits without an implementation, the web front end) is named with
its reason in `PROJECT.json`.

What is hard: an authority's vote is an irrevocable promise that must survive a
crash at any instruction, while recovery is a different piece of code from the
handlers; certificates of several rounds and of two committees are in flight at
once; the journal's guarantees depend on the order of system calls of two
processes; Byzantine members show different votes to different nodes; commands
to the exchange are repeated, reordered and race with revocation; mailboxes keep
messages of earlier rounds; rollbacks leave snapshots behind; funds are between
two mutexes; browser events outlive the connection they are about. What each
part must get right:

* authority: one vote per slot for ever; one final effect per sequence number;
  recovery equals the state before the crash; money is conserved; a committee
  change neither reopens a spent sequence number nor starts on a stale ledger;
* journal: an acknowledged record survives; one live process per journal; the
  end of the log has one answer;
* slot seal: void and certified exclude each other; one decision;
* exchange: no sandbox without consent; pay once, for independently verified
  work; submitted work is not lost;
* daemon: what one member has applied, all members apply in the end;
* HotStuff: nothing is decided without a quorum, nothing executed twice;
* logs, sagas, storage: what was acknowledged survives, what was done is undone
  completely and in reverse;
* replicated data and games: who has seen the same shows the same, and whoever
  does not is told so;
* accounts and queues: every coin, job, frame and result is in one place.

## 2. Modules

| Module | Models | Proofs |
|---|---|---|
| `TransferLedger` | `Ledger`, orders, `quorum`, `slot`: pure operators | |
| `Authority` | a committee of authorities over their journals | `AuthorityProofs` |
| `FileJournal` | `mod file` of `journal.rs`, between system calls | |
| `SlotSeal` | the void predicate and the single-decree agreement | `SlotSealProofs` |
| `ComputeExchange` | the exchange kernel and its effects | `ComputeExchangeProofs` |
| `RailNode` | the authority daemon, `run_submit`, `run_reconfig` | |
| `MeshRounds` | certification over mailboxes (`net.rs`, `certify`) | |
| `TcpPeers`, `Plumtree` | TCP sessions; epidemic dissemination and HyParView's partial views | |
| `WireCodec` | the formats of `wire.rs`, the journal's snapshot, the game's save slots, `333-wire` frames | |
| `CausalReplica` | `Replica` over `VectorClockBroadcaster`; instantiates `TransferLedger` | |
| `HotStuff` | `bft/`, driven by the harness, by the browser loop or by the checkpoint bridge | `HotStuffProofs` |
| `Wal`, `DurableLog` | the segmented log, and what a log promises | `WalProofs` |
| `Saga`, `Hypervisor` | the saga coordinator; instances, quotas and snapshots | |
| `BlockStores` | replicated block stores; erasure coding | |
| `TokenPool` | ledger, stake pool and emission; metered debits and their trace | `WorkProofs` |
| `TrustStores`, `PeerBook` | tokens, revocations, releases; mailboxes, buckets, relays, ejection | |
| `CollabEditor`, `StateCrdts` | the replicated text; counters, maps, dotted sets, OR-set | |
| `HeightConsensus` | `333-consensus` between its mutexes | |
| `RtsSession`, `SharedRing` | desync detection; the shared-memory ring | |
| `Kernel`, `Dispatch` | services and jobs; VM watchdog; message queues | |
| `RtsGame`, `OmScheduler` | turns, stakes and epochs; volunteer compute | `WorkProofs` |
| `Lockstep`, `CoinLedger`, `WorldSync`, `PeerLink` | rollback and checkpoints; tokenomics; replicated world; WebRTC signalling | `PlatformProofs` |

`MC*` modules hold the small instances, `RailNode` its own deployments; each
`.cfg` chooses among them.

`MCPlatform` and `MCCrates` hold many components that share no state. A
behaviour is of one component, its `focus`, and the components take turns with
one pool of variables: each `INSTANCE` says which slot holds which of its
variables, and the slots it does not use stay 0. The components with proofs are
extended instead and keep their own variables, so that a run checks the very
definition the theorem is about. Every component is thereby explored exactly as
it would be alone; the conjuncts of a property that speak of the other components
are vacuous there. A single one is explored by a `.cfg`
with `Foci = {"wal"}` and the like.

### TransferLedger and Authority

`Authority` extends `TransferLedger`. `st[a]` is a record of the fields of
`struct Authority`; `disk[a]` is the record that `recover` would fold from the
journal as it stands. Appending a record is therefore applying `recover`'s match
arm for it (`ReplayLocked`, `ReplayConfirmed`, ...) to `disk[a]`, which keeps the
two code paths, live handler and replay, separate in the model as they are in
the code. Each handler has an action for every outcome that changes state:
`HandleVote`, `HandleRevote` (the idempotent branch), `HandleFails` (the append
failed: the record may be on disk or not, the authority is poisoned) and
`HandleRefused` (a rejected order still completes a covered install, as the
epoch gate in `handle` does first). `ConfirmFails` leaves the ledger moved and
nothing else, because `apply` runs before the append. `Restart` replaces memory
by `disk[a]`, at any time.

Votes, epoch votes and attestations are sets of facts that only grow. A
certificate is not a message but a quorum of facts, usable by anybody at any
time: loss, delay, duplication and reordering need no machinery. A Byzantine
member's signature is always available. Its epoch certificates are limited to
contents for which some honest vote exists; with at least one honest member in a
quorum there are no others.

Abstracted: keys, digests and signatures (`signed` is the whole owner check);
`CommitteeId` is the roster, which is what the digest covers, so a roster used
again is the same committee again. Reasons for a rejection are dropped. The
integer limits `u64::MAX` and `u128::MAX` are `MaxSeq` and `MaxBalance`.

### FileJournal

A file is a sequence of cells (magic, identity, frames, a torn or bad tail),
twice: as every process reads it (`file`) and as far as it is synced (`safe`);
likewise the directory entry (`path`, `safe_path`). A process has a program
counter that stops between any two system calls of `open`, `bind`, `replay`,
`append` and `compact`, so kills, power cuts and a second process fit in
between. `check_magic`, `read_body` and `bind` read by name and write through
the handle, as the code does. A power cut keeps unsynced data whole, in part, as
garbage or not at all. Assumed of the file system: a created file's name is
durable with its first `fsync`, and `rename` is atomic.

### SlotSeal

`votes` are the authorities' votes on one contested slot; `node[a]` is an
`AgreementNode`. Evidence is any subset of the votes that exist, chosen anew for
every check, which covers equivocation and withholding. The seal's digest is the
seal. Agreement votes are counted by an unauthenticated name, so `ProcessVote`
may count any member at any time, and agreement rests on the evidence alone. A
vote buffered before the proposal is the same vote delivered after it.

### ComputeExchange

Each action is one command with its guard (`decide_...`), the fold of its events
(`evolve`), the inbox entry and the effect handed out. `Decide` is `handle`: the
generation check, the decision, the record under the idempotency key. Rejected
commands are actions too, since their rejection is recorded. `sandbox`, `posted`
and `dispatched` record what an adapter that performs effects in order has done;
`seen` records which results a verifier may have looked at. All emptiness checks
of strings are one field `ok`; the seven resource coordinates are one that is
counted and one that is a permission.

### The rail around the authority

`RailNode` is the loop of `run_authority`, one action per kind of message and per
idle duty (`Rebroadcast`, `SignEpochVote`), with the restart of a daemon and the
two client programs. Module `Authority` has the contested slots, so here an
authority is what it has confirmed, whether its next order is locked, and where
it is in a committee change. A frame reaches an inbox or is lost with a session
that died unnoticed (`MaxLoss`); inboxes keep no order, as one reader thread per
session fills them. `MeshRounds` is the other driver, one program that works
through all mailboxes: `certify_via_mesh_rounds` asks, collects, confirms and
retries with a new round, while mail to a slow party lands between any two of its
steps. `TcpPeers` has sessions with the states of `PeerState`; reader and
listener threads run between any two steps of `write_all`, whose two phases visit
session by session; a write also fails on an open connection, whose other end
then stays in use, and so may the one after the redial. `Plumtree` is `InMemoryPlumtree` under `EpidemicEndpoint`,
with `Dropped` naming the peers whose eager edges may be missing at the start.
The second half of `Plumtree` has HyParView's views as sequences, oldest first, and their
messages in per-pair order. `WireCodec` writes and reads sequences of tokens: a
fixed-width field is one token, a string is a length and that many tokens, so
that a length that lies and a body that ends early or late are part of the model;
`Altered` changes one token of what was written.

### HotStuff

`hs[i]` is `HotStuffState` with its tracker and executor, `msgs` every message
sent: any of them may be processed at any time, again, or never. A block's hash
is its chain. `Propose` follows whoever drives it: the harness, once per view and
without a timer, or the browser's loop, whenever the pool is not empty and with
`Tick`. Silent validators drop everything; forged messages are not modelled. The
bridge (`bft_bridge.rs`) calls one validator and feeds it the messages it
produces (`DriveToCommit`), so it succeeds only where one vote is a quorum; its
limit of 64 steps is out of reach of a pipeline of six.

### Logs and recovery

`Wal` stops between the system calls of `create`, `open`, `append`, `sync`,
`cut`, `release_older` and `repair`, and may be killed between any of them;
`freed`, `receipts` and `pending` are what `WalStore` and its owner know. A failed
`fdatasync` may leave pages clean that are not on the disk (`stuck`), so that no
later sync of that segment writes them; the log's header says so, and this is what
poisoning is for. `DurableLog` says what the log is worth: a log of records, the
set acknowledged, the prefix released, steps that append, acknowledge, release and
lose an unacknowledged suffix. `ImplementsLog` says that every step is one of
`DurableLog` under the mapping `log <- AbstractLog`, the records of all live
segments in order, and `acked <- AbstractAcked`, the receipts, until an `open` has
taken for durable what a failed sync or a rename without its directory `fsync` left
off the disk (`misled`).
`Saga` has `execute` and `resume_compensation` step by step, with a failure of an
executor, a compensator or the journal at each use. Billing, in `TokenPool`, ships each decision
to the trace it is rebuilt from; a power cut keeps the synced prefix.

### Replicated data

`CausalReplica` delivers in any order and twice; `receive` passes over the
pending messages until none can be delivered. `CollabEditor` is `RGA` with its
position identifiers, two or three peers polling each other's operations; with
three, an operation overtakes the insert it refers to (`early`). `StateCrdts`
takes the types in turn under the merges and deltas of their sources, and drops
tombstones whatever is still on its way (`expired`).
`WorldSync` merges last-writer maps from batches and full states.

### The platform's loops

`RtsSession`, `RtsGame` and `Lockstep` keep the order of the code within a frame
or turn; a hash is the view it hashes. `SharedRing` has one action per atomic
operation and per cell read or written. `Kernel`, `OmScheduler` and
`CoinLedger` are called with `&mut self`, so a call is an action; anybody may
answer any task of `OmScheduler`, and the unchecked additions of `CoinLedger` wrap
as in a release build. `Dispatch` has the queue's lock and the depth counter as
separate steps, `TokenPool`, `HeightConsensus` and the token verifier of
`TrustStores` each acquisition of a mutex, with several callers between two.

### Books kept about others

`PeerBook` and `TrustStores` each hold several small stores without common state,
one per behaviour: mailboxes of the signalling mesh published to by threads,
routing tables, relay pairs, votes to eject; nonces, revocations, releases.
`BlockStores` keeps who acknowledged which block and which copies have rotted
since; the erasure code loses shards one after the other and decodes what is left.

## 3. Runs

| Run | Question | Instance |
|---|---|---|
| `authority_static` | safety of a fixed committee | 4 members, 1 Byzantine, 3 crashing disks, 1 compacting; 4 orders for one sequence number in 2 rounds |
| `authority_epoch` | safety of one committee change | `{a1,a2}` to `{a2,b1}`, `b1` an observer that crashes; two orders contest a slot |
| `exchange` | consent, payment, idempotency, progress | 2 grants in sequence, 1 key that comes back and any number that do not, 1 attempt id that is reused |
| `bft` | nothing decided without a quorum, nothing executed twice | 4 validators, 1 silent, 3 views under the harness; 2 validators with timeouts in the browser's loop; the bridge at one of 1, 2 or 4 validators, 3 checkpoints |
| `rail` | every member gets there | 3 daemons, 1 order, 1 lost frame and 1 restart; a change of 2 of 3 members after traffic was quieted; 2 idle rounds in a row for a rebroadcast |
| `platform` | ten components of `333-platform` | in `MCPlatform`, beside each `INSTANCE` |
| `crates` | twenty components of the other crates, the editor with two and with three peers | in `MCCrates`, likewise |

About 248,000, 447,000, 17,500, 159,000, 115,000, 1,270,000 and @@CRATES@@ distinct
states.

What the properties of the two large runs say, by component:

| Property | Component | Statement |
|---|---|---|
| `DivergenceSeen` | `RtsSession` | once the digests of a frame are delivered, a difference in a frame both peers still hold has been noticed by one of them; save slots hold what their frame started from; units never stand closer than their radius |
| `SnapshotsTrue` | `Lockstep` | every snapshot is the state of its frame in the present history |
| `PriorityFirst` | `Kernel` | no job runs in a tick that leaves a more urgent one waiting |
| `KernelAccounted` | `Kernel`, `Dispatch` | no job is lost or run twice and the counters agree; VMs spawned are those stopped and those in the table, and a swept one stays in `Error`; a reliable message answered `Ok` runs exactly once and in order |
| `CoinsSound` | `CoinLedger` | the cap holds; until an addition wraps, stakes are covered by balances and what circulates is `total_minted - total_burned`, but for what donations and bids took into no pool and slashed stake that stays in a balance |
| `WorldsConverge` | `WorldSync` | when everything has arrived and no batch was too large, all nodes read one world; no clock is behind an entry its node holds |
| `LinkSound` | `PeerLink` | once the room has nothing more to tell, every client knows exactly the others; late browser events revive no failed, closed or opened link; what is read is a prefix of what was sent |
| `WorkAccounted` | `OmScheduler` | whoever answers what and when: an unavailable worker was given a task and has not answered it since; rewards are the paid answers; verified is what `verify` accepts, unless the task was given again since; pending tasks are unassigned and distinct |
| `TurnsAccounted` | `RtsGame` | minerals and stakes add up, the free spawns of ids without a purse included; epochs are ordered as they were stamped |
| `VoidSound`, `Agreement` | `SlotSeal` | void excludes a certificate; one decision |
| `JournalSound` | `FileJournal` | acknowledged locks survive, one process serves, memory equals replay |
| `ImplementsLog` | `Wal` | the segmented log implements `DurableLog`, until an open takes for durable what a failed or missing sync left off the disk |
| `CertificationSound` | `MeshRounds`, `HeightConsensus` | an order reported certified is held by a quorum and by no rival and applied by every authority that is neither slow nor poisoned; ledgers are prefixes of each other; effects are final when a quorum applied them; reported contention met a rival. a `finalize` that counts a quorum of precommits counts one that stays, all such calls of a height for one hash if there are 3f + 1 validators, and one that reads `Committed` off the block can trust it unless the leader proposed again inside some `finalize` |
| `OverlaySound` | `TcpPeers`, `Plumtree`, `PeerBook` | session states move only as `can_become` allows, with one session per address dialled and, until an open connection fails, one open session between two processes; broadcasts are delivered at most once, and to everyone when the overlay is quiet; views stay bounded, disjoint, without self and, when quiet, symmetric but for join evictions; scores, buckets, relays and ejections match what was received |
| `MessagesTrusted` | `WireCodec`, `TrustStores` | bytes are read as what was written or refused; a token is accepted once while it is valid, whatever is purged between the two steps of `verify` and however late the callers' clocks; a revocation told stays, under the latest time told, versions rise along a release's ancestry |
| `WorkflowsSound` | `Saga`, `Hypervisor` | no step runs twice; a step is undone at most once and after everything committed later; `Compensated` leaves nothing committed, `Succeeded` nothing undone; a stopped instance stays stopped and within its quota |
| `StorageSound` | `BlockStores` | an acknowledged block is readable while fewer than a quorum of its copies have rotted, the primary's while its own copy is sound; what can be decoded is the payload, zero padded |
| `AccountsSound` | `TokenPool` | balances, stakes, what calls hold between the mutexes and what was slashed never exceed what was issued, and equal it until an amount overflows; until then `total_supply` is the sum of the balances; shares never exceed an emission; read back from the trace no version is charged twice, what was forwarded was debited, and every forward answered is there |
| `ReplicasAgree` | `CausalReplica`, `CollabEditor`, `StateCrdts` | a transfer is applied once, after those it depends on, and none is refused; editors that exchanged everything hold the same characters and, if no operation overtook the insert it refers to, agree on the deleted ones and on the order, unless two typed after one character unseen by each other; replicas that saw the same updates hold the same value, but for elements whose tombstone was dropped |

Why the bounds are enough for the questions. Four members with one fault is the
smallest committee in which a quorum is not everybody; two candidates and two
rounds are what a conflict needs, and the orders include a self-transfer, a
credit to an account not held, an unsigned order and an amount that empties the
account. Members `a2` and `a3` are interchangeable in every constant, so
symmetry is sound there. A committee of two makes every quorum unanimous, which
keeps the epoch run small while fence, vote, install, coverage and crash still
interleave; the general quorum argument is proved. In the exchange, two
generations are the least in which a stale envelope exists. Two inodes let a
journal be compacted again after each compaction; a torn, a bad and a whole tail
all occur. Two processes starting together on a journal that does not exist yet
are left out: `exists()` is asked before `open()`, so the second may write a
magic inside the log, after which replay refuses the file. Logs cut a segment
after two records, so that three events need a second one. Rings wrap twice and
cursors once. Replicas, peers and workers are two or three: a pair to disagree
and, where causality or quorums need one, a third.

Restrictions of the passing instances, each refuted without it (section 5):
`FileJournal` does not combine overlap or power cuts with compaction; `SlotSeal`
has one round. `rail` has one order in play, so that whoever disturbs the holder of
its certificate presents the same one; several are not explored.
What a passing property excludes by its own statement, because the code does not
keep it, is part of the statement in the table above: a wrapped or overflowed sum, a
misled open, a failed open connection, a dropped tombstone, an edit that overtook
its insert, a proposal inside `finalize`.

Coarser than the code: `create`'s rename and its two `fsync`s are one step of `Wal`,
and so are the removal of a released segment and its directory `fsync`; `TokenPool`
has exact weights where the code has `f64`, and at most 2^32 halvings;
`HeightConsensus` has one height; `MaxRestores` bounds how often `Lockstep` restores
a checkpoint.

Deadlock is checked in the authority and exchange runs; elsewhere a behaviour may
end: the bounded inputs are used up, or everybody has what there is.

Fairness is assumed in two places. `FairSpec` of `ComputeExchange`, of the
environment only: a verdict, a settlement order and a receipt are eventually
delivered under a fresh key, the assumptions `COMPUTE_EXCHANGE_FSM_SPEC.json`
names. `RnSpec` of `RailNode`: a daemon that is down is started again, what is in
an inbox is handled, and idle rounds are counted. Nothing more is assumed of the
rebroadcast: its counter (`since_rebroadcast`) is part of the state and every frame
resets it, so weak fairness lets other members keep a daemon from ever reaching it.
`CertConverges` holds all the same, because whoever disturbs the holder of the one
certificate presents it itself. `EpochConverges` does not hold unconditionally: its
statement is that the members converge or `KeptBehind`, that some member never
leaves generation 0 and presents order certificates for ever; that case is real, as
TLC finds it when the disjunct is dropped. Only the epoch vote is strongly fair: it
needs one idle round after its window and not a hundred in a row. The operator's and
the client's programs proceed. Nothing is assumed of frames on dead sessions, of
contributors, schedulers or clocks.

### Violation runs

Each checks one sentence the repository states and the code does not keep; the
quotations are in `PROJECT.json`.

* `authority_recovery`: `recover` does not complete an install that a later
  `Confirmed` record covers; the next fence overwrites it, the epoch regresses
  and an honest authority votes twice in a slot. Needs two committee changes.
* `authority_boundary`: an authority keeps confirming after it signed its epoch
  vote; a sequence number can be final under both committees, with no fault.
* `bft_chain`: with `NewView` on its way, the next leader proposes on the genesis
  certificate; its view equals that of the locks of the first view, and a second
  block is decided beside the first.
* `rail_reconfig`: epoch votes are signed once, over whatever frontier the
  member had; a certificate that arrives in between splits them for ever.
* `ring` (module `SharedRing`): `pop` reads a frame that is reserved and not yet
  written, takes it for corrupt and skips it, or everything up to the write cursor.
  `FramesDelivered` is the ring's own claim: what is received is a prefix of the
  frames reserved, whole and in order, and the cursors enclose exactly those still
  waiting.

## 4. What is proved

All theorems hold for arbitrary constants under the named assumptions of the
modules (`LedgerBounds`, `AuthorityAssumption`, `SealAssumption`,
`ExchangeAssumption`, `CoinAssumption`, `LinkAssumption`, `WorldAssumption`,
`GameAssumption`, `PoolAssumption`, `BillingAssumption`) and the hypotheses named
below.

`AuthorityProofs`:

* `TypeCorrect`: `TypeOK` is inductive by itself; the work is in `ApplyType`:
  after `preflight`, no balance and no sequence number leaves its range.
* `AttestedSurvives` and `EffectFinality`. The inductive invariant `EffectInv`
  says that what is confirmed in memory is confirmed on disk, with at most one
  order per sequence number; that a running authority agrees with its disk on
  confirmations and ledger; that what was attested is still confirmed; and that
  committees are the genesis roster or a proposed one. It is
  needed because `EffectUnique` speaks of attestations made at different times,
  which only the durable table connects. Finality then follows from
  `QuorumIntersection`: two quorums of a committee with at most
  floor((n-1)/3) Byzantine members share an honest one, for every size. No
  restriction on committee changes, compaction or crashes.
* `MoneyConserved`: `SupplyConserved` is inductive with `TypeOK`. The ledger a step
  leaves is one it found, in memory or on disk, or that ledger with an order
  applied that passed `preflight`; applying moves an amount between two terms of
  a sum (`SumSplit` of `FoldProofs`, which is why `AuthorityAssumption` says that
  the accounts are finitely many).

The votes, in the same module; but for `GenerationsCovered` for deployments
satisfying `SingleChange` (at most one committee change, to another roster, not
combined with compaction):

* `VoteSafety`, `Recovery`, `CertificateUniqueness`. `NoEquivocation` alone is
  not inductive: that no second vote is given rests on the first vote's lock
  being there, which may have been purged by a confirmation or an install. The
  invariant `VoteInv` says of every vote and of both memory and disk that its
  order is still locked, or its sequence number is spent, or its generation is
  over (`VoteHeld`), and that memory is what `recover` would fold up to a
  completion that is due (`Matches`). Each restriction is needed:
  `authority_recovery` refutes two changes; a roster used again is the same
  `CommitteeId` with its locks cleared; a snapshot taken in generation 1 keeps
  the epoch number and loses the committee.
* `GenerationsCovered`, without that restriction: `EpochInv` says of memory and
  disk that the generation operated is backed by a certificate the ledger covers,
  and the one being installed by a certificate it may not cover yet, so that a
  crash in the middle of an install falls into one of the two.
* `FenceBinds`: `FenceInv` says that an authority that signed an epoch vote is, in
  memory and on disk, fenced, installing, or past that generation; `EpochSafety`
  collects the theorems into `SafeAcrossEpochs`.

`SlotSealProofs`, for one round (`SingleRound`) and at most f faults:

* `VoidSoundness` and `SealAgreement`. `SealInv` says that a seal voted for is
  still valid on evidence that exists, and that only such a seal is decided; the
  counting argument is `VoidExcludesCert`: any certificate's voters are among
  those the evidence shows for its order, those it does not show, and f others.
  With two rounds TLC refutes `VoidSound` (section 5).

`ComputeExchangeProofs`, from `ExchangeAssumption`:

* `ConsentBoundsSandbox`, `CreditsEarned`, `EffectsAtMostOnce`. None is
  inductive. `ExchangeInv` adds what they rest on: the grant was validated and
  the clock has not passed the end of one still called active (`GrantOK`); an
  assignment lies within the lease, the producer is the grant's principal and the
  usage submitted is within the grant (`AttemptOK`); sandboxes are those of the
  running attempt (`SandboxOK`); a settlement belongs to a verified attempt and
  is the one credit posted for it (`SettlementOK`, `PostedOK`); no effect was
  handed out under a key that is not in the inbox (`InboxOK`).
* `SubmittedWorkKept`, an action property, follows from the same invariant, one
  step per command.

`HotStuffProofs`, for every number of validators (`Deployed`: distinct
validators, transactions of the kinds the executor knows):

* `HotStuffTyped` under every driver, the bridge and the browser's polling loop
  included; `TransfersOnce` from the nonces in that invariant: what an executor
  has done of one sender has distinct nonces, all below the account's. Bids carry
  no nonce, so the theorem is about pools without them.
* `DecisionsCertified`: `CertifiedCommit` when the harness drives. The invariant
  `CertInv` says that a view has one proposed block (`OneBlock`), that validators
  hold and vote for that one, that a vote of a later phase follows a quorum of the
  phase before, and that what a leader counts was really sent. `FirstRound`
  (fewer views than validators) is needed because `on_proposal` accepts by the
  proposer being leader of the *validator's* view: a proposal delayed for n views
  would be accepted in a view it was not made for. The `bft` run has four
  validators and three views, so it too stays within the first round under the
  harness; its bridges of one and two validators go beyond.

`WalProofs`:

* `WalImplementsLog`: `WalSpec => ImplementsLog`, without further hypotheses, where
  `ImplementsLog` is `Abstract!DlInit /\ [][misled' \/ Abstract!DlNext]` over the
  mapped variables. `WalInv` says, as long as no open was misled, that every segment
  but the last is whole, synced and ends before its successor's first record, that
  no unsynced record of the tail is covered by a receipt not yet released
  (`StoreOK`), that an open handle's cursor and index agree with the segments
  (`OpenOK`), that a new segment lacks its directory entry only between rename and
  `fsync` of a cut, or with the handle poisoned or gone (`NamedOK`), and that pages a
  failed sync left clean belong to a tail whose handle is poisoned or gone. The last
  part is where poisoning carries the argument: the mutant of this property keeps
  the handle usable after a failed sync. Each action is one lemma: it stutters,
  extends, acknowledges, loses a suffix or releases a prefix of the abstract log.

`PlatformProofs`, of four components of `333-platform`:

* `CoinsStaySound`: `CoinsSound` is inductive once amounts are typed (`ClInv`);
  each operation puts one account, and the sum moves by what its balance does
  (`SumUpdate`), or the history `wrapped` is set. `CoinAssumption` has amounts and
  the cap fit a u64 and the genesis rewards fit under the cap; what a slash may burn
  is not limited.
* `LinksStaySound`, for the two ends of a link, in three parts. `SigInv`: what a
  client knows and what is still on its way to it come, played in order, to the
  room's present members (`Heard`); the property speaks only of the moment when
  nothing is on its way. `RtcInv`: a link that was shut, has failed or was opened
  is in a state no later event leads back from. `DataInv`: what was read followed
  by what is on the wire is what was sent, until an end shuts.
* `SnapshotsStayTrue`: `LkInv` adds to the property that frames never decrease
  along the snapshots, so that what a rollback keeps lies before the frame it
  restores, on the history that survives.
* `WorldsStayConvergent`: convergence is about the end of the deliveries and not
  inductive. `WsInv` says that an entry ever seen has reached each node, lies in a
  batch or a message for it, or was overwritten there by a later stamp
  (`AllReached`); that stamps are unique and no later than the clock of the node
  that made them. When nothing is on its way, each node then holds for each key
  the latest stamp ever given.

`WorkProofs`, of the volunteer-compute service, the game and the accounts:

* `WorkStaysAccounted`: `OmInv` says that a worker held back was given a task and
  has not answered it since (`given` is how many answers the task had then), that a
  task's status is what `verify` says of its answers unless it was given after the
  last one, that queued tasks were given to nobody and are queued once, and that
  what a worker earned is the number of its answers accepted when they came (`Paid`,
  a set of prefixes of answers that later answers leave alone).
* `TurnsStayAccounted`: a turn folds `execute_command` over a sequence of orders
  of any length; the function defined by that recursion exists and stays in the
  set of games whose books balance and whose units are numbered below `next`
  (`Balanced`, by `PrefixRecursion`). `GameInv` adds that the dead have left and
  that the outcome agrees with the players standing. For the epochs, `EpochInv`
  says that a node's clock is not behind any stamp it has seen (`Ahead`) and that
  the logical counter is bounded by the operations so far (`Counted`):
  `GameAssumption` keeps twice their number below the counter's limit, where the
  code saturates and stamps would repeat.
* `AccountsStaySound`: `TkInv` is `SupplyTraced` with the types. Three sums move, over
  accounts, stakes and callers; a step moves an amount from one to another, or loses
  it to an overflow, which `overflowed` remembers and which can only lower what is
  traced. That the floored shares of an emission add up to no more than the emission
  is `SharesBounded`, an induction over the finite set of peers, and that a slash
  takes no more than the stake is `CutBounded`. `BlInv` says of the trace that
  finalized and debited versions are distinct and below the object's version,
  without which a replay could charge again, and that what was answered lies in the
  synced prefix, without which a power cut could take it.

`FoldProofs` is the library these rest on. The library's induction theorems take
an operator, which the provers cannot instantiate; here induction is over a *set*
of naturals (`SetInduction`, `IntervalInduction`, and `SeqInduction` in
`WalProofs`), which is first order: the step lemma is about membership in that
set. It gives what `MapThenSumSet`, `Max`, `Min` and `FlattenSeq` compute, how a sum
changes with one term of its table (`SumUpdate`), and that functions defined by
recursion over the naturals exist (`PrefixRecursion`, `NatRecursion`); `WorkProofs`
adds induction over the subsets of a finite set (`SubsetInduction`).

Only model-checked:

* all liveness (fairness and `ENABLED` are outside the prover's reach);
* the bridge's part of `DriversSound` (the browser's is `TransfersOnce`);
* what rests on operators that are recursive over data: `MessagesTrusted` (the
  codecs) and `StorageSound` (the erasure code);
* `DivergenceSeen`, `KernelAccounted`, `JournalSound`, `CertificationSound`,
  `OverlaySound`, `WorkflowsSound` and `ReplicasAgree`: most are conjunctions over
  two or three components, whose inductive invariants have not been worked out.

## 5. Observations outside the runs

Met while modelling. The first group was found by TLC on instances the runs leave
out; the rest by reading, neither a property nor a finding.

Refuted outside the runs' instances:

* `journal.rs:775`: a failed directory `fsync` in `compact` plus a power cut
  loses locks acknowledged afterwards; `:791`: the lock is on the inode that was
  opened, so after a compaction two processes serve; `replay` returns records
  that were never synced and `handle` (`authority.rs:1124`) repeats their votes.
* `agreement.rs:147`: `no_cert_can_form` counts votes of different rounds
  together, so a slot is void while a certificate of one round can still form.
* `333-compute-exchange/src/lib.rs:420`: a verdict names the attempt and not the
  result; delayed, it accepts another result submitted under the same id.
* `substrate/crates/wal/src/lib.rs:217`, "everything replayed is durable by
  definition", and `:28`, "can lose **only the un-synced suffix**": ship, let the
  sync of `drop` fail with its pages marked clean, reopen, get a receipt: a power
  cut loses the record. The same after a kill, or a failed directory `fsync`,
  between a cut's rename and its `fsync`, since `open` syncs the tail and not the
  directory. With every segment released and the log reopened, sequence numbers
  start again at 1.
* `bin/node.rs:455-456`, "a straggler that missed the change converges to the new
  epoch the same way": not while another member that is behind presents its order
  certificates just often enough to reset the holder's counter (`:553`).
* `333-consensus/src/lib.rs:153-160`: the quorum is 2f + 1 for any number of
  validators, so with six two disjoint quorums of three commit two hashes, against
  `:175`, "one block per height". `:332`, "Monotonic: never regress": two threads in
  `finalize` lower a block's finality again. A proposal that lands inside `finalize`
  gets the level of the block it replaced.
* `tcp.rs:239-242` promises one session per pair "without double delivery": once a
  write to an open connection has failed, by the write timeout say, the fresh
  session stands beside the old one's reader and frames arrive twice (as `:585`
  allows of a full mesh). If it is the acceptor's write that fails, the acceptor
  prunes the session while its reader keeps the dialler's live, so nobody redials and
  the acceptor's broadcasts no longer reach the dialler.
* `333-iam/src/capability.rs:7-8` says of replay that it is "defended here": the time
  is checked before the lock on the nonces, so a token whose nonce was purged in
  between, or whose presenter's clock is late, is accepted a second time after its
  expiry.
* `333-token/src/lib.rs:18-20`, the supply "Σ balances + Σ stakes" is shifted by
  nothing but mint, burn and slash: it dips while calls are between the two mutexes,
  and `total_supply` excludes stakes altogether. `mint` credits before it reports
  the overflow of the total; a transfer, a stake or an unbond that overflows loses
  the amount. `333-incentive`: distributing an epoch again mints it again.
* `tokenomics.rs:168-170` and `:452-454`, circulating = minted - burned: a slash
  counts burnt stake that stays in the balance, donations and bids leave the
  balances uncounted; `:201` and `:284` wrap in a release build.
* `crdt/rga.rs:106`, "correct convergence": two editors that exchanged everything show insertions
  in different orders if both typed after one character, not the front, without
  having seen each other (`:111-134`); an insert that overtakes the one it follows
  goes to the front, and a delete that does is forgotten (`:202-206`).
* `crdt/or_set.rs:183`, "All peers have acked → safe to GC all tombstones": an add
  delivered once more brings the element back at one replica.
* `p2p/webrtc.rs:413`: the callee's `send_on` may find no open channel on a link
  that is open.

`333-transfer`:

* `README.md` says one transfer per (account, seq) can certify; since rounds
  exist several can, and finality is the effect certificate's. `compact_journal`
  is not gated on `poisoned`. Two valid epoch certificates, hence
  `ConflictingCert`, need only honest restarts. A daemon that recovers in
  generation 1 keeps the committee of its command line; a second `reconfig` gets
  no votes; a lost epoch vote is never sent again; certificates are kept in
  memory, so all holders restarting loses them.
* `net.rs`: each phase drops the messages of other phases, so a certificate that
  lands late at an authority is lost and it stays behind; `MeshLedger` drops
  certificates out of order for ever; an order is broadcast once per call.
* `journal.rs`: a kill between creating the file and completing its header
  leaves a file that is refused; a bare file name has an empty parent, so the
  directory is never synced.
* `333-slotseal`: `no_cert_can_form` does not compare the committee of a vote.
* `333-compute-exchange`: `maximum_outstanding_assignments` is only compared
  with zero; a grant's `browser_foreground_only` is checked against the policy
  and not against leases; a settled attempt may be followed by another offer in
  the same generation, which the FSM document calls final; a recorded rejection
  answers a retry after its reason has gone.

`333-platform`:

* `netcode/bft_bridge.rs:182`: the `NewView` queued for the validator itself is
  dropped by the `return` that follows. `bft/`: `process_view_change_quorum` may
  take the view back; `propose` in mid-pipeline overwrites the pending block; a
  pool drained into a block that a view change abandons is lost; only leaders
  execute.
* `netcode/`: `restore_from_checkpoint` takes a prefix of the hash for the state;
  inputs queued for rolled-back frames are gone; `verify_bft_signature` binds
  neither frame nor hash. `apps/`: `check_victory` returns 0 for a draw and for
  owner 0; a digest that arrives before its frame is dropped; `state_hash` of the
  turn game omits owners, nodes and result; an input cancels a vote to eject, a
  late result of which still ejects.
* `kernel/`: `cancel` does not trim the ring of done jobs. `compute/`:
  `assign_next` pops a task before it looks for a worker and loses it, and gives out
  a task that was answered while it was queued, verified or not; results are taken
  from anybody; the GPU quorum of two is reached by one; a job completes on
  unverified results. `apps/rts.rs:137-141`: units of an owner without a purse are
  free.
* `sync.rs`: an oversized batch is drained and dropped; the dispatcher parses as
  JSON what the synchroniser sends as postcard.
* The worker of the signalling room removes the entry of a newer socket when an
  older one of the same peer closes. A ring size that does not divide 2^32 loses
  frames when the cursors wrap.

Other crates:

* `333-orchestration`: an `Err` from `execute` leaves committed steps in
  `Running`; the coordinator never replays its journal; concurrent calls run or
  undo steps twice.
* `substrate` consensus: `register` resets a version; a debit replayed at the
  current version finalizes without charging.
* `333-crdt`: `DvvSet::write` drops only its own older dots; duplicates stay in
  `rcb`'s pending list. `or_set.rs`: `compact` leaves `tombstone_times`.
* `333-iam`: nonces are burnt before signatures are checked. `333-release`: forks
  are allowed, so a later release may have a lower version.
* `333-wire`: decoders ignore trailing bytes; a frame of length zero panics the
  reader; one failing peer ends a broadcast. `333-membership`: a join evicts
  without a `Disconnect`; the peer that left may be promoted again.

## 6. Not modelled, and what comes next

Not modelled: cryptography (signatures and digests are facts), the bindings to
the browser and their JSON, wrappers of libp2p and PKARR, `333-mq`, the TCP node
of `333-wire`, encrypted file metadata, `social.rs`, `kernel/channel.rs`, fixed
point and random numbers, traits without an implementation, the web front end,
tests, benchmarks and examples.

Next, in this order:

1. Theorems: the journal without compaction (`FileJournal`); `CausallyApplied`; the
   quorum argument of `HeightConsensus` for 3f + 1 validators; `StoppedForGood` of `Hypervisor`.
2. `Exchange`: the states of `COMPUTE_EXCHANGE_FSM_SPEC.json` as an abstract
   specification that `ComputeExchange` refines, and an abstract transaction that
   `Saga` refines.
3. Compositions: `FileJournal` under `Authority`, `TcpPeers` and `Plumtree`
   under `RailNode`.
