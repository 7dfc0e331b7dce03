---- MODULE MCCrates ----
(* The crates beside the platform, each in a small instance: the journals, the
   mailboxes and overlays under the rail, storage, replicated data, accounts and
   services. As in MCPlatform a behaviour is of one component, its focus, whose
   variables take the slots its INSTANCE names. SlotSeal, Wal and TokenPool are
   extended, with variables of their own: they are the components "seal", "wal",
   "tokens" and "billing". *)
EXTENDS SlotSeal, Wal, TokenPool, Sequences, TLC

CONSTANTS Foci,                      \* components explored
          a1, a2, a3, b1, A, B, C    \* authorities and orders of SlotSeal

\* FileJournal: two orders contest slot 1, one more spends slot 2. The journal is right
\* for a compacted file whose process is killed, a new file on a machine that loses
\* power, and two processes overlapping on an existing file.
LockOf(s, id) == [slot |-> s, id |-> id]
Deployment(procs, compacts, power, fresh) ==
  [procs |-> procs, compacts |-> compacts, power |-> power, fresh |-> fresh]
Supported == {Deployment({"p1"}, TRUE, FALSE, TRUE), Deployment({"p1"}, FALSE, TRUE, TRUE),
              Deployment({"p1", "p2"}, FALSE, TRUE, FALSE)}

\* MeshRounds: two orders for the first sequence number, one for the second.
Spend(id, seq) == [id |-> id, seq |-> seq, round |-> 0]

\* Saga: b before a and d, a before c.
SagaDeps == "a" :> {"b"} @@ "b" :> {} @@ "c" :> {"a"} @@ "d" :> {"b"}

\* TokenPool: half a stake is slashed, or all of it, as a product that may wrap.
Slashes == {<<1, 2>>, <<2, 2>>}

\* TrustStores: three tokens of one audience that share a nonce, one of them forged, one
\* valid an instant later, and manifests of three releases with any version, parent and
\* signature.
TokenOf(from, genuine) ==
  [audience |-> "s1", nonce |-> "n1", caps |-> {"read"}, from |-> from, until |-> from + 2,
   genuine |-> genuine]
TrustTokens == {TokenOf(0, TRUE), TokenOf(1, TRUE), TokenOf(0, FALSE)}
Releases ==
  {[id |-> i, version |-> v, parent |-> p, signer |-> IF i = "r3" THEN "k2" ELSE "k1", genuine |-> g] :
     i \in {"r1", "r2", "r3"}, v \in 1..2, p \in {"none", "r1", "r2", "r3"}, g \in BOOLEAN}

VARIABLES focus,   \* the component this behaviour is of
          s1, s2, s3, s4, s5, s6, s7, s8, s9, s10, s11, s12, s13, s14, s15, s16, s17, s18,
          s19, s20, s21, s22   \* its variables

Jrn == INSTANCE FileJournal WITH
    Procs <- {"p1", "p2"}, Orders <- {LockOf(1, "A"), LockOf(1, "B"), LockOf(2, "A")},
    MaxInode <- 2, Deployments <- Supported, deploy <- s1, file <- s2, safe <- s3,
    path <- s4, safe_path <- s5, held <- s6, proc <- s7, acked <- s8

Rnd == INSTANCE MeshRounds WITH
    Auths <- <<"a1", "a2", "a3", "a4">>, Ledgers <- {"r"}, Client <- "c",
    Orders <- {Spend("o", 0), Spend("p", 0), Spend("q", 1)}, Slow <- {"a4"},
    MaxRounds <- 2, MaxCalls <- 2, MaxFaults <- 1, locked <- s1, applied <- s2,
    poisoned <- s3, inbox <- s4, wire <- s5, call <- s6, calls <- s7, results <- s8,
    effects <- s9

Hgt == INSTANCE HeightConsensus WITH
    Validators <- {1, 2, 3, 4}, Blocks <- {"b1", "b2"},
    Hash <- [b \in {"b1", "b2"} |-> b], Threads <- {1, 2}, MaxPropose <- 2, MaxVotes <- 3,
    block <- s1, votes <- s2, call <- s3, proposals <- s4, raced <- s5, returned <- s6

Tcp == INSTANCE TcpPeers WITH
    Addrs <- {1, 2}, MaxRestart <- 1, MaxFaults <- 1, MaxConn <- 3, inc <- s1, conns <- s2,
    peers <- s3, readers <- s4, send <- s5, stops <- s6, faults <- s7, illegal <- s8

Gsp == INSTANCE Plumtree WITH
    Peers <- {1, 2, 3}, Msgs <- {"m1", "m2"}, Dropped <- {3}, eager <- s1, lazy <- s2,
    seen <- s3, pending <- s4, mail <- s5, control <- s6, delivered <- s7,
    Nodes <- {1, 2, 3, 4}, ActiveCap <- 2, PassiveCap <- 2,
    Contacts <- {<<2, 1>>, <<3, 1>>, <<4, 1>>, <<4, 2>>}, MaxTtl <- 1, MaxMessages <- 6,
    active <- s1, passive <- s2, chan <- s3, joined <- s4, messages <- s5, evicted <- s6

Bks == INSTANCE PeerBook WITH
    Threads <- {"t1", "t2"}, Senders <- {"a", "b"}, Topics <- {"offer"}, Seqs <- {1},
    MaxPublish <- 3, Tolerance <- 1, InvalidWeight <- 2, Bits <- 3, Local <- 0, K <- 2,
    Known <- {4, 5, 6, 2}, MaxStamp <- 2, MaxShown <- 4, RelayPeers <- {"p", "q", "r"},
    MaxConnections <- 2, MaxPairs <- 2, Players <- {"x", "y"}, AfkTimeout <- 1,
    MaxClock <- 4, book <- s1, topics <- s2, stats <- s3, seen <- s4, dropped <- s5,
    inbox <- s6, drained <- s7, call <- s8, published <- s9, buckets <- s10,
    records <- s11, shown <- s12, oldest <- s13, met <- s14, conns <- s15, pairs <- s16,
    figures <- s17, clock <- s18, lastInput <- s19, vote <- s20, ejected <- s21,
    decided <- s22

Cdc == INSTANCE WireCodec WITH
    MaxText <- 2, MaxItems <- 2, Seeds <- {0, 1, 2, 3, 4, 7, 10},
    Changes <- {0, 1, 2, 3, 8, 9, 21}, format <- s1, sent <- s2, damage <- s3,
    bytes <- s4, given <- s5, got <- s6, reader <- s7

Trs == INSTANCE TrustStores WITH
    Services <- {"s1", "s2"}, Capabilities <- {"read", "write"}, Tokens <- TrustTokens,
    MaxTime <- 3, MaxAccepted <- 3, Callers <- {1, 2}, Skew <- 1, Replicas <- {1, 2},
    Nonces <- {"n1"}, Reasons <- {"lost", "left"}, Manifests <- Releases, Signers <- {"k1", "k2"},
    NoParent <- "none", store <- s1, clock <- s2, seen <- s3, calls <- s4,
    accepted <- s5, revoked <- s6, told <- s7, trusted <- s8, checked <- s9, releases <- s10

Sga == INSTANCE Saga WITH
    Order <- <<"a", "b", "c", "d">>, Deps <- SagaDeps, MaxFaults <- 4, MaxAttempts <- 2,
    step_state <- s1, wf_state <- s2, committed_order <- s3, call <- s4,
    committed <- s5, attempts <- s6, journaled <- s7, runs <- s8, undone <- s9,
    faults <- s10

Hyp == INSTANCE Hypervisor WITH
    Instances <- {1, 2}, Quota <- 2, Deltas <- {1}, MaxSnaps <- 2, slots <- s1,
    snap_counter <- s2, everStopped <- s3

Blk == INSTANCE BlockStores WITH
    Replicas <- {1, 2, 3}, Opfs <- {1}, Primary <- 1,
    Targets <- {<<1, 1, 2>>, <<1, 1>>}, Blocks <- {7, 8}, Q <- 2, MaxDamage <- 1,
    held <- s1, locks <- s2, faulty <- s3, acked <- s4, primed <- s5, rotten <- s6,
    K <- 3, M <- 2, Encoded <- {<<1, 0, 1>>, <<1, 1>>, <<1>>, <<0, 1, 1, 1, 1>>},
    payload <- s1, shards <- s2

Cau == INSTANCE CausalReplica WITH
    Owners <- {"a", "b", "c"}, Opening <- 1, Amounts <- {1}, MaxSeq <- 5,
    MaxBalance <- 5, MaxSubmit <- 3, MaxRepeat <- 1, ledger <- s1, delivered <- s2,
    pending <- s3, sent <- s4, arrivals <- s5, repeats <- s6, rejected <- s7

Edi == INSTANCE CollabEditor WITH
    Peers <- {1, 2}, MaxSeq <- 3, MaxOps <- 5, MaxDeletes <- 1, MaxText <- 2, nodes <- s1, seq <- s2,
    ops <- s3, polled <- s4, early <- s5

Eds == INSTANCE CollabEditor WITH
    Peers <- {1, 2, 3}, MaxSeq <- 2, MaxOps <- 4, MaxDeletes <- 1, MaxText <- 1, nodes <- s1, seq <- s2,
    ops <- s3, polled <- s4, early <- s5

Crd == INSTANCE StateCrdts WITH
    Replicas <- {1, 2}, Keys <- {"k1"},
    Kinds <- {"counter", "map", "lww", "dvv", "orset"}, Cap <- 2, MaxTime <- 2,
    MaxUpdates <- 3, MaxStaged <- 1, kind <- s1, state <- s2, seq <- s3, timed <- s4,
    buffer <- s5, sent <- s6, seen <- s7, updates <- s8, staged <- s9, expired <- s10

\* The slots a component does not use stay 0.
Free22 == s22 = 0
rest22 == <<s22>>
Free21 == s21 = 0 /\ Free22
rest21 == <<s21, rest22>>
Free20 == s20 = 0 /\ Free21
rest20 == <<s20, rest21>>
Free19 == s19 = 0 /\ Free20
rest19 == <<s19, rest20>>
Free18 == s18 = 0 /\ Free19
rest18 == <<s18, rest19>>
Free17 == s17 = 0 /\ Free18
rest17 == <<s17, rest18>>
Free16 == s16 = 0 /\ Free17
rest16 == <<s16, rest17>>
Free15 == s15 = 0 /\ Free16
rest15 == <<s15, rest16>>
Free14 == s14 = 0 /\ Free15
rest14 == <<s14, rest15>>
Free13 == s13 = 0 /\ Free14
rest13 == <<s13, rest14>>
Free12 == s12 = 0 /\ Free13
rest12 == <<s12, rest13>>
Free11 == s11 = 0 /\ Free12
rest11 == <<s11, rest12>>
Free10 == s10 = 0 /\ Free11
rest10 == <<s10, rest11>>
Free9 == s9 = 0 /\ Free10
rest9 == <<s9, rest10>>
Free8 == s8 = 0 /\ Free9
rest8 == <<s8, rest9>>
Free7 == s7 = 0 /\ Free8
rest7 == <<s7, rest8>>
Free6 == s6 = 0 /\ Free7
rest6 == <<s6, rest7>>
Free5 == s5 = 0 /\ Free6
rest5 == <<s5, rest6>>
Free4 == s4 = 0 /\ Free5
rest4 == <<s4, rest5>>
Free3 == s3 = 0 /\ Free4
rest3 == <<s3, rest4>>

slots == <<s1, s2, s3, s4, s5, s6, s7, s8, s9, s10, s11, s12, s13, s14, s15, s16, s17,
           s18, s19, s20, s21, s22>>

cratesVars == <<focus, slots, votes, node, walVars, tkVars, blVars>>

CratesInit ==
  /\ focus \in Foci
  /\ Init /\ WalInit /\ TkInit /\ BlInit
  /\ \/ focus = "journal" /\ Jrn!FjInit /\ Free9
     \/ focus = "rounds" /\ Rnd!MrInit /\ Free10
     \/ focus = "heights" /\ Hgt!HcInit /\ Free7
     \/ focus = "tcp" /\ Tcp!TcpInit /\ Free9
     \/ focus = "gossip" /\ Gsp!PtInit /\ Free8
     \/ focus = "views" /\ Gsp!HvInit /\ Free7
     \/ focus = "books" /\ Bks!PbInit
     \/ focus = "codec" /\ Cdc!WcInit /\ Free8
     \/ focus = "trust" /\ Trs!TrInit /\ Free11
     \/ focus = "saga" /\ Sga!SgInit /\ Free11
     \/ focus = "vmm" /\ Hyp!HyInit /\ Free4
     \/ focus = "stores" /\ Blk!BsInit /\ Free7
     \/ focus = "parity" /\ Blk!XpInit /\ Free3
     \/ focus = "causal" /\ Cau!CrInit /\ Free8
     \/ focus = "editor" /\ Edi!EdInit /\ Free6
     \/ focus = "editors" /\ Eds!EdInit /\ Free6
     \/ focus = "crdts" /\ Crd!ScInit /\ Free11
     \/ focus \in {"seal", "wal", "tokens", "billing"} /\ s1 = 0 /\ s2 = 0 /\ Free3

CratesNext ==
  /\ UNCHANGED focus
  /\ \/ focus = "seal" /\ Next /\ UNCHANGED <<slots, walVars, tkVars, blVars>>
     \/ focus = "wal" /\ WalNext /\ UNCHANGED <<slots, votes, node, tkVars, blVars>>
     \/ focus = "tokens" /\ TkNext /\ UNCHANGED <<slots, votes, node, walVars, blVars>>
     \/ focus = "billing" /\ BlNext /\ UNCHANGED <<slots, votes, node, walVars, tkVars>>
     \/ /\ UNCHANGED <<votes, node, walVars, tkVars, blVars>>
        /\ \/ focus = "journal" /\ Jrn!FjNext /\ UNCHANGED rest9
           \/ focus = "rounds" /\ Rnd!MrNext /\ UNCHANGED rest10
           \/ focus = "heights" /\ Hgt!HcNext /\ UNCHANGED rest7
           \/ focus = "tcp" /\ Tcp!TcpNext /\ UNCHANGED rest9
           \/ focus = "gossip" /\ Gsp!PtNext /\ UNCHANGED rest8
           \/ focus = "views" /\ Gsp!HvNext /\ UNCHANGED rest7
           \/ focus = "books" /\ Bks!PbNext
           \/ focus = "codec" /\ Cdc!WcNext /\ UNCHANGED rest8
           \/ focus = "trust" /\ Trs!TrNext /\ UNCHANGED rest11
           \/ focus = "saga" /\ Sga!SgNext /\ UNCHANGED rest11
           \/ focus = "vmm" /\ Hyp!HyNext /\ UNCHANGED rest4
           \/ focus = "stores" /\ Blk!BsNext /\ UNCHANGED rest7
           \/ focus = "parity" /\ Blk!XpNext /\ UNCHANGED rest3
           \/ focus = "causal" /\ Cau!CrNext /\ UNCHANGED rest8
           \/ focus = "editor" /\ Edi!EdNext /\ UNCHANGED rest6
           \/ focus = "editors" /\ Eds!EdNext /\ UNCHANGED rest6
           \/ focus = "crdts" /\ Crd!ScNext /\ UNCHANGED rest11

CratesSpec == CratesInit /\ [][CratesNext]_cratesVars

----
\* Acknowledged locks survive every crash, one process serves a file, and memory
\* is what a replay returns (journal.rs: append, claim, truncate_torn_tail).
JournalSound ==
  /\ focus = "journal" => Jrn!AckedDurable
  /\ focus = "journal" => Jrn!Exclusive
  /\ focus = "journal" => Jrn!ReplayAgrees

\* An order reported certified is held by a quorum and by no rival, replicas apply one
\* sequence of orders, finality is what a quorum applied, and a height is decided by a
\* quorum of votes for that block (net.rs, certify, consensus333).
CertificationSound ==
  /\ focus = "rounds" => Rnd!RoundsSound
  /\ focus = "heights" => Hgt!DecisionsEarned

\* Sessions, overlay views and peer tables stay well-formed through failures, and
\* everything broadcast reaches everyone once (tcp.rs, epidemic.rs, gossip333,
\* membership333, signaling333, kademlia333, peer_eject).
OverlaySound ==
  /\ focus = "tcp" => Tcp!SessionsSound
  /\ focus = "gossip" => Gsp!Disseminated
  /\ focus = "views" => Gsp!ViewsSound
  /\ focus = "books" => Bks!PeersKept

\* Bytes are read as what was written or not at all; a token is accepted once
\* while it is valid, revocations stay, releases form a chain (wire.rs, journal.rs, wire333, iam333,
\* release333).
MessagesTrusted ==
  /\ focus = "codec" => Cdc!CodecFaithful
  /\ focus = "trust" => Trs!TrustKept

\* A saga that rolls back undoes what it did, in reverse, and a stopped instance
\* stays stopped (SagaCoordinator, hypervisor333).
WorkflowsSound ==
  /\ focus = "saga" => Sga!RollbackSound
  /\ focus = "vmm" => Hyp!StoppedForGood

\* An acknowledged block can be read while its damage is within bounds, and erasure
\* coding rebuilds what it promises (storage-advanced333).
StorageSound ==
  /\ focus = "stores" => Blk!AckedReadable
  /\ focus = "parity" => Blk!Reconstructs

\* Transfers are applied in causal order, and replicas that saw the same updates
\* show the same value (rcb, rga, crdt333).
ReplicasAgree ==
  /\ focus = "causal" => Cau!CausallyApplied
  /\ focus = "editor" => Edi!EditorsAgree
  /\ focus = "editors" => Eds!EditorsAgree
  /\ focus = "crdts" => Crd!SameSeenSameValue
====
