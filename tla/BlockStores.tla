----------------------------- MODULE BlockStores ----------------------------
(***************************************************************************)
(* Content-addressed storage (333-content, 333-storage-advanced): block    *)
(* stores, the OPFS writer lock and replication over them; below, the      *)
(* erasure code.  Cid::of is injective, so a cid is the content it hashes. *)
(***************************************************************************)
EXTENDS Integers, Sequences, SequencesExt, FiniteSets, FiniteSetsExt

CONSTANTS
    Replicas,    \* attached stores
    Opfs,        \* those of them kept in OPFS, behind a writer lock
    Primary,     \* of PrimaryBackup
    Targets,     \* replica lists callers pass, repetitions included
    Blocks,      \* contents
    Q,           \* quorum
    MaxDamage    \* bound on stored blocks that rot or vanish

VARIABLES
    held,        \* held[r][c]: the bytes stored under cid c, or None
    locks,       \* locks[r]: cids whose path an OPFS writer holds
    faulty,      \* marked faulty
    acked,       \* history: acked[c] replicas that acknowledged a quorum put
    primed,      \* history: cids PrimaryBackup acknowledged
    rotten       \* history: <<r, c>> damaged after being stored

bsVars == <<held, locks, faulty, acked, primed, rotten>>

None == 0

\* BlockStore::put of an OPFS store needs the path's writer lock; any store
\* acknowledges with the hash of the bytes.
Accepts(r, c) == r \notin Opfs \/ c \notin locks[r]
\* BlockStore::get rehashes what it read.
get(r, c) == IF held[r][c] = c THEN c ELSE None

Store(rs, c) == [r \in Replicas |-> IF r \in rs THEN [held[r] EXCEPT ![c] = c] ELSE held[r]]

\* Mutant: a replica listed twice acknowledges twice.
AcksRepeated(target, c) ==
    Cardinality({i \in 1 .. Len(target) :
                    target[i] \in Replicas \ faulty /\ Accepts(target[i], c)})

\* QuorumReplication::put: each listed replica is asked once; what was stored
\* stays stored when the quorum is missed.
Asked(target, c) == {r \in Range(target) \ faulty : r \in Replicas /\ Accepts(r, c)}

Acks(target, c) == Cardinality(Asked(target, c))

QuorumPut(target, c) ==
    /\ target # <<>>
    /\ held' = Store(Asked(target, c), c)
    /\ acked' = IF Acks(target, c) >= Q
                THEN [acked EXCEPT ![c] = @ \cup Asked(target, c)] ELSE acked
    /\ rotten' = rotten \ (Asked(target, c) \X {c})
    /\ UNCHANGED <<locks, faulty, primed>>

\* QuorumReplication::get: the first replica whose bytes match.
QuorumGet(c) == \E r \in Replicas : get(r, c) = c

\* PrimaryBackup::put: the primary must accept; backups are best effort.
PrimaryPut(target, c) ==
    LET asked == {Primary} \cup {r \in Range(target) \cap Replicas : Accepts(r, c)} IN
    /\ Accepts(Primary, c)
    /\ held' = Store(asked, c)
    /\ primed' = primed \cup {c}
    /\ rotten' = rotten \ (asked \X {c})
    /\ UNCHANGED <<locks, faulty, acked>>
PrimaryGet(c) == get(Primary, c) = c

\* acquire_writer, WriterGuard::write of any bytes, and its drop.
AcquireWriter(r, c) ==
    /\ r \in Opfs /\ c \notin locks[r]
    /\ locks' = [locks EXCEPT ![r] = @ \cup {c}]
    /\ UNCHANGED <<held, faulty, acked, primed, rotten>>
GuardWrite(r, c, bytes) ==
    /\ c \in locks[r]
    /\ Cardinality(rotten) < MaxDamage \/ bytes = c
    /\ held' = [held EXCEPT ![r][c] = bytes]
    /\ rotten' = IF bytes = c THEN rotten \ {<<r, c>>} ELSE rotten \cup {<<r, c>>}
    /\ UNCHANGED <<locks, faulty, acked, primed>>
DropGuard(r, c) ==
    /\ c \in locks[r]
    /\ locks' = [locks EXCEPT ![r] = @ \ {c}]
    /\ UNCHANGED <<held, faulty, acked, primed, rotten>>

MarkFaulty(r) ==
    /\ r \notin faulty
    /\ faulty' = faulty \cup {r}
    /\ UNCHANGED <<held, locks, acked, primed, rotten>>

\* A stored block vanishes with its replica's disk.
Vanish(r, c) ==
    /\ held[r][c] # None /\ Cardinality(rotten) < MaxDamage
    /\ held' = [held EXCEPT ![r][c] = None]
    /\ rotten' = rotten \cup {<<r, c>>}
    /\ UNCHANGED <<locks, faulty, acked, primed>>

BsInit ==
    /\ held = [r \in Replicas |-> [c \in Blocks |-> None]]
    /\ locks = [r \in Replicas |-> {}]
    /\ faulty = {} /\ acked = [c \in Blocks |-> {}] /\ primed = {} /\ rotten = {}

BsNext ==
    \/ \E t \in Targets, c \in Blocks : QuorumPut(t, c) \/ PrimaryPut(t, c)
    \/ \E r \in Opfs, c \in Blocks :
          \/ AcquireWriter(r, c)
          \/ \E b \in Blocks : GuardWrite(r, c, b)
          \/ DropGuard(r, c)
    \/ \E r \in Replicas : MarkFaulty(r)
    \/ \E r \in Replicas, c \in Blocks : Vanish(r, c)

BsSpec == BsInit /\ [][BsNext]_bsVars

-----------------------------------------------------------------------------
\* A block acknowledged by a quorum stays readable while fewer than a quorum
\* of its copies have rotted, whatever locks and repeated replica names the
\* puts met; one the primary acknowledged while the primary's copy is sound
\* (QuorumReplication::put, get; PrimaryBackup::put, get; OpfsBlockStore).
AckedReadable ==
    /\ \A c \in Blocks :
          acked[c] # {} /\ Cardinality({r \in acked[c] : <<r, c>> \in rotten}) < Q
              => QuorumGet(c)
    /\ \A c \in primed : <<Primary, c>> \notin rotten => PrimaryGet(c)

(*****************************************************************************)
(* The xor erasure code (333-storage-advanced): a payload becomes K data and *)
(* M equal parity shards, shards are lost one after the other, and what is   *)
(* left is decoded.  A byte is a bit.                                        *)
(*****************************************************************************)
CONSTANTS
    K, M,        \* data and parity shards
    Encoded      \* payloads encoded

VARIABLES payload, shards

xpVars == <<payload, shards>>

shard_len(p) == LET n == Len(p) IN IF n = 0 THEN 1 ELSE (n + K - 1) \div K
data_shard(p, i) ==
    [b \in 1 .. shard_len(p) |->
        LET at == (i - 1) * shard_len(p) + b IN IF at <= Len(p) THEN p[at] ELSE 0]
xor(s, t) == [b \in 1 .. Len(s) |-> (s[b] + t[b]) % 2]
Zeros(n) == [b \in 1 .. n |-> 0]
parity(p) == FoldLeft(LAMBDA acc, i : xor(acc, data_shard(p, i)), Zeros(shard_len(p)),
                      [i \in 1 .. K |-> i])

encode(p) == [i \in 1 .. K + M |-> IF i <= K THEN data_shard(p, i) ELSE parity(p)]

\* decode: one missing data shard is the xor of the first parity and the others.
Missing(s) == {i \in 1 .. K : i \notin DOMAIN s}
Decodable(s) ==
    \/ Missing(s) = {}
    \/ Cardinality(Missing(s)) = 1 /\ \E j \in K + 1 .. K + M : j \in DOMAIN s

Recovered(s) ==
    LET p == s[Min(DOMAIN s \cap (K + 1 .. K + M))]
        others == SetToSeq(DOMAIN s \cap (1 .. K))
    IN FoldLeft(LAMBDA acc, i : xor(acc, s[i]), p, others)

decode(s) ==
    FlattenSeq([i \in 1 .. K |-> IF i \in DOMAIN s THEN s[i] ELSE Recovered(s)])

LoseShard(i) ==
    /\ i \in DOMAIN shards /\ Cardinality(DOMAIN shards) > 1
    /\ shards' = [j \in DOMAIN shards \ {i} |-> shards[j]]
    /\ UNCHANGED payload

XpInit == payload \in Encoded /\ shards = encode(payload)
XpNext == \E i \in 1 .. K + M : LoseShard(i)
XpSpec == XpInit /\ [][XpNext]_xpVars

-----------------------------------------------------------------------------
\* What can be decoded is the payload, zero padded (XorParityEncoder).
Reconstructs ==
    Decodable(shards) =>
        /\ SubSeq(decode(shards), 1, Len(payload)) = payload
        /\ \A b \in Len(payload) + 1 .. Len(decode(shards)) : decode(shards)[b] = 0
=============================================================================
