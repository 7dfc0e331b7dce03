------------------------------ MODULE Lockstep ------------------------------
(***************************************************************************)
(* The two-layer netcode: FastLockstepLoop and SlowBftCheckpoint           *)
(* (netcode/two_layer.rs), the FrameDivergenceDetector that raises         *)
(* desyncs and holds the certified floor (netcode/divergence.rs), and the  *)
(* single-node checkpoint provider (netcode/bft_bridge.rs).  A state is    *)
(* the base it was restored from and the set of inputs applied an odd      *)
(* number of times since: inputs are folded in by exclusive or.  A base    *)
(* is the hash of a checkpoint, at most MaxRestores deep.                  *)
(***************************************************************************)
EXTENDS Integers, Sequences, SequencesExt, FiniteSets, FiniteSetsExt

CONSTANTS
    Inputs,
    MAX_ROLLBACK,      \* MAX_ROLLBACK_FRAMES
    HashInterval,      \* FAST_HASH_INTERVAL
    CheckpointFrames,  \* checkpoint_frame_interval
    LkRetention,
    Committee,         \* validators
    LkMaxFrame, MaxQueue, MaxRestores

VARIABLES
    fast,        \* [frame, acc, snaps, queue, floor, floorHash]
    detector,    \* [local, floor, floorHash, pending]
    slow,        \* last_checkpoint with its certificate, or NoCheckpoint
    past         \* history: frame -> state at its start, on the current timeline

lkVars == <<fast, detector, slow, past>>

Zero == [base |-> <<>>, odd |-> {}, depth |-> 0]
Hash(frame, acc) == <<frame, acc.base, acc.odd, acc.depth>>
ZeroHash == <<>>
NoCheckpoint == [frame |-> -1, hash |-> ZeroHash]

\* state_accumulator ^= b * k.
Xor(acc, b) == [acc EXCEPT !.odd = SymDiff(@, {b})]
Fold(acc, inputs) == FoldLeft(Xor, acc, inputs)

should_broadcast_hash(frame) == frame % HashInterval = 0
is_checkpoint_frame(frame) == frame > 0 /\ frame % CheckpointFrames = 0

LkInit ==
    /\ fast = [frame |-> 0, acc |-> Zero, snaps |-> <<>>, queue |-> <<>>,
               floor |-> 0, floorHash |-> ZeroHash]
    /\ detector = [local |-> <<>>, floor |-> 0, floorHash |-> ZeroHash, pending |-> <<>>]
    /\ slow = NoCheckpoint
    /\ past = [f \in {0} |-> Zero]

\* The oldest hashes leave (DesyncDetector::evict).
Retained(local) ==
    IF Cardinality(DOMAIN local) > LkRetention
    THEN [f \in DOMAIN local \ {Min(DOMAIN local)} |-> local[f]] ELSE local
Recorded(local, frame, hash) ==
    Retained([f \in DOMAIN local \cup {frame} |-> IF f = frame THEN hash ELSE local[f]])

SubmitInput(b) ==
    /\ Len(fast.queue) < MaxQueue
    /\ fast' = [fast EXCEPT !.queue = Append(@, b)]
    /\ UNCHANGED <<detector, slow, past>>

\* advance_frame: snapshot, the frame's inputs, then the queue; a broadcast
\* frame's hash is recorded by the detector.
Keep(snaps) == IF Len(snaps) > MAX_ROLLBACK THEN Tail(snaps) ELSE snaps
AdvanceFrame(inputs) ==
    LET acc == Fold(Fold(fast.acc, inputs), fast.queue)
        next == fast.frame + 1
    IN /\ fast.frame < LkMaxFrame
       /\ fast' = [fast EXCEPT !.frame = next, !.acc = acc, !.queue = <<>>,
                     !.snaps = Keep(Append(@, [frame |-> fast.frame, acc |-> fast.acc]))]
       /\ detector' = IF should_broadcast_hash(next)
                      THEN [detector EXCEPT !.local = Recorded(@, next, Hash(next, acc))]
                      ELSE detector
       /\ past' = [f \in DOMAIN past \cup {next} |-> IF f = next THEN acc ELSE past[f]]
       /\ UNCHANGED slow

\* The snapshot a rollback restores: the last one at or before the target.
Reachable(target) ==
    /\ fast.frame - target <= MAX_ROLLBACK
    /\ target >= fast.floor
Candidates(target) == {i \in DOMAIN fast.snaps : fast.snaps[i].frame <= target}

\* Mutant: later snapshots survive the rollback.
RestoreKeeping(i) ==
    /\ fast' = [fast EXCEPT !.acc = fast.snaps[i].acc, !.frame = fast.snaps[i].frame]
    /\ past' = [f \in {g \in DOMAIN past : g <= fast.snaps[i].frame} |-> past[f]]

\* rollback_on_desync (found).
Restore(i) ==
    /\ fast' = [fast EXCEPT !.acc = fast.snaps[i].acc, !.frame = fast.snaps[i].frame,
                  !.snaps = SubSeq(@, 1, i)]
    /\ past' = [f \in {g \in DOMAIN past : g <= fast.snaps[i].frame} |-> past[f]]

Rollback(target) ==
    /\ Reachable(target)
    /\ IF Candidates(target) # {} THEN Restore(Max(Candidates(target)))
       ELSE UNCHANGED <<fast, past>>
    /\ UNCHANGED <<detector, slow>>

\* observe_peer: a hash of a recorded frame that differs is queued.
ObserveHash(frame, hash) ==
    /\ frame \in DOMAIN detector.local /\ detector.local[frame] # hash
    /\ Len(detector.pending) < MaxQueue
    /\ detector' = [detector EXCEPT !.pending = Append(@, frame)]
    /\ UNCHANGED <<fast, slow, past>>

\* The caller takes the events and rolls back to the earliest frame.
DrainDesyncs ==
    LET target == Min(Range(detector.pending)) IN
    /\ detector.pending # <<>>
    /\ detector' = [detector EXCEPT !.pending = <<>>]
    /\ IF Reachable(target) /\ Candidates(target) # {}
       THEN Restore(Max(Candidates(target))) ELSE UNCHANGED <<fast, past>>
    /\ UNCHANGED slow

\* create_checkpoint through HotStuffCheckpointProvider: the pipeline of a
\* single validator runs to the commit inside the call.
CreateCheckpoint ==
    /\ is_checkpoint_frame(fast.frame)
    /\ slow' = [frame |-> fast.frame, hash |-> Hash(fast.frame, fast.acc)]
    /\ UNCHANGED <<fast, detector, past>>

\* set_checkpoint_floor: the front snapshots leave while they are older than the floor.
Older(n) == {k \in 0 .. Len(fast.snaps) : \A i \in 1 .. k : fast.snaps[i].frame < n}
SetFloor ==
    /\ slow # NoCheckpoint
    /\ fast' = [fast EXCEPT !.floor = slow.frame, !.floorHash = slow.hash,
                  !.snaps = SubSeq(@, Max(Older(slow.frame)) + 1, Len(@))]
    /\ UNCHANGED <<detector, slow, past>>

\* restore_from_checkpoint: the state becomes the first bytes of the hash.
Depth(hash) == IF hash = ZeroHash THEN 0 ELSE hash[4]
RestoreCheckpoint ==
    LET acc == [base |-> fast.floorHash, odd |-> {}, depth |-> Depth(fast.floorHash) + 1]
    IN /\ Depth(fast.floorHash) < MaxRestores
       /\ fast' = [fast EXCEPT !.acc = acc, !.frame = fast.floor, !.snaps = <<>>]
       /\ past' = [f \in {fast.floor} |-> acc]
       /\ UNCHANGED <<detector, slow>>

\* verify_bft_signature: a quorum of Commit votes; the genesis certificate
\* always passes.  Neither the frame nor the hash is looked at.
verify_bft_signature(qc) ==
    \/ qc.genesis
    \/ /\ qc.signers # {} /\ qc.signers \subseteq Committee
       /\ Cardinality(qc.signers) >= (2 * Cardinality(Committee)) \div 3 + 1
       /\ qc.phase = "Commit"

AcceptCheckpoint(frame, hash, qc) ==
    /\ verify_bft_signature(qc)
    /\ frame >= detector.floor
    /\ detector' = [detector EXCEPT !.floor = frame, !.floorHash = hash]
    /\ UNCHANGED <<fast, slow, past>>

Certificates ==
    {[genesis |-> TRUE, phase |-> "Prepare", signers |-> {}]} \cup
    [genesis : {FALSE}, phase : {"Prepare", "Commit"}, signers : SUBSET Committee]

LkNext ==
    \/ \E b \in Inputs : SubmitInput(b) \/ AdvanceFrame(<<b>>) \/ AdvanceFrame(<<>>)
    \/ \E t \in 0..LkMaxFrame : Rollback(t)
    \/ \E f \in DOMAIN detector.local : ObserveHash(f, ZeroHash)
    \/ DrainDesyncs \/ CreateCheckpoint \/ SetFloor \/ RestoreCheckpoint
    \/ slow # NoCheckpoint /\ \E qc \in Certificates : AcceptCheckpoint(slow.frame, slow.hash, qc)

LkSpec == LkInit /\ [][LkNext]_lkVars

-----------------------------------------------------------------------------
\* Every snapshot a rollback may restore holds the state its frame started from
\* on the timeline that was not abandoned, whatever rollbacks, checkpoints and
\* restores came between (rollback_on_desync, set_checkpoint_floor,
\* restore_from_checkpoint); and none is of a later frame than the current one.
SnapshotsTrue ==
    /\ past[fast.frame] = fast.acc
    /\ \A i \in DOMAIN fast.snaps :
          LET s == fast.snaps[i] IN
          s.frame \in DOMAIN past /\ s.frame <= fast.frame /\ past[s.frame] = s.acc
=============================================================================
