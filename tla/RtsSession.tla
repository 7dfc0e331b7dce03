----------------------------- MODULE RtsSession -----------------------------
(***************************************************************************)
(* Lockstep sessions of the RTS application (apps/rts_session.rs), the     *)
(* frame digests they exchange and the desync detector                     *)
(* (determinism/state_hash.rs).  All peers play the same script; a peer    *)
(* may once apply other inputs than the script's.  The map has one         *)
(* dimension; minerals and visibility never change in a session and are    *)
(* left out; a hash is the view it hashes.                                 *)
(***************************************************************************)
EXTENDS Integers, Sequences, SequencesExt, FiniteSets, FiniteSetsExt

CONSTANTS
    Peers,
    Units,       \* initial units: [owner, x, hp, cooldown]
    Script,      \* Script[f]: inputs of frame f
    Deviation,   \* inputs a diverging peer applies instead
    MAP_MAX, UNIT_RADIUS, AttackRange, Damage, CooldownMax,
    Retention,   \* desync_retention
    Slots,       \* MAX_SAVE_SLOTS
    MaxLead      \* frames a peer may be ahead of the slowest

VARIABLES
    tactical,    \* tactical[p]: [turn, units, selected, winner]
    ggrs,        \* ggrs[p]: save slots, frame -> state
    local,       \* local[p]: DesyncDetector, frame -> hash
    epochs,      \* epochs[p]: FrameEpochBridge, frames captured
    wire,        \* digests sent and not yet observed: [from, to, frame, hash]
    raised,      \* history: frames some peer raised a DesyncEvent for
    deviated     \* a peer has diverged

rtVars == <<tactical, ggrs, local, epochs, wire, raised, deviated>>

Without(f, k) == [i \in DOMAIN f \ {k} |-> f[i]]
With(f, k, v) == [i \in DOMAIN f \cup {k} |-> IF i = k THEN v ELSE f[i]]
Frames == DOMAIN Script
Absolute(i) == IF i < 0 THEN -i ELSE i
Clamp(i) == IF i < 0 THEN 0 ELSE IF i > MAP_MAX THEN MAP_MAX ELSE i

\* cmd::MOVE_DX_DY: an unknown unit or a place taken by another changes nothing.
Move(t, u, dx) ==
    LET to == Clamp(t.units[u].x + dx)
        blocked == \E o \in DOMAIN t.units \ {u} :
                      Absolute(to - t.units[o].x) < UNIT_RADIUS
    IN IF u \notin DOMAIN t.units \/ blocked THEN t
       ELSE [t EXCEPT !.units[u].x = to]

\* cmd::ATTACK_TARGET: the dead leave at once, whoever struck them.
Alive(units) == [u \in {v \in DOMAIN units : units[v].hp > 0} |-> units[u]]
Strikes(t, a, v) ==
    /\ a \in DOMAIN t.units /\ v \in DOMAIN t.units
    /\ t.units[a].cooldown = 0
    /\ Absolute(t.units[a].x - t.units[v].x) <= AttackRange
Attack(t, a, v) ==
    IF Strikes(t, a, v)
    THEN LET hit == [t.units EXCEPT ![v].hp = IF @ < Damage THEN 0 ELSE @ - Damage]
         IN [t EXCEPT !.units = Alive([hit EXCEPT ![a].cooldown = CooldownMax])]
    ELSE [t EXCEPT !.units = Alive(@)]

Select(t, u) ==
    IF u \in DOMAIN t.units THEN [t EXCEPT !.selected = @ \cup {u}] ELSE t

\* apply_inputs_to_tactical.
Apply(t, in) ==
    CASE in.cmd = "noop" -> t
      [] in.cmd = "move" -> Move(t, in.unit, in.dx)
      [] in.cmd = "attack" -> Attack(t, in.unit, in.target)
      [] in.cmd = "select" -> Select(t, in.unit)
      [] in.cmd = "deselect" -> [t EXCEPT !.selected = @ \ {in.unit}]
apply_inputs(t, inputs) == FoldLeft(Apply, t, inputs)

CoolDown(units) ==
    [u \in DOMAIN units |->
        [units[u] EXCEPT !.cooldown = IF @ > 0 THEN @ - 1 ELSE 0]]

\* check_victory: 0 when nobody is left, the owner when one is; never with one
\* initial owner.
Owners(units) == {units[u].owner : u \in DOMAIN units}
check_victory(units) ==
    CASE Cardinality(Owners(Units)) <= 1 -> -1
      [] Owners(units) = {} -> 0
      [] Cardinality(Owners(units)) = 1 -> CHOOSE o \in Owners(units) : TRUE
      [] OTHER -> -1

\* TacticalHashView: neither the winner nor the clock is hashed.
HashView(t) == [turn |-> t.turn, units |-> t.units, selected |-> t.selected]

Advanced(t, inputs) ==
    LET played == apply_inputs(t, inputs)
        cooled == CoolDown(played.units)
    IN [turn |-> t.turn + 1, units |-> cooled, selected |-> played.selected,
        winner |-> check_victory(cooled)]

Oldest(f) == Min(DOMAIN f)

\* GgrsStub::save_state: the oldest slot makes room.
save_state(slots, frame, t) ==
    With(IF Cardinality(DOMAIN slots) >= Slots THEN Without(slots, Oldest(slots)) ELSE slots,
         frame, t)

\* DesyncDetector::evict.
evict(hashes) ==
    IF Cardinality(DOMAIN hashes) > Retention THEN Without(hashes, Oldest(hashes)) ELSE hashes

record_local(hashes, frame, hash) == evict(With(hashes, frame, hash))

\* FrameEpochBridge::push_epoch.
push_epoch(buffer, frame) ==
    IF Len(buffer) >= Retention THEN Append(Tail(buffer), frame) ELSE Append(buffer, frame)

RtInit ==
    /\ tactical = [p \in Peers |-> [turn |-> 0, units |-> Units, selected |-> {}, winner |-> -1]]
    /\ ggrs = [p \in Peers |-> <<>>]
    /\ local = [p \in Peers |-> <<>>]
    /\ epochs = [p \in Peers |-> <<>>]
    /\ wire = {} /\ raised = {} /\ deviated = FALSE

\* advance_frame; a decided game no longer advances.
Advance(p, inputs) ==
    LET t == tactical[p]
        frame == t.turn
        next == Advanced(t, inputs)
        hash == HashView(next)
    IN /\ t.winner = -1
       /\ tactical' = [tactical EXCEPT ![p] = next]
       /\ ggrs' = [ggrs EXCEPT ![p] = save_state(@, frame, t)]
       /\ local' = [local EXCEPT ![p] = record_local(@, frame, hash)]
       /\ epochs' = [epochs EXCEPT ![p] = push_epoch(@, frame)]
       /\ wire' = wire \cup {[from |-> p, to |-> q, frame |-> frame, hash |-> hash] :
                               q \in Peers \ {p}}
       /\ UNCHANGED raised

Near(p) == \A q \in Peers : tactical[p].turn - tactical[q].turn < MaxLead

AdvanceScript(p) ==
    /\ tactical[p].turn + 1 \in Frames /\ Near(p)
    /\ Advance(p, Script[tactical[p].turn + 1])
    /\ UNCHANGED deviated

AdvanceDeviating(p) ==
    /\ ~deviated /\ deviated' = TRUE
    /\ tactical[p].turn + 1 \in Frames /\ Near(p)
    /\ Advance(p, Deviation)

\* Mutant: a digest is compared with the latest frame only.
ObserveLatest(m) ==
    LET mine == local[m.to] IN
    /\ wire' = wire \ {m}
    /\ raised' = IF m.frame = tactical[m.to].turn - 1 /\ mine[m.frame] # m.hash
                 THEN raised \cup {m.frame} ELSE raised
    /\ UNCHANGED <<tactical, ggrs, local, epochs, deviated>>

\* observe_peer_digest: compared only with a frame already computed and kept.
ObservePeer(m) ==
    LET mine == local[m.to] IN
    /\ wire' = wire \ {m}
    /\ raised' = IF m.frame \in DOMAIN mine /\ mine[m.frame] # m.hash
                 THEN raised \cup {m.frame} ELSE raised
    /\ UNCHANGED <<tactical, ggrs, local, epochs, deviated>>

RtNext ==
    \/ \E p \in Peers : AdvanceScript(p) \/ AdvanceDeviating(p)
    \/ \E m \in wire : ObservePeer(m)

RtSpec == RtInit /\ [][RtNext]_rtVars

-----------------------------------------------------------------------------
\* Units never come closer than their radius, whatever is ordered
\* (apply_inputs_to_tactical).
Apart ==
    \A p \in Peers : \A u, v \in DOMAIN tactical[p].units :
        u # v => Absolute(tactical[p].units[u].x - tactical[p].units[v].x) >= UNIT_RADIUS

\* Once the digests of two peers for a frame have been delivered, a difference
\* in that frame has been noticed by one of them, though a digest that arrives
\* before its frame is dropped and old hashes are evicted; and slots hold what
\* the frame started from (DesyncDetector, observe_peer_digest, save_state).
DivergenceSeen ==
    /\ \A p, q \in Peers : \A f \in DOMAIN local[p] \cap DOMAIN local[q] :
          local[p][f] # local[q][f] /\ (\A m \in wire : m.frame # f) => f \in raised
    /\ \A p \in Peers : \A f \in DOMAIN ggrs[p] : ggrs[p][f].turn = f
=============================================================================
