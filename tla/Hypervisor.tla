----------------------------- MODULE Hypervisor -----------------------------
(***************************************************************************)
(* InMemoryHypervisor (333-hypervisor): instances with a lifecycle, usage  *)
(* under a quota, and snapshots that may be restored.  One number stands   *)
(* for the three resources, which the code treats alike.                   *)
(***************************************************************************)
EXTENDS Integers, FiniteSets

CONSTANTS Instances, Quota, Deltas, MaxSnaps

VARIABLES
    slots,       \* id -> [state, usage, snapshots: number -> [state, usage]]
    snap_counter,
    everStopped  \* history: instances stopped since they were created

hyVars == <<slots, snap_counter, everStopped>>

valid_transition(from, to) ==
    \/ from = "Created" /\ to \in {"Running", "Stopped"}
    \/ from = "Running" /\ to \in {"Paused", "Stopped"}
    \/ from = "Paused" /\ to \in {"Running", "Stopped"}

valid_restore(from, to) == from = to \/ valid_transition(from, to)

Updated(id, slot) == [i \in DOMAIN slots \cup {id} |-> IF i = id THEN slot ELSE slots[i]]

HyInit == slots = [i \in {} |-> 0] /\ snap_counter = 0 /\ everStopped = {}

Create(id) ==
    /\ id \notin DOMAIN slots
    /\ slots' = Updated(id, [state |-> "Created", usage |-> 0, snapshots |-> [n \in {} |-> 0]])
    /\ UNCHANGED <<snap_counter, everStopped>>

Destroy(id) ==
    /\ id \in DOMAIN slots
    /\ slots' = [i \in DOMAIN slots \ {id} |-> slots[i]]
    /\ everStopped' = everStopped \ {id}
    /\ UNCHANGED snap_counter

\* start, pause, resume, stop.
Transition(id, to) ==
    /\ id \in DOMAIN slots
    /\ valid_transition(slots[id].state, to)
    /\ slots' = [slots EXCEPT ![id].state = to]
    /\ everStopped' = IF to = "Stopped" THEN everStopped \cup {id} ELSE everStopped
    /\ UNCHANGED snap_counter

Snapshot(id) ==
    /\ snap_counter < MaxSnaps
    /\ snap_counter' = snap_counter + 1
    /\ IF id \in DOMAIN slots
       THEN slots' = [slots EXCEPT ![id].snapshots =
                        [n \in DOMAIN @ \cup {snap_counter'} |->
                           IF n = snap_counter'
                           THEN [state |-> slots[id].state, usage |-> slots[id].usage]
                           ELSE @[n]]]
       ELSE UNCHANGED slots      \* the number is used up by a refused call
    /\ UNCHANGED everStopped

Restore(id, n) ==
    /\ id \in DOMAIN slots /\ n \in DOMAIN slots[id].snapshots
    /\ LET s == slots[id].snapshots[n] IN
       /\ valid_restore(slots[id].state, s.state)
       /\ slots' = [slots EXCEPT ![id].state = s.state, ![id].usage = s.usage]
       /\ everStopped' = IF s.state = "Stopped" THEN everStopped \cup {id} ELSE everStopped
    /\ UNCHANGED snap_counter

DropSnapshot(n) ==
    /\ \E id \in DOMAIN slots : n \in DOMAIN slots[id].snapshots
    /\ slots' = [id \in DOMAIN slots |->
                   [slots[id] EXCEPT !.snapshots = [m \in DOMAIN @ \ {n} |-> @[m]]]]
    /\ UNCHANGED <<snap_counter, everStopped>>

check_slot(slot, delta) == slot.usage + delta <= Quota

\* record: the check and the update under one lock, whatever the state.
RecordUsage(id, delta) ==
    /\ id \in DOMAIN slots
    /\ check_slot(slots[id], delta)
    /\ slots' = [slots EXCEPT ![id].usage = @ + delta]
    /\ UNCHANGED <<snap_counter, everStopped>>

HyNext ==
    \/ \E id \in Instances :
          \/ Create(id) \/ Destroy(id) \/ Snapshot(id)
          \/ \E to \in {"Running", "Paused", "Stopped"} : Transition(id, to)
          \/ \E n \in 1..MaxSnaps : Restore(id, n)
          \/ \E d \in Deltas : RecordUsage(id, d)
    \/ \E n \in 1..MaxSnaps : DropSnapshot(n)

HySpec == HyInit /\ [][HyNext]_hyVars

-----------------------------------------------------------------------------
\* A stopped instance stays stopped until it is destroyed, whatever snapshots
\* of its running days are restored, and usage stays under the quota even as
\* restores rewind it (valid_restore, check_slot).
StoppedForGood ==
    /\ \A id \in everStopped : slots[id].state = "Stopped"
    /\ \A id \in DOMAIN slots : slots[id].usage <= Quota
=============================================================================
