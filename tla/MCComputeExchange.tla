------------------------- MODULE MCComputeExchange -------------------------
(***************************************************************************)
(* Small instances of ComputeExchange for TLC.                             *)
(***************************************************************************)
EXTENDS ComputeExchange

CONSTANTS p, v, t1, s1, s2, k1, fresh, d1

cap(n) == [workers |-> n, gpu |-> FALSE]
gpu(n) == [workers |-> n, gpu |-> TRUE]

AlphaPolicy == [maximum |-> cap(2), foreground |-> TRUE, outstanding |-> 1]

grant(id, from, to, caps) ==
    [id |-> id, principal |-> p, issued |-> from, expires |-> to,
     foreground |-> TRUE, caps |-> caps, ok |-> TRUE]

\* Two grants one after the other, and one beyond the policy.
MCGrants == {grant("g1", 0, 1, cap(2)), grant("g2", 1, 2, cap(1)), grant("g3", 0, 2, gpu(1))}

lease(g, n, mode, caps) ==
    [id |-> "l1", grant |-> g, generation |-> n, mode |-> mode, resources |-> caps, ok |-> TRUE]

MCLeases == {lease("g1", 1, "foreground", cap(2)), lease("g2", 2, "foreground", cap(1)),
             lease("g1", 1, "background", cap(1)), lease("g2", 2, "foreground", cap(2))}

task(n, caps) ==
    [id |-> "w1", lease |-> "l1", generation |-> n, mode |-> "foreground",
     resources |-> caps, ok |-> TRUE]

MCAssignments == {task(1, cap(1)), task(2, cap(1)), task(2, cap(2))}

MCResults == {[producer |-> p, digest |-> d1, usage |-> cap(1)],
              [producer |-> p, digest |-> d1, usage |-> cap(2)]}

capability(who, from, to) ==
    [subject |-> who, here |-> TRUE, attempt |-> t1, not_before |-> from,
     expires |-> to, ok |-> TRUE]

MCCapabilities == {capability(v, 0, 3), capability(p, 0, 3)}
=============================================================================
