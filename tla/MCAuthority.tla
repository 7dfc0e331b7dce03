---------------------------- MODULE MCAuthority ----------------------------
(***************************************************************************)
(* Small instances of Authority for TLC.                                   *)
(***************************************************************************)
EXTENDS Authority, TLC

CONSTANTS a1, a2, a3, b1, x, y, z

order(f, t, n, s, r) ==
    [from |-> f, to |-> t, amount |-> n, seq |-> s, round |-> r, signed |-> TRUE]

\* x holds 2, y holds 1, z is not in the genesis ledger.
MCGenesis ==
    [id \in {x, y} |-> [balance |-> IF id = x THEN 2 ELSE 1, next_seq |-> 0]]

\* One sequence number contested within a round and across rounds, a credit to
\* an unknown account, a self-transfer, an unsigned order.
StaticOrders ==
    {order(x, z, 2, 0, 0), order(x, x, 1, 0, 0), order(x, y, 2, 0, 1),
     [order(x, y, 1, 0, 0) EXCEPT !.signed = FALSE]}

\* A pre-change spend and two spends that contest the next sequence number.
EpochOrders == {order(x, z, 1, 0, 0), order(x, x, 1, 1, 0), order(x, y, 1, 1, 0)}

ContestedOrders == {order(x, z, 2, 0, 0), order(x, y, 2, 0, 0)}

Swap     == {[epoch |-> 1, next |-> {a2, b1}]}
TwoSwaps == {[epoch |-> 1, next |-> {b1}], [epoch |-> 2, next |-> {a1, b1}]}
HandOver == {[epoch |-> 1, next |-> {b1}]}
None     == {}

Symmetric == Permutations({a2, a3})
=============================================================================
