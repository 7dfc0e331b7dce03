--------------------------- MODULE TransferLedger ---------------------------
(***************************************************************************)
(* The single-owner ledger of transfer333 (333-transfer/src/lib.rs) and    *)
(* the order type its certified rail carries (owner.rs), as pure           *)
(* operators.                                                              *)
(*                                                                         *)
(* A ledger is a function from the accounts it holds to their balance and  *)
(* next acceptable sequence number.  An order is a record                  *)
(*   [from, to, amount, seq, round, signed]                                *)
(* `signed' abstracts the whole owner check of TransferPolicy::validate:   *)
(* it is TRUE iff network, policy, both registrations and the Ed25519      *)
(* proof are right.  It is part of the order's identity, as the signature  *)
(* is in SignedTransfer's equality and in order_id().                      *)
(***************************************************************************)
EXTENDS Integers, FiniteSets

CONSTANTS
    MaxSeq,      \* u64::MAX, the last sequence number checked_add can leave
    MaxBalance   \* u128::MAX, the largest representable balance

ASSUME LedgerBounds == MaxSeq \in Nat /\ MaxBalance \in Nat

Account == [balance : 0..MaxBalance, next_seq : 0..MaxSeq]

\* Ledger::balance and Ledger::next_seq answer 0 for an account not held.
balance(l, id)  == IF id \in DOMAIN l THEN l[id].balance ELSE 0
next_seq(l, id) == IF id \in DOMAIN l THEN l[id].next_seq ELSE 0

\* Ledger::preflight: every guard a transfer must pass, nothing changed.
preflight(l, t) ==
    /\ t.from \in DOMAIN l
    /\ t.seq = l[t.from].next_seq
    /\ t.amount <= l[t.from].balance
    /\ l[t.from].next_seq < MaxSeq
    /\ t.from # t.to => balance(l, t.to) + t.amount <= MaxBalance

\* Mutant: a self-transfer is credited and never debited.
applyMints(l, t) ==
    [id \in DOMAIN l \cup {t.to} |->
        [balance  |-> balance(l, id)
                        - (IF id = t.from /\ t.from # t.to THEN t.amount ELSE 0)
                        + (IF id = t.to THEN t.amount ELSE 0),
         next_seq |-> next_seq(l, id) + (IF id = t.from THEN 1 ELSE 0)]]

\* Mutant: both legs of a self-transfer consume a sequence number.
applyTwice(l, t) ==
    [id \in DOMAIN l \cup {t.to} |->
        [balance  |-> balance(l, id)
                        - (IF id = t.from /\ t.from # t.to THEN t.amount ELSE 0)
                        + (IF id = t.to /\ t.from # t.to THEN t.amount ELSE 0),
         next_seq |-> next_seq(l, id) + (IF id = t.from THEN 1 ELSE 0)
                                      + (IF id = t.from /\ id = t.to THEN 1 ELSE 0)]]

\* Ledger::apply after a successful preflight.  A self-transfer consumes a
\* sequence number and moves nothing; a recipient not held is created.
apply(l, t) ==
    [id \in DOMAIN l \cup {t.to} |->
        [balance  |-> balance(l, id)
                        - (IF id = t.from /\ t.from # t.to THEN t.amount ELSE 0)
                        + (IF id = t.to /\ t.from # t.to THEN t.amount ELSE 0),
         next_seq |-> next_seq(l, id) + (IF id = t.from THEN 1 ELSE 0)]]

\* The per-account next-seq summary an epoch change is agreed over.
frontier(l) == [id \in DOMAIN l |-> l[id].next_seq]

\* Mutant: one vote too few.
quorumShort(n) == IF n = 0 THEN 1 ELSE n - ((n - 1) \div 3) - 1

\* Byzantine quorum of n authorities: n - f with f = floor((n-1)/3).
quorum(n) == IF n = 0 THEN 1 ELSE n - ((n - 1) \div 3)

\* Vote slot of an order: one lock per (account, sequence, round).
slot(o) == <<o.from, o.seq, o.round>>

\* What a confirmation spends: the sequence, whatever the round.
spent(o) == <<o.from, o.seq>>
=============================================================================
