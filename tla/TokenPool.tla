------------------------------ MODULE TokenPool ------------------------------
(***************************************************************************)
(* The token crate: InMemoryLedger and StakePool behind two mutexes that   *)
(* are never held together, so that staked funds are in neither between    *)
(* the burn and the lock; the emission curve; and the incentive crate's    *)
(* distribution of an epoch's emission, share by share, over the           *)
(* super-peers the scorer of the reputation crate ranks first.  Amounts    *)
(* are as wide as the code's u128: a checked addition that does not fit is *)
(* an error after whatever the call did before it, an unchecked one wraps  *)
(* as in a release build.  The f64 weights are exact, and a halving count  *)
(* fits its u32.                                                           *)
(***************************************************************************)
EXTENDS Integers, Sequences, FiniteSets, FiniteSetsExt, Functions

CONSTANTS
    Accts,            \* ordered integers, as NodeIds are
    Amounts,
    MaxAmount,        \* u128::MAX
    Callers,          \* threads inside the pool or the distributor
    InitialReward, HalvingInterval,
    TopK,
    Fractions,        \* <<numer, denom>> of a slash
    Unlocks,          \* epochs a stake may be locked until
    MaxEpoch, MaxScore, MaxIssued, MaxRecords  \* bounds of the model

\* What EmissionCurve::new and slash assert of the interval and the fraction; amounts
\* are unsigned, and every operation refuses a zero amount.
ASSUME PoolAssumption ==
    /\ IsFiniteSet(Accts) /\ IsFiniteSet(Callers)
    /\ Amounts \subseteq Nat \ {0} /\ MaxAmount \in Nat
    /\ InitialReward \in Nat /\ HalvingInterval \in Nat \ {0}
    /\ Fractions \subseteq {x \in Nat \X (Nat \ {0}) : x[1] <= x[2]}
    /\ MaxScore \in Nat /\ MaxEpoch \in Nat /\ Unlocks \subseteq Nat

VARIABLES
    balances, total,           \* InMemoryLedger
    stakes, epoch, slashed,    \* StakePool
    calls,                     \* caller -> its stake or unbond between the mutexes, or
                               \* its distribution between two shares
    metrics,                   \* the scorer: [good, bad] per peer
    issued,                    \* history: credited from outside less burnt
    overflowed                 \* history: an amount did not fit

tkVars == <<balances, total, stakes, epoch, slashed, calls, metrics, issued, overflowed>>

Summed(f) == MapThenSumSet(LAMBDA x : f[x], DOMAIN f)

NoCall == [kind |-> "none"]
ledger == <<balances, total>>
pool == <<stakes, epoch, slashed>>
history == <<issued, overflowed>>

TkInit ==
    /\ balances = [a \in Accts |-> 0] /\ total = 0
    /\ stakes = << >> /\ epoch = 0 /\ slashed = 0
    /\ calls = [c \in Callers |-> NoCall]
    /\ metrics = [a \in Accts |-> [good |-> 0, bad |-> 0]]
    /\ issued = 0 /\ overflowed = FALSE

Wrapped(n) == n % (MaxAmount + 1)

\* InMemoryLedger::mint credits the balance before it finds that the total overflows.
Credits(a, amount) == balances[a] + amount <= MaxAmount
Mints(a, amount) == Credits(a, amount) /\ total + amount <= MaxAmount
Minted(a, amount) ==
    /\ balances' = IF Credits(a, amount) THEN [balances EXCEPT ![a] = @ + amount] ELSE balances
    /\ total' = IF Mints(a, amount) THEN total + amount ELSE total
    /\ overflowed' = (overflowed \/ ~Mints(a, amount))
Issued(a, amount) == issued' = IF Credits(a, amount) THEN issued + amount ELSE issued

Burnt(a, amount) ==
    /\ balances[a] >= amount
    /\ balances' = [balances EXCEPT ![a] = @ - amount]
    /\ total' = Wrapped(total - amount)

\* A bound of the model: what is issued, and owed by distributions under way.
Promised(m) == IF m.kind = "pay" THEN Summed(m.left) ELSE 0
Issuable(amount) == issued + Summed([c \in Callers |-> Promised(calls[c])]) + amount <= MaxIssued

mint(a, amount) ==
    /\ Issuable(amount)
    /\ Minted(a, amount) /\ Issued(a, amount)
    /\ UNCHANGED <<pool, calls, metrics>>

burn(a, amount) ==
    /\ Burnt(a, amount)
    /\ issued' = issued - amount
    /\ UNCHANGED <<pool, calls, metrics, overflowed>>

\* The sender has paid when the receiver's balance overflows.
transfer(from, to, amount) ==
    LET debited == [balances EXCEPT ![from] = @ - amount]
        fits == debited[to] + amount <= MaxAmount
    IN  /\ balances[from] >= amount
        /\ balances' = IF fits THEN [debited EXCEPT ![to] = @ + amount] ELSE debited
        /\ overflowed' = (overflowed \/ ~fits)
        /\ UNCHANGED <<total, pool, calls, metrics, issued>>

Enters(c, call) == calls[c] = NoCall /\ calls' = [calls EXCEPT ![c] = call]
Returns(c) == calls' = [calls EXCEPT ![c] = NoCall]

\* stake: the burn, and later the entry in the pool
StakeBurn(c, a, amount, unlock) ==
    /\ Enters(c, [kind |-> "stake", acct |-> a, amount |-> amount, unlock |-> unlock])
    /\ Burnt(a, amount)
    /\ UNCHANGED <<pool, metrics, history>>

Entry(s, m) == IF m.acct \in DOMAIN s THEN s[m.acct] ELSE [amount |-> 0, unlock |-> m.unlock]
Locked(s, m) ==
    LET old == Entry(s, m)
        new == [amount |-> old.amount + m.amount,
                unlock |-> IF m.unlock > old.unlock THEN m.unlock ELSE old.unlock]
    IN  [a \in DOMAIN s \cup {m.acct} |-> IF a = m.acct THEN new ELSE s[a]]

\* What was burnt is lost when the stake overflows.
StakeLock(c) ==
    LET fits == Entry(stakes, calls[c]).amount + calls[c].amount <= MaxAmount
    IN  /\ calls[c].kind = "stake"
        /\ stakes' = IF fits THEN Locked(stakes, calls[c]) ELSE stakes
        /\ overflowed' = (overflowed \/ ~fits)
        /\ Returns(c)
        /\ UNCHANGED <<ledger, epoch, slashed, metrics, issued>>

\* unbond: the entry leaves the pool, and later the mint
UnbondRemove(c, a) ==
    /\ a \in DOMAIN stakes /\ stakes[a].unlock <= epoch
    /\ Enters(c, [kind |-> "unbond", acct |-> a, amount |-> stakes[a].amount])
    /\ stakes' = Restrict(stakes, DOMAIN stakes \ {a})
    /\ UNCHANGED <<ledger, epoch, slashed, metrics, history>>

UnbondMint(c) ==
    /\ calls[c].kind = "unbond"
    /\ Minted(calls[c].acct, calls[c].amount)
    /\ Returns(c)
    /\ UNCHANGED <<pool, metrics, issued>>

slash(a, numer, denom) ==
    LET cut == Wrapped(stakes[a].amount * numer) \div denom
        left == stakes[a].amount - cut
    IN  /\ a \in DOMAIN stakes
        /\ slashed' = Wrapped(slashed + cut)
        /\ overflowed' = (overflowed \/ slashed + cut > MaxAmount)
        /\ stakes' = IF left = 0 THEN Restrict(stakes, DOMAIN stakes \ {a})
                     ELSE [stakes EXCEPT ![a].amount = left]
        /\ UNCHANGED <<ledger, epoch, calls, metrics, issued>>

set_epoch(e) == epoch' = e /\ UNCHANGED <<ledger, stakes, slashed, calls, metrics, history>>

\* initial_reward >> steps
Shifted(steps) ==
    LET halved[i \in 0 .. steps] == IF i = 0 THEN InitialReward ELSE halved[i - 1] \div 2
    IN  halved[steps]

reward_at(e) ==
    LET steps == e \div HalvingInterval
    IN  IF steps >= 128 THEN 0 ELSE Shifted(steps)

\* The scorer's weighted sum, in halves of its terms: the neutral prior when
\* nothing was recorded, else the share of good outcomes.
score(m) ==
    IF m.good + m.bad = 0 THEN MaxScore \div 2
    ELSE (m.good * MaxScore) \div (m.good + m.bad)

record(a, field) ==
    /\ Summed([b \in Accts |-> metrics[b].good + metrics[b].bad]) < MaxRecords
    /\ metrics' = [metrics EXCEPT ![a][field] = @ + 1]
    /\ UNCHANGED <<ledger, pool, calls, history>>

\* descending score, ties by id, truncated to k
Better(a, b) ==
    \/ score(metrics[a]) > score(metrics[b])
    \/ score(metrics[a]) = score(metrics[b]) /\ a < b
top_k(k) == {a \in Accts : Cardinality({b \in Accts : Better(b, a)}) < k}

\* The quadratic curve, its floor the unit; and the floored shares.
weight(a) == 1 + score(metrics[a]) * score(metrics[a])

Shares(peers, amount) ==
    LET sum == Summed([a \in peers |-> weight(a)])
    IN  [a \in peers |-> (weight(a) * amount) \div sum]

\* distribute reads the scores once and works the shares out; nothing in it remembers
\* that an epoch was distributed before. A zero share is skipped.
Distribute(c, e) ==
    LET s == Shares(top_k(TopK), reward_at(e))
        owed == {a \in DOMAIN s : s[a] > 0}
    IN  /\ Issuable(reward_at(e))
        /\ owed # {}
        /\ Enters(c, [kind |-> "pay", left |-> Restrict(s, owed),
                      residue |-> reward_at(e) - Summed(s)])
        /\ UNCHANGED <<ledger, pool, metrics, history>>

\* The next share is minted, in the order the caller listed the peers; after an error
\* the rest is not.
PayShare(c, a) ==
    LET left == calls[c].left
        rest == DOMAIN left \ {a}
    IN  /\ calls[c].kind = "pay" /\ a \in DOMAIN left
        /\ Minted(a, left[a]) /\ Issued(a, left[a])
        /\ IF rest # {} /\ Mints(a, left[a])
           THEN calls' = [calls EXCEPT ![c].left = Restrict(left, rest)]
           ELSE Returns(c)
        /\ UNCHANGED <<pool, metrics>>

TkNext ==
    \/ \E a \in Accts, n \in Amounts :
          \/ mint(a, n)
          \/ burn(a, n)
          \/ \E b \in Accts : transfer(a, b, n)
          \/ \E c \in Callers, e \in Unlocks : StakeBurn(c, a, n, e)
    \/ \E c \in Callers : StakeLock(c) \/ UnbondMint(c) \/ Distribute(c, epoch)
    \/ \E c \in Callers, a \in Accts : UnbondRemove(c, a) \/ PayShare(c, a)
    \/ \E a \in Accts, f \in Fractions : slash(a, f[1], f[2])
    \/ \E e \in 0 .. MaxEpoch : set_epoch(e)
    \/ \E a \in Accts, f \in {"good", "bad"} : record(a, f)

TkSpec == TkInit /\ [][TkNext]_tkVars

total_staked == Summed([a \in DOMAIN stakes |-> stakes[a].amount])

\* What a call holds between the two mutexes.
InHand(m) == IF m.kind \in {"stake", "unbond"} THEN m.amount ELSE 0
in_hand == Summed([c \in Callers |-> InHand(calls[c])])

\* The header's supply, balances and stakes, with what calls hold between the mutexes
\* and what was slashed: however calls interleave it never exceeds what was issued, and
\* equals it until an amount overflows; until then, too, total_supply is the sum of the
\* balances. A distribution's shares leave a residue that is not negative.
SupplyTraced ==
    LET traced == Summed(balances) + total_staked + in_hand + slashed
    IN  /\ traced <= issued
        /\ ~overflowed => traced = issued /\ total = Summed(balances)
        /\ \A c \in Callers : calls[c].kind = "pay" => calls[c].residue >= 0

(*****************************************************************************)
(* Relay billing of the substrate: a prepaid Account whose debits are spends *)
(* of an owned object at its current version (consensus crate), at the       *)
(* metered cost (metering crate), with every decision shipped to a trace     *)
(* (ltdd crate) and answered only once the trace is synced                   *)
(* (meter_and_bill_durable, WalStore::externalize).  A power cut leaves the  *)
(* synced prefix of the trace.                                               *)
(*****************************************************************************)
CONSTANTS
    Opening,      \* opening balance
    Chunks,       \* sizes asked to be forwarded, in KiB
    Rate,         \* credits per KiB
    MaxTrace      \* bound on the events shipped

ASSUME BillingAssumption == Opening \in Nat /\ Chunks \subseteq Nat /\ Rate \in Nat

VARIABLES
    balance, version,
    trace,        \* events shipped, oldest first
    synced,       \* length of the durable prefix
    poisoned,     \* a sync has failed
    forwarded,    \* history: debits answered with Ok(true), as indices of trace
    up            \* before the power cut

blVars == <<balance, version, trace, synced, poisoned, forwarded, up>>

Event(kind, v, n) == [kind |-> kind, version |-> v, amount |-> n]
cost(kib) == kib * Rate
Ships(events) == trace' = trace \o events

\* Account::new: object_registered, then account_funded
BlInit ==
    /\ balance = Opening /\ version = 0
    /\ trace = <<Event("object_registered", 0, 0), Event("account_funded", 0, Opening)>>
    /\ synced = 0 /\ poisoned = FALSE /\ forwarded = {} /\ up = TRUE

\* Ledger::spend: the events it ships and the version it leaves
Finalizes(v) == v = version
SpendEvent(v) ==
    Event(IF Finalizes(v) THEN "spend_finalized" ELSE "equivocation_rejected", v, 0)
NextVersion(v) == IF Finalizes(v) THEN version + 1 ELSE version

\* meter_and_bill, without its sync
Gated(kib) == balance < cost(kib)
Billed(kib) ==
    <<SpendEvent(version), Event("relay_forwarded", 0, cost(kib)),
      Event("credit_debited", version, cost(kib))>>
Decide(kib) ==
    IF Gated(kib)
    THEN Ships(<<Event("relay_gated", 0, kib)>>) /\ UNCHANGED <<balance, version>>
    ELSE /\ Ships(Billed(kib))
         /\ balance' = balance - cost(kib)
         /\ version' = NextVersion(version)

\* Mutant: the answer is returned before the sync, as the plain call does
meter_and_bill_durableUnsynced(kib) ==
    /\ up /\ ~poisoned /\ Len(trace) < MaxTrace
    /\ Decide(kib)
    /\ forwarded' = IF Gated(kib) THEN forwarded ELSE forwarded \cup {Len(trace')}
    /\ UNCHANGED <<synced, poisoned, up>>
meter_and_bill_durable(kib) ==
    /\ up /\ ~poisoned /\ Len(trace) < MaxTrace
    /\ Decide(kib)
    /\ synced' = Len(trace')
    /\ forwarded' = IF Gated(kib) THEN forwarded ELSE forwarded \cup {Len(trace')}
    /\ UNCHANGED <<poisoned, up>>

\* The sync fails: no value to act on, and the store is poisoned.
BillUnsynced(kib) ==
    /\ up /\ ~poisoned /\ Len(trace) < MaxTrace
    /\ Decide(kib)
    /\ poisoned' = TRUE
    /\ UNCHANGED <<synced, forwarded, up>>

\* A debit message delivered again, at whatever version it names.
replay_debit_at(v) ==
    /\ up /\ ~poisoned /\ Len(trace) < MaxTrace
    /\ Ships(<<SpendEvent(v)>>)
    /\ version' = NextVersion(v)
    /\ UNCHANGED <<balance, synced, poisoned, forwarded, up>>

\* A power cut keeps the durable prefix and part of what followed it.
PowerCut ==
    /\ up
    /\ \E n \in synced .. Len(trace) : trace' = SubSeq(trace, 1, n)
    /\ up' = FALSE
    /\ UNCHANGED <<balance, version, synced, poisoned, forwarded>>

BlNext ==
    \/ \E kib \in Chunks : meter_and_bill_durable(kib) \/ BillUnsynced(kib)
    \/ \E v \in 0 .. version : replay_debit_at(v)
    \/ PowerCut

BlSpec == BlInit /\ [][BlNext]_blVars

Sum(kind) == Summed([i \in DOMAIN trace |-> IF trace[i].kind = kind THEN trace[i].amount ELSE 0])
Shipped(kind, v) == {i \in DOMAIN trace : trace[i].kind = kind /\ trace[i].version = v}

\* Read back from the trace, before or after a power cut: no version is
\* finalized or debited twice however often a debit is replayed, what was
\* forwarded was debited, the debits come out of the opening balance, and
\* every forward the account answered is still there.
BilledOnce ==
    /\ \A v \in 0 .. version :
          /\ Cardinality(Shipped("spend_finalized", v)) <= 1
          /\ Cardinality(Shipped("credit_debited", v)) <= 1
    /\ up => /\ Sum("relay_forwarded") = Sum("credit_debited")
             /\ balance = Sum("account_funded") - Sum("credit_debited")
    /\ \A i \in forwarded : i \in DOMAIN trace /\ trace[i].kind = "credit_debited"

(* The two sets of books, side by side. *)
AcNext == \/ TkNext /\ UNCHANGED blVars
          \/ BlNext /\ UNCHANGED tkVars

AcSpec == TkInit /\ BlInit /\ [][AcNext]_<<tkVars, blVars>>

\* No token without a source, and no traffic billed twice or unpaid
\* (token333, billing).
AccountsSound == SupplyTraced /\ BilledOnce
=============================================================================
