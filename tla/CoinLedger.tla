----------------------------- MODULE CoinLedger -----------------------------
(***************************************************************************)
(* The platform's TokenLedger (tokenomics.rs): accounts whose stake stays  *)
(* inside their balance, a capped supply with halving rewards, fees that   *)
(* burn and bids that go into escrow.  Amounts and the constants of the    *)
(* module are scaled down; a result is the state it leaves.  An addition   *)
(* past u64 wraps, as it does in a release build; a debug build stops      *)
(* there.                                                                  *)
(***************************************************************************)
EXTENDS Integers, FiniteSets, FiniteSetsExt

CONSTANTS
    Holders, Genesis,      \* node ids; those of them funded by genesis
    Amounts,
    MAX_SUPPLY, GENESIS_REWARD, BLOCK_REWARD, HALVING_INTERVAL, MAX_ACCOUNTS,
    U64,                   \* how many values a u64 has
    MaxHeight, MaxNonce    \* bounds of the model

\* Amounts are u64; genesis mints no more than the cap.
ASSUME CoinAssumption ==
    /\ IsFiniteSet(Genesis) /\ Genesis \subseteq Holders
    /\ U64 \in Nat /\ Amounts \subseteq 0 .. U64 - 1
    /\ MAX_SUPPLY \in 0 .. U64 - 1 /\ GENESIS_REWARD \in Nat /\ BLOCK_REWARD \in Nat
    /\ HALVING_INTERVAL \in Nat \ {0}
    /\ MaxHeight \in Nat
    /\ GENESIS_REWARD * Cardinality(Genesis) <= MAX_SUPPLY

VARIABLES
    accounts,              \* node -> [balance, staked, nonce]; no operation reads a
                           \* reputation
    total_minted, total_burned, block_height,
    wrapped,               \* history: an addition has passed the range of u64
    escrowed,              \* history until then: taken by Donate and Auction
    unbacked               \* history until then: burnt, and still in a balance

clVars == <<accounts, total_minted, total_burned, block_height, wrapped, escrowed, unbacked>>

\* x + y of two u64
Overflows(x, y) == x + y >= U64
Add(x, y) == IF Overflows(x, y) THEN x + y - U64 ELSE x + y

\* A history is kept until then.
Traced(x) == IF wrapped' THEN 0 ELSE x

NewAccount == [balance |-> 0, staked |-> 0, nonce |-> 0]

available_balance(a) == IF a.balance > a.staked THEN a.balance - a.staked ELSE 0

\* entry(n).or_default(), which also a refused transaction leaves behind
Entry(n) ==
    IF n \in DOMAIN accounts THEN accounts
    ELSE [m \in DOMAIN accounts \cup {n} |->
             IF m = n THEN NewAccount ELSE accounts[m]]

\* BLOCK_REWARD >> n
halved[n \in Nat] == IF n = 0 THEN BLOCK_REWARD ELSE halved[n - 1] \div 2

current_block_reward(height) ==
    LET halvings == height \div HALVING_INTERVAL
    IN  IF halvings >= 64 THEN 0 ELSE halved[halvings]

ClInit ==
    /\ accounts = [n \in Genesis |-> [NewAccount EXCEPT !.balance = GENESIS_REWARD]]
    /\ total_minted = GENESIS_REWARD * Cardinality(Genesis)
    /\ total_burned = 0 /\ block_height = 0
    /\ wrapped = FALSE /\ escrowed = 0 /\ unbacked = 0

supplyVars == <<total_minted, total_burned, block_height, wrapped, escrowed, unbacked>>

execute_transfer(from, to, amount, nonce) ==
    /\ from # to
    /\ to \in DOMAIN accounts \/ Cardinality(DOMAIN accounts) < MAX_ACCOUNTS
    /\ LET s == Entry(from)
           ok == s[from].nonce = nonce /\ available_balance(s[from]) >= amount
           moved == [s EXCEPT ![from].balance = @ - amount, ![from].nonce = @ + 1]
           receiver == IF to \in DOMAIN moved THEN moved[to] ELSE NewAccount
       IN  /\ accounts' = IF ~ok THEN s
                          ELSE [n \in DOMAIN moved \cup {to} |->
                                   IF n # to THEN moved[n]
                                   ELSE [receiver EXCEPT !.balance = Add(@, amount)]]
           /\ wrapped' = (wrapped \/ (ok /\ Overflows(receiver.balance, amount)))
           /\ escrowed' = Traced(escrowed) /\ unbacked' = Traced(unbacked)
    /\ UNCHANGED <<total_minted, total_burned, block_height>>

\* Mutant: what is already staked may be staked again.
execute_stakeWhole(n, amount) ==
    /\ LET s == Entry(n)
       IN  accounts' = IF s[n].balance < amount THEN s
                       ELSE [s EXCEPT ![n].staked = @ + amount]
    /\ UNCHANGED supplyVars

execute_stake(n, amount) ==
    /\ LET s == Entry(n)
       IN  accounts' = IF available_balance(s[n]) < amount THEN s
                       ELSE [s EXCEPT ![n].staked = @ + amount]
    /\ UNCHANGED supplyVars

execute_unstake(n, amount) ==
    /\ LET s == Entry(n)
       IN  accounts' = IF s[n].staked < amount THEN s
                       ELSE [s EXCEPT ![n].staked = @ - amount]
    /\ UNCHANGED supplyVars

execute_reward(n, amount) ==
    LET s == Entry(n)
        refused == Add(total_minted, amount) > MAX_SUPPLY
    IN  /\ IF refused THEN UNCHANGED <<accounts, total_minted>>
           ELSE /\ accounts' = [s EXCEPT ![n].balance = Add(@, amount)]
                /\ total_minted' = Add(total_minted, amount)
        /\ wrapped' = (\/ wrapped
                       \/ Overflows(total_minted, amount)
                       \/ (~refused /\ Overflows(s[n].balance, amount)))
        /\ escrowed' = Traced(escrowed) /\ unbacked' = Traced(unbacked)
        /\ UNCHANGED total_burned

\* RewardPoUW, and BlockReward, which sets the height it is given
RewardPoUW(n, amount) == execute_reward(n, amount) /\ UNCHANGED block_height
Block(leader, height) ==
    /\ block_height' = height
    /\ execute_reward(leader, current_block_reward(height))

\* A stake is slashed before the balance it is part of; what is burnt from the
\* stake stays in the balance.
execute_slash(n, amount) ==
    LET s == Entry(n)
        total_available == Add(s[n].staked, s[n].balance)
        effective == Min({amount, total_available})
        fromStake == Min({effective, s[n].staked})
        rest == effective - fromStake
    IN  /\ IF total_available = 0
           THEN /\ accounts' = s
                /\ wrapped' = (wrapped \/ Overflows(s[n].staked, s[n].balance))
                /\ unbacked' = Traced(unbacked)
                /\ UNCHANGED total_burned
           ELSE /\ accounts' = [s EXCEPT ![n].staked = @ - fromStake,
                                         ![n].balance = @ - rest]
                /\ total_burned' = Add(total_burned, effective)
                /\ wrapped' = (\/ wrapped
                               \/ Overflows(s[n].staked, s[n].balance)
                               \/ Overflows(total_burned, effective))
                /\ unbacked' = Traced(unbacked + fromStake)
        /\ escrowed' = Traced(escrowed)
        /\ UNCHANGED <<total_minted, block_height>>

\* Donate and Auction take the amount into pools that are not implemented; a
\* bid also names its nonce.
Escrow(n, amount, nonces) ==
    LET s == Entry(n)
        ok == s[n].nonce \in nonces /\ available_balance(s[n]) >= amount
    IN  /\ accounts' = IF ~ok THEN s
                       ELSE [s EXCEPT ![n].balance = @ - amount, ![n].nonce = @ + 1]
        /\ wrapped' = wrapped
        /\ escrowed' = IF ok THEN Traced(escrowed + amount) ELSE escrowed
        /\ UNCHANGED <<total_minted, total_burned, block_height, unbacked>>

StorageFee(n, fee) ==
    LET s == Entry(n)
        ok == available_balance(s[n]) >= fee
    IN  /\ accounts' = IF ~ok THEN s ELSE [s EXCEPT ![n].balance = @ - fee]
        /\ total_burned' = IF ok THEN Add(total_burned, fee) ELSE total_burned
        /\ wrapped' = (wrapped \/ (ok /\ Overflows(total_burned, fee)))
        /\ escrowed' = Traced(escrowed) /\ unbacked' = Traced(unbacked)
        /\ UNCHANGED <<total_minted, block_height>>

Nonce(n) == IF n \in DOMAIN accounts THEN accounts[n].nonce ELSE 0

execute ==
    \E n \in Holders, amount \in Amounts :
        \/ \E to \in Holders, nonce \in {0, Nonce(n)} :
              Nonce(n) < MaxNonce /\ execute_transfer(n, to, amount, nonce)
        \/ execute_stake(n, amount)
        \/ execute_unstake(n, amount)
        \/ RewardPoUW(n, amount)
        \/ \E h \in 0 .. MaxHeight : Block(n, h)
        \/ execute_slash(n, amount)
        \/ Nonce(n) < MaxNonce /\ Escrow(n, amount, Nat)
        \/ Nonce(n) < MaxNonce /\ Escrow(n, amount, {0})
        \/ StorageFee(n, amount)

ClNext == execute
ClSpec == ClInit /\ [][ClNext]_clVars

circulating_supply == MapThenSumSet(LAMBDA n : accounts[n].balance, DOMAIN accounts)

\* Whatever mixture of rewards, stakes, fees, bids and slashing came before,
\* as long as no amount made a u64 wrap: no account has staked more than it
\* holds (available_balance never has to saturate), and the books balance,
\* circulating_supply = total_minted - total_burned (the equation of the test
\* supply_conservation and of total_supply), but for exactly two leaks: what
\* Donate and Auction took into no pool, and stake that a slash counted as
\* burnt and left in the balance.  The cap holds in any case.
CoinsSound ==
    /\ total_minted <= MAX_SUPPLY
    /\ ~wrapped =>
          /\ \A n \in DOMAIN accounts : accounts[n].staked <= accounts[n].balance
          /\ circulating_supply + escrowed = total_minted - total_burned + unbacked
=============================================================================
