--------------------------- MODULE PlatformProofs ---------------------------
(***************************************************************************)
(* What TLAPS proves of components of 333-platform: the token ledger, the  *)
(* signalled peer links, the two-layer netcode and the shared world, for   *)
(* every value of their constants that the named assumptions allow.        *)
(***************************************************************************)
EXTENDS CoinLedger, PeerLink, Lockstep, WorldSync, FoldProofs, SequenceTheorems, TLAPS

(***************************************************************************)
(* The token ledger                                                        *)
(***************************************************************************)
LEMMA HalvedDef == halved = [n \in Nat |-> IF n = 0 THEN BLOCK_REWARD ELSE halved[n - 1] \div 2]
<1> DEFINE half == [i \in Nat \ {0} |-> [a \in Nat |-> a \div 2]]
           Is(f) == f = [n \in Nat |-> IF n = 0 THEN BLOCK_REWARD ELSE f[n - 1] \div 2]
<1>1. BLOCK_REWARD \in Nat
  BY CoinAssumption
<1>2. IsRule(half, Nat)
  BY DEF IsRule
<1>3. ASSUME NEW i \in Nat \ {0}, NEW a \in Nat PROVE half[i][a] = a \div 2
  OBVIOUS
<1> HIDE DEF half
<1>4. PICK f : Recurses(f, half, BLOCK_REWARD, Nat)
  BY <1>1, <1>2, NatRecursion
<1>5. ASSUME NEW n \in Nat PROVE f[n] = IF n = 0 THEN BLOCK_REWARD ELSE f[n - 1] \div 2
  <2>1. CASE n = 0
    BY <1>4, <2>1 DEF Recurses
  <2>2. CASE n # 0
    <3>1. n \in Nat \ {0} /\ n - 1 \in Nat
      BY <2>2
    <3> QED
      BY <1>3, <1>4, <3>1 DEF Recurses
  <2> QED
    BY <2>1, <2>2
<1>6. Is(f)
  BY <1>4, <1>5 DEF Recurses
<1>7. Is(CHOOSE g : Is(g))
  BY <1>6
<1> QED
  BY <1>7, Zenon DEF halved

LEMMA HalvedType == halved \in [Nat -> Nat]
<1> DEFINE T == {n \in Nat : halved[n] \in Nat}
<1>1. 0 \in T
  BY HalvedDef, CoinAssumption
<1>2. ASSUME NEW n \in T PROVE n + 1 \in T
  <2>1. n + 1 \in Nat /\ (n + 1) - 1 = n /\ n + 1 # 0 /\ halved[n] \in Nat
    BY <1>2
  <2>2. halved[n + 1] = halved[n] \div 2
    BY <2>1, HalvedDef
  <2> QED
    BY <2>1, <2>2
<1>3. T = Nat
  <2> HIDE DEF T
  <2>1. T \in SUBSET Nat
    BY DEF T
  <2> QED BY <1>1, <1>2, <2>1, SetInduction
<1> QED
  BY <1>3, HalvedDef

LEMMA RewardType ==
    ASSUME NEW h \in Nat
    PROVE  current_block_reward(h) \in Nat
<1>1. HALVING_INTERVAL \in Nat \ {0}
  BY CoinAssumption
<1>2. h \div HALVING_INTERVAL \in Nat
  BY <1>1
<1> QED
  BY <1>2, HalvedType DEF current_block_reward

Account == [balance : Nat, staked : Nat, nonce : Nat]

\* A table of accounts none of which has staked more than it holds.
Covered(l) ==
    /\ IsFiniteSet(DOMAIN l)
    /\ l \in [DOMAIN l -> Account]
    /\ \A n \in DOMAIN l : l[n].staked <= l[n].balance

HeldBy(l) == [n \in DOMAIN l |-> l[n].balance]
Held(l) == SumOver(HeldBy(l), DOMAIN l)

\* Account n of l becomes a.
Put1(l, n, a) == [m \in DOMAIN l \cup {n} |-> IF m = n THEN a ELSE l[m]]
Of(l, n) == IF n \in DOMAIN l THEN l[n] ELSE NewAccount

LEMMA HeldInt ==
    ASSUME NEW l, Covered(l)
    PROVE  IsFiniteSet(DOMAIN l) /\ IntOn(HeldBy(l), DOMAIN l) /\ Held(l) \in Int
<1>1. IsFiniteSet(DOMAIN l)
  BY DEF Covered
<1>2. IntOn(HeldBy(l), DOMAIN l)
  BY DEF Covered, HeldBy, IntOn, Account
<1> QED
  BY <1>1, <1>2, SumSplit DEF Held

LEMMA PutAccount ==
    ASSUME NEW l, Covered(l), NEW n, NEW a \in Account, a.staked <= a.balance
    PROVE  /\ Covered(Put1(l, n, a))
           /\ Held(Put1(l, n, a)) = Held(l) + a.balance - Of(l, n).balance
           /\ Of(l, n) \in Account /\ Of(l, n).staked <= Of(l, n).balance
           /\ \A m : m # n => Of(Put1(l, n, a), m) = Of(l, m)
<1> DEFINE k == Put1(l, n, a)
           D == DOMAIN l
<1>1. DOMAIN k = D \cup {n} /\ k[n] = a /\ \A m \in D \ {n} : k[m] = l[m]
  BY DEF Put1
<1>2. Of(l, n) \in Account /\ Of(l, n).staked <= Of(l, n).balance
  BY DEF Of, Covered, NewAccount, Account
<1>3. IsFiniteSet(D) /\ IntOn(HeldBy(l), D) /\ Held(l) \in Int
  BY HeldInt
<1>4. \A m \in DOMAIN k : k[m] \in Account /\ k[m].staked <= k[m].balance
  BY <1>1 DEF Covered
<1>5. k = [m \in DOMAIN k |-> k[m]]
  BY DEF Put1
<1>6. HeldBy(k)[n] = a.balance /\ \A m \in D \ {n} : HeldBy(k)[m] = HeldBy(l)[m]
  <2> HIDE DEF k
  <2> QED BY <1>1 DEF HeldBy
<1>7. a.balance \in Int
  BY DEF Account
<1>8. /\ IsFiniteSet(D \cup {n})
      /\ SumOver(HeldBy(k), D \cup {n}) =
            SumOver(HeldBy(l), D) + HeldBy(k)[n] - (IF n \in D THEN HeldBy(l)[n] ELSE 0)
  <2> HIDE DEF k, D
  <2> QED BY <1>3, <1>6, <1>7, SumUpdate
<1>9. Of(l, n).balance = IF n \in D THEN HeldBy(l)[n] ELSE 0
  BY DEF Of, HeldBy, NewAccount
<1>10. Held(k) = Held(l) + a.balance - Of(l, n).balance
  <2> HIDE DEF k, D
  <2>1. Held(k) = SumOver(HeldBy(k), D \cup {n}) /\ Held(l) = SumOver(HeldBy(l), D)
    BY <1>1 DEF Held, D
  <2> QED BY <1>6, <1>8, <1>9, <2>1
<1>11. Covered(k)
  <2> HIDE DEF k, D
  <2>1. IsFiniteSet(DOMAIN k)
    BY <1>1, <1>8
  <2>2. k \in [DOMAIN k -> Account]
    BY <1>4, <1>5
  <2> QED BY <1>4, <2>1, <2>2 DEF Covered
<1>12. \A m : m # n => Of(k, m) = Of(l, m)
  BY <1>1 DEF Of
<1> QED
  BY <1>2, <1>10, <1>11, <1>12

LEMMA SupplyHeld ==
    /\ circulating_supply = Held(accounts)
    /\ circulating_supply' = Held(accounts')
  BY DEF circulating_supply, MapThenSumSet, MapThenFoldSet, Held, SumOver, HeldBy

\* What has left the balances.
Gone == total_burned + escrowed - unbacked

\* The books while no addition has wrapped, over the sum of FoldProofs.
Counters == total_burned \in Nat /\ escrowed \in Nat /\ unbacked \in Nat
Books ==
    /\ Covered(accounts)
    /\ total_minted \in Nat /\ total_minted <= MAX_SUPPLY
    /\ Counters
    /\ Held(accounts) = total_minted - Gone

\* CoinsSound with the types it needs.
ClInv ==
    /\ wrapped \in BOOLEAN
    /\ total_minted \in Nat /\ total_minted <= MAX_SUPPLY
    /\ ~wrapped => Books

LEMMA GoneInt == /\ Counters => Gone \in Int
                 /\ Counters' => Gone' \in Int
  BY DEF Counters, Gone

LEMMA BooksFacts ==
    ASSUME Books
    PROVE  /\ Covered(accounts) /\ total_minted \in Nat /\ total_minted <= MAX_SUPPLY
           /\ Gone \in Int /\ Counters /\ Held(accounts) = total_minted - Gone
  BY GoneInt DEF Books

\* What Entry and the updates of accounts come to: a table with n's account put.
LEMMA EntryPut ==
    ASSUME NEW n, Covered(accounts)
    PROVE  /\ Entry(n) = Put1(accounts, n, Of(accounts, n))
           /\ Entry(n)[n] = Of(accounts, n)
           /\ Of(accounts, n) \in Account /\ Of(accounts, n).staked <= Of(accounts, n).balance
           /\ \A a : Put1(Entry(n), n, a) = Put1(accounts, n, a)
<1>1. Entry(n) = Put1(accounts, n, Of(accounts, n))
  BY DEF Entry, Put1, Of, Covered
<1>2. Entry(n)[n] = Of(accounts, n)
  BY <1>1 DEF Put1
<1>3. Of(accounts, n) \in Account /\ Of(accounts, n).staked <= Of(accounts, n).balance
  BY DEF Of, Covered, NewAccount, Account
<1>4. ASSUME NEW a PROVE Put1(Entry(n), n, a) = Put1(accounts, n, a)
  BY <1>1 DEF Put1
<1> QED
  BY <1>1, <1>2, <1>3, <1>4

\* One account is replaced by a covered one, and the books change with it.
LEMMA OneAccount ==
    ASSUME Books, NEW n, NEW a \in Account, a.staked <= a.balance,
           accounts' = Put1(accounts, n, a),
           total_minted' \in Nat, total_minted' <= MAX_SUPPLY, Counters',
           a.balance - Of(accounts, n).balance = (total_minted' - Gone') - (total_minted - Gone)
    PROVE  Books'
<1>1. /\ Covered(accounts')
      /\ Held(accounts') = Held(accounts) + a.balance - Of(accounts, n).balance
      /\ Of(accounts, n) \in Account
  BY BooksFacts, PutAccount
<1>2. /\ Held(accounts) = total_minted - Gone /\ total_minted \in Nat /\ Gone \in Int
      /\ Gone' \in Int
  BY BooksFacts, GoneInt
<1>3. a.balance \in Int /\ Of(accounts, n).balance \in Int
  BY <1>1 DEF Account
<1>4. Held(accounts') = total_minted' - Gone'
  BY <1>1, <1>2, <1>3
<1> QED
  BY <1>1, <1>4 DEF Books

LEMMA UntouchedEntry ==
    ASSUME Books, NEW n, accounts' = Entry(n), total_minted' = total_minted,
           Counters', Gone' = Gone
    PROVE  Books'
<1>1. Covered(accounts) /\ total_minted \in Nat /\ total_minted <= MAX_SUPPLY /\ Gone \in Int
  BY BooksFacts
<1>2. /\ Of(accounts, n) \in Account /\ Of(accounts, n).staked <= Of(accounts, n).balance
      /\ accounts' = Put1(accounts, n, Of(accounts, n))
  BY <1>1, EntryPut
<1>3. Of(accounts, n).balance \in Int
  BY <1>2 DEF Account
<1> QED
  BY <1>1, <1>2, <1>3, OneAccount

\* The entry of n is replaced by a.
LEMMA EntryReplaced ==
    ASSUME Books, NEW n, NEW a \in Account, a.staked <= a.balance,
           accounts' = [Entry(n) EXCEPT ![n] = a],
           total_minted' \in Nat, total_minted' <= MAX_SUPPLY, Counters',
           a.balance - Of(accounts, n).balance = (total_minted' - Gone') - (total_minted - Gone)
    PROVE  Books'
<1>1. Entry(n) = Put1(accounts, n, Of(accounts, n))
  BY BooksFacts, EntryPut
<1>2. accounts' = Put1(accounts, n, a)
  BY <1>1 DEF Put1
<1> QED
  BY <1>2, OneAccount

\* An addition that has not wrapped, and a history that is still kept.
LEMMA Exact ==
    /\ \A x, y : ~Overflows(x, y) => Add(x, y) = x + y
    /\ ~wrapped' => \A x : Traced(x) = x
  BY DEF Add, Traced

LEMMA StakeStep ==
    ASSUME Books, NEW n, NEW amount \in Nat, execute_stake(n, amount)
    PROVE  Books'
<1> DEFINE e == Entry(n)[n]
           a == [e EXCEPT !.staked = @ + amount]
<1>1. Covered(accounts) /\ total_minted \in Nat /\ total_minted <= MAX_SUPPLY /\ Gone \in Int
  BY BooksFacts
<1>2. e = Of(accounts, n) /\ e \in Account /\ e.staked <= e.balance
  BY <1>1, EntryPut
<1>3. total_minted' = total_minted /\ Gone' = Gone /\ Counters'
  BY BooksFacts DEF execute_stake, supplyVars, Gone, Counters
<1>4. CASE available_balance(e) < amount
  BY <1>3, <1>4, UntouchedEntry DEF execute_stake
<1>5. CASE ~(available_balance(e) < amount)
  <2>1. accounts' = [Entry(n) EXCEPT ![n] = a]
    BY <1>5 DEF execute_stake
  <2> HIDE DEF e
  <2>2. a \in Account /\ a.staked <= a.balance /\ a.balance = e.balance /\ e.balance \in Int
    BY <1>2, <1>5 DEF Account, available_balance
  <2> HIDE DEF a
  <2>3. /\ total_minted' \in Nat /\ total_minted' <= MAX_SUPPLY
        /\ a.balance - Of(accounts, n).balance = (total_minted' - Gone') - (total_minted - Gone)
    BY <1>1, <1>2, <1>3, <2>2
  <2> QED
    BY <1>3, <2>1, <2>2, <2>3, EntryReplaced
<1> QED
  BY <1>4, <1>5

LEMMA UnstakeStep ==
    ASSUME Books, NEW n, NEW amount \in Nat, execute_unstake(n, amount)
    PROVE  Books'
<1> DEFINE e == Entry(n)[n]
           a == [e EXCEPT !.staked = @ - amount]
<1>1. Covered(accounts) /\ total_minted \in Nat /\ total_minted <= MAX_SUPPLY /\ Gone \in Int
  BY BooksFacts
<1>2. e = Of(accounts, n) /\ e \in Account /\ e.staked <= e.balance
  BY <1>1, EntryPut
<1>3. total_minted' = total_minted /\ Gone' = Gone /\ Counters'
  BY BooksFacts DEF execute_unstake, supplyVars, Gone, Counters
<1>4. CASE e.staked < amount
  BY <1>3, <1>4, UntouchedEntry DEF execute_unstake
<1>5. CASE ~(e.staked < amount)
  <2>1. accounts' = [Entry(n) EXCEPT ![n] = a]
    BY <1>5 DEF execute_unstake
  <2> HIDE DEF e
  <2>2. a \in Account /\ a.staked <= a.balance /\ a.balance = e.balance /\ e.balance \in Int
    BY <1>2, <1>5 DEF Account
  <2> HIDE DEF a
  <2>3. /\ total_minted' \in Nat /\ total_minted' <= MAX_SUPPLY
        /\ a.balance - Of(accounts, n).balance = (total_minted' - Gone') - (total_minted - Gone)
    BY <1>1, <1>2, <1>3, <2>2
  <2> QED
    BY <1>3, <2>1, <2>2, <2>3, EntryReplaced
<1> QED
  BY <1>4, <1>5

\* RewardPoUW and BlockReward: the cap is checked before anything is minted.
LEMMA RewardStep ==
    ASSUME Books, NEW n, NEW amount \in Nat, execute_reward(n, amount), ~wrapped'
    PROVE  Books'
<1> DEFINE e == Entry(n)[n]
           a == [e EXCEPT !.balance = Add(@, amount)]
           refused == Add(total_minted, amount) > MAX_SUPPLY
<1>1. Covered(accounts) /\ total_minted \in Nat /\ total_minted <= MAX_SUPPLY /\ Gone \in Int
  BY BooksFacts
<1>2. e = Of(accounts, n) /\ e \in Account /\ e.staked <= e.balance
  BY <1>1, EntryPut
<1>3. Gone' = Gone /\ Counters'
  BY BooksFacts, Exact DEF execute_reward, Gone, Counters
<1>4. CASE refused
  <2>1. accounts' = accounts /\ total_minted' = total_minted
    BY <1>4 DEF execute_reward
  <2> QED
    BY <1>3, <2>1 DEF Books
<1>5. CASE ~refused
  <2>1. accounts' = [Entry(n) EXCEPT ![n] = a] /\ total_minted' = Add(total_minted, amount)
    BY <1>5 DEF execute_reward
  <2>2. MAX_SUPPLY \in Nat
    BY CoinAssumption
  <2>3. ~Overflows(total_minted, amount) /\ ~Overflows(e.balance, amount)
    BY <1>5 DEF execute_reward
  <2>4. Add(total_minted, amount) = total_minted + amount /\ Add(e.balance, amount) = e.balance + amount
    BY <2>3, Exact
  <2> HIDE DEF e
  <2>5. e.balance \in Nat /\ e.staked \in Nat /\ e.nonce \in Nat
    BY <1>2 DEF Account
  <2>6. a = [e EXCEPT !.balance = e.balance + amount]
    BY <1>2, <2>4 DEF Account
  <2> HIDE DEF a
  <2>7. /\ a \in Account /\ a.staked <= a.balance
        /\ a.balance = e.balance + amount
    BY <1>2, <2>5, <2>6 DEF Account
  <2>8. total_minted' \in Nat /\ total_minted' <= MAX_SUPPLY
    BY <1>1, <1>5, <2>1, <2>2, <2>4
  <2>9. a.balance - Of(accounts, n).balance = (total_minted' - Gone') - (total_minted - Gone)
    BY <1>1, <1>2, <1>3, <2>1, <2>4, <2>5, <2>7
  <2> QED
    BY <1>3, <2>1, <2>7, <2>8, <2>9, EntryReplaced
<1> QED
  BY <1>4, <1>5

\* What leaves a balance is at most what is available of it.
Spent(e, amount) == [e EXCEPT !.balance = @ - amount, !.nonce = @ + 1]
Docked(e, amount) == [e EXCEPT !.balance = @ - amount]
LEMMA Charged ==
    ASSUME NEW e \in Account, e.staked <= e.balance, NEW amount \in Nat,
           available_balance(e) >= amount, NEW a,
           a = Spent(e, amount) \/ a = Docked(e, amount)
    PROVE  a \in Account /\ a.staked <= a.balance /\ a.balance = e.balance - amount
<1>1. e.balance \in Nat /\ e.staked \in Nat /\ e.nonce \in Nat
  BY DEF Account
<1> DEFINE b == e.balance - amount
           n == e.nonce + 1
<1>2. b \in Nat /\ e.staked <= b /\ n \in Nat
  BY <1>1 DEF available_balance
<1>3. a = [e EXCEPT !.balance = b, !.nonce = n] \/ a = [e EXCEPT !.balance = b]
  BY DEF Account, Spent, Docked
<1>4. b = e.balance - amount
  OBVIOUS
<1> HIDE DEF b, n
<1>5. a \in Account
  BY <1>2, <1>3 DEF Account
<1>6. a.balance = b /\ a.staked = e.staked
  BY <1>3 DEF Account
<1> QED
  BY <1>2, <1>4, <1>5, <1>6

\* Both sides of a transfer: the sender is charged, then the receiver credited.
LEMMA TransferStep ==
    ASSUME Books, NEW from, NEW to, NEW amount \in Nat, NEW nonce,
           execute_transfer(from, to, amount, nonce), ~wrapped'
    PROVE  Books'
<1> DEFINE s == Entry(from)
           e == s[from]
           a == [e EXCEPT !.balance = @ - amount, !.nonce = @ + 1]
           moved == [s EXCEPT ![from].balance = @ - amount, ![from].nonce = @ + 1]
           receiver == IF to \in DOMAIN moved THEN moved[to] ELSE NewAccount
           b == [receiver EXCEPT !.balance = Add(@, amount)]
           ok == e.nonce = nonce /\ available_balance(e) >= amount
<1>1. /\ Covered(accounts) /\ total_minted \in Nat /\ total_minted <= MAX_SUPPLY /\ Gone \in Int
      /\ Held(accounts) = total_minted - Gone
  BY BooksFacts
<1>2. /\ e = Of(accounts, from) /\ e \in Account /\ e.staked <= e.balance
      /\ s = Put1(accounts, from, e)
  BY <1>1, EntryPut
<1>3. total_minted' = total_minted /\ Gone' = Gone /\ Counters' /\ from # to
  <2>1. escrowed' = escrowed /\ unbacked' = unbacked /\ total_burned' = total_burned
    BY Exact DEF execute_transfer
  <2> QED
    BY <2>1, BooksFacts DEF execute_transfer, Gone, Counters
<1>4. CASE ~ok
  <2>1. accounts' = Entry(from)
    BY <1>4 DEF execute_transfer
  <2> QED
    BY <1>3, <2>1, UntouchedEntry
<1>5. CASE ok
  <2>1. /\ accounts' = [n \in DOMAIN moved \cup {to} |-> IF n # to THEN moved[n] ELSE b]
        /\ ~Overflows(receiver.balance, amount)
    BY <1>5 DEF execute_transfer
  <2>2. accounts' = Put1(moved, to, b) /\ receiver = Of(moved, to)
    <3> HIDE DEF moved, b
    <3> QED BY <2>1 DEF Put1, Of
  <2>3. moved = Put1(accounts, from, a)
    <3>1. moved = [s EXCEPT ![from] = a]
      OBVIOUS
    <3> HIDE DEF moved, a, s
    <3>2. from \in DOMAIN s
      BY <1>2 DEF Put1
    <3> QED BY <1>2, <3>1 DEF Put1
  <2> HIDE DEF s, e, moved
  <2>4. a \in Account /\ a.staked <= a.balance /\ a.balance = e.balance - amount
    <3>1. a = Spent(e, amount)
      BY DEF Spent
    <3> HIDE DEF a
    <3> QED BY <1>2, <1>5, <3>1, Charged
  <2> HIDE DEF a
  <2>5. /\ Covered(moved) /\ Held(moved) = Held(accounts) + a.balance - e.balance
        /\ Of(moved, to) = Of(accounts, to)
    BY <1>1, <1>2, <1>3, <2>3, <2>4, PutAccount
  <2>6. receiver \in Account /\ receiver.staked <= receiver.balance
    BY <2>2, <2>5, <2>4, PutAccount
  <2>7. Add(receiver.balance, amount) = receiver.balance + amount
    BY <2>1, Exact
  <2> HIDE DEF receiver
  <2>8. b = [receiver EXCEPT !.balance = receiver.balance + amount]
    BY <2>6, <2>7 DEF Account
  <2> HIDE DEF b
  <2>9. b \in Account /\ b.staked <= b.balance /\ b.balance = receiver.balance + amount
    BY <2>6, <2>8 DEF Account
  <2>10. Covered(accounts') /\ Held(accounts') = Held(moved) + b.balance - receiver.balance
    BY <2>2, <2>5, <2>9, PutAccount
  <2>11. e.balance \in Int /\ receiver.balance \in Int
    BY <1>2, <2>6 DEF Account
  <2>12. Held(accounts') = total_minted - Gone
    BY <1>1, <2>4, <2>5, <2>9, <2>10, <2>11
  <2> QED
    BY <1>1, <1>3, <2>10, <2>12 DEF Books
<1> QED
  BY <1>4, <1>5

LEMMA ChargeAccount ==
    ASSUME Books, NEW n, NEW amount \in Nat, available_balance(Entry(n)[n]) >= amount, NEW a,
           a = Spent(Entry(n)[n], amount) \/ a = Docked(Entry(n)[n], amount),
           accounts' = [Entry(n) EXCEPT ![n] = a], total_minted' = total_minted,
           Counters', Gone' = Gone + amount
    PROVE  Books'
<1> DEFINE e == Entry(n)[n]
<1>1. Covered(accounts) /\ total_minted \in Nat /\ total_minted <= MAX_SUPPLY /\ Gone \in Int
  BY BooksFacts
<1>2. e = Of(accounts, n) /\ e \in Account /\ e.staked <= e.balance
  BY <1>1, EntryPut
<1>3. a \in Account /\ a.staked <= a.balance /\ a.balance = e.balance - amount
  <2>1. available_balance(e) >= amount /\ (a = Spent(e, amount) \/ a = Docked(e, amount))
    OBVIOUS
  <2> HIDE DEF e
  <2> QED BY <1>2, <2>1, Charged
<1>4. e.balance \in Nat
  BY <1>2 DEF Account
<1>5. /\ total_minted' \in Nat /\ total_minted' <= MAX_SUPPLY
      /\ a.balance - Of(accounts, n).balance = (total_minted' - Gone') - (total_minted - Gone)
  BY <1>1, <1>2, <1>3, <1>4
<1> QED
  BY <1>3, <1>5, EntryReplaced

LEMMA EscrowStep ==
    ASSUME Books, NEW n, NEW amount \in Nat, NEW nonces, Escrow(n, amount, nonces), ~wrapped'
    PROVE  Books'
<1> DEFINE e == Entry(n)[n]
           a == [e EXCEPT !.balance = @ - amount, !.nonce = @ + 1]
           ok == e.nonce \in nonces /\ available_balance(e) >= amount
<1>1. /\ total_minted' = total_minted /\ total_burned' = total_burned /\ unbacked' = unbacked
      /\ Counters /\ Gone \in Int
  BY BooksFacts DEF Escrow
<1>2. CASE ~ok
  <2>1. accounts' = Entry(n) /\ escrowed' = escrowed
    BY <1>2 DEF Escrow
  <2>2. Gone' = Gone /\ Counters'
    BY <1>1, <2>1 DEF Gone, Counters
  <2> QED
    BY <1>1, <2>1, <2>2, UntouchedEntry
<1>3. CASE ok
  <2>1. /\ accounts' = [Entry(n) EXCEPT ![n] = a]
        /\ escrowed' = escrowed + amount
        /\ available_balance(e) >= amount
    BY <1>3, Exact DEF Escrow
  <2>2. Gone' = Gone + amount /\ Counters'
    BY <1>1, <2>1 DEF Gone, Counters
  <2> QED
    <3>1. a = Spent(Entry(n)[n], amount)
      BY DEF Spent
    <3>2. available_balance(Entry(n)[n]) >= amount
      BY <2>1
    <3> HIDE DEF a, e
    <3> QED BY <1>1, <2>1, <2>2, <3>1, <3>2, ChargeAccount
<1> QED
  BY <1>2, <1>3

LEMMA FeeStep ==
    ASSUME Books, NEW n, NEW fee \in Nat, StorageFee(n, fee), ~wrapped'
    PROVE  Books'
<1> DEFINE e == Entry(n)[n]
           a == [e EXCEPT !.balance = @ - fee]
<1>1. /\ total_minted' = total_minted /\ escrowed' = escrowed /\ unbacked' = unbacked
      /\ Counters /\ Gone \in Int
  BY BooksFacts, Exact DEF StorageFee
<1>2. CASE ~(available_balance(e) >= fee)
  <2>1. accounts' = Entry(n) /\ total_burned' = total_burned
    BY <1>2 DEF StorageFee
  <2>2. Gone' = Gone /\ Counters'
    BY <1>1, <2>1 DEF Gone, Counters
  <2> QED
    BY <1>1, <2>1, <2>2, UntouchedEntry
<1>3. CASE available_balance(e) >= fee
  <2>1. /\ accounts' = [Entry(n) EXCEPT ![n] = a]
        /\ total_burned' = total_burned + fee
    BY <1>3, Exact DEF StorageFee
  <2>2. Gone' = Gone + fee /\ Counters'
    BY <1>1, <2>1 DEF Gone, Counters
  <2> QED
    <3>1. a = Docked(Entry(n)[n], fee)
      BY DEF Docked
    <3>2. available_balance(Entry(n)[n]) >= fee
      BY <1>3
    <3> HIDE DEF a, e
    <3> QED BY <1>1, <2>1, <2>2, <3>1, <3>2, ChargeAccount
<1> QED
  BY <1>2, <1>3

\* The stake goes first, so what is left of it stays covered.
LEMMA SlashStep ==
    ASSUME Books, NEW n, NEW amount \in Nat, execute_slash(n, amount), ~wrapped'
    PROVE  Books'
<1> DEFINE e == Entry(n)[n]
           available == Add(e.staked, e.balance)
           effective == Min({amount, available})
           fromStake == Min({effective, e.staked})
           rest == effective - fromStake
           a == [e EXCEPT !.staked = @ - fromStake, !.balance = @ - rest]
<1>1. /\ Covered(accounts) /\ total_minted \in Nat /\ total_minted <= MAX_SUPPLY /\ Gone \in Int
      /\ Counters
  BY BooksFacts
<1>2. e = Of(accounts, n) /\ e \in Account /\ e.staked <= e.balance
  BY <1>1, EntryPut
<1>3. total_minted' = total_minted /\ escrowed' = escrowed
  BY Exact DEF execute_slash
<1>4. available = e.staked + e.balance
  <2>1. ~Overflows(e.staked, e.balance)
    BY DEF execute_slash
  <2> QED
    BY <2>1, Exact
<1>5. CASE available = 0
  <2>1. accounts' = Entry(n) /\ total_burned' = total_burned /\ unbacked' = unbacked
    BY <1>5, Exact DEF execute_slash
  <2>2. Gone' = Gone /\ Counters'
    BY <1>1, <1>3, <2>1 DEF Gone, Counters
  <2> QED
    BY <1>3, <2>1, <2>2, UntouchedEntry
<1>6. CASE available # 0
  <2>1. /\ accounts' = [Entry(n) EXCEPT ![n] = a]
        /\ total_burned' = Add(total_burned, effective) /\ unbacked' = unbacked + fromStake
        /\ ~Overflows(total_burned, effective)
    BY <1>6, Exact DEF execute_slash
  <2>2. total_burned' = total_burned + effective
    <3> HIDE DEF effective
    <3> QED BY <2>1, Exact
  <2> HIDE DEF e
  <2>3. e.balance \in Nat /\ e.staked \in Nat /\ e.nonce \in Nat
    BY <1>2 DEF Account
  <2> HIDE DEF available
  <2>4. /\ effective \in Nat /\ effective <= e.staked + e.balance
        /\ fromStake = IF effective <= e.staked THEN effective ELSE e.staked
    <3>1. available \in Nat
      BY <1>4, <2>3
    <3>2. effective = IF amount <= available THEN amount ELSE available
      BY <3>1, MinOfTwo
    <3>3. effective \in Nat
      <4> HIDE DEF effective
      <4> QED BY <3>1, <3>2
    <3> HIDE DEF effective
    <3>4. fromStake = IF effective <= e.staked THEN effective ELSE e.staked
      BY <2>3, <3>3, MinOfTwo
    <3> QED
      BY <1>4, <2>3, <3>1, <3>2, <3>3, <3>4
  <2> HIDE DEF effective, fromStake
  <2>5. fromStake \in Nat /\ rest \in Nat
    BY <2>3, <2>4
  <2>6. /\ e.staked - fromStake \in Nat /\ e.balance - rest \in Nat
        /\ e.staked - fromStake <= e.balance - rest
    BY <1>2, <2>3, <2>4
  <2>7. a \in Account /\ a.staked <= a.balance /\ a.balance = e.balance - rest
    <3> HIDE DEF rest
    <3> QED BY <1>2, <2>6 DEF Account
  <2>8. Counters' /\ Gone' = Gone + rest
    BY <1>1, <1>3, <2>1, <2>2, <2>4, <2>5 DEF Counters, Gone
  <2> HIDE DEF a, rest
  <2>9. /\ total_minted' \in Nat /\ total_minted' <= MAX_SUPPLY
        /\ a.balance - Of(accounts, n).balance = (total_minted' - Gone') - (total_minted - Gone)
    BY <1>1, <1>2, <1>3, <2>3, <2>5, <2>7, <2>8
  <2> QED
    BY <2>1, <2>7, <2>8, <2>9, EntryReplaced
<1> QED
  BY <1>5, <1>6

\* Wrapped or not, the cap is compared with the sum that is stored.
LEMMA CapStep ==
    ASSUME ClInv, NEW n, NEW amount \in Nat, execute_reward(n, amount)
    PROVE  total_minted' \in Nat /\ total_minted' <= MAX_SUPPLY /\ wrapped' \in BOOLEAN
<1>1. total_minted \in Nat /\ total_minted <= MAX_SUPPLY /\ U64 \in Nat /\ MAX_SUPPLY \in Nat
  BY CoinAssumption DEF ClInv
<1>2. Add(total_minted, amount) \in Nat
  BY <1>1 DEF Add, Overflows
<1>3. \/ total_minted' = total_minted
      \/ total_minted' = Add(total_minted, amount) /\ ~(Add(total_minted, amount) > MAX_SUPPLY)
  BY DEF execute_reward
<1>4. wrapped' \in BOOLEAN
  BY DEF execute_reward
<1> QED
  BY <1>1, <1>2, <1>3, <1>4

LEMMA ClInitInv == ClInit => ClInv
<1> SUFFICES ASSUME ClInit PROVE ClInv
  OBVIOUS
<1> DEFINE one == [NewAccount EXCEPT !.balance = GENESIS_REWARD]
           T == {k \in Nat : \A S \in SUBSET Genesis : Cardinality(S) = k =>
                    SumOver([n \in S |-> GENESIS_REWARD], S) = GENESIS_REWARD * k}
<1>1. /\ IsFiniteSet(Genesis) /\ GENESIS_REWARD \in Nat /\ MAX_SUPPLY \in Nat
      /\ GENESIS_REWARD * Cardinality(Genesis) <= MAX_SUPPLY /\ Cardinality(Genesis) \in Nat
  BY CoinAssumption, FS_CardinalityType
<1>2. 0 \in T
  <2>1. ASSUME NEW S \in SUBSET Genesis, Cardinality(S) = 0
        PROVE  SumOver([n \in S |-> GENESIS_REWARD], S) = GENESIS_REWARD * 0
    <3>1. S = {}
      BY <1>1, <2>1, FS_Subset, FS_EmptySet
    <3> QED
      BY <1>1, <3>1, SumEmpty
  <2> QED
    BY <2>1
<1>3. ASSUME NEW k \in T PROVE k + 1 \in T
  <2>1. ASSUME NEW S \in SUBSET Genesis, Cardinality(S) = k + 1
        PROVE  SumOver([n \in S |-> GENESIS_REWARD], S) = GENESIS_REWARD * (k + 1)
    <3>1. IsFiniteSet(S) /\ k \in Nat /\ S # {}
      BY <1>1, <2>1, FS_Subset, FS_EmptySet
    <3>2. PICK x \in S : TRUE
      BY <3>1
    <3> DEFINE R == S \ {x}
               f == [n \in R |-> GENESIS_REWARD]
               g == [n \in S |-> GENESIS_REWARD]
    <3>3. IsFiniteSet(R) /\ Cardinality(R) = k /\ R \in SUBSET Genesis /\ x \notin R
      BY <2>1, <3>1, <3>2, FS_RemoveElement
    <3>4. SumOver(f, R) = GENESIS_REWARD * k
      BY <3>3
    <3>5. /\ IntOn(g, S) /\ g[x] = GENESIS_REWARD
          /\ \A y \in R : g[y] = f[y]
      BY <1>1, <3>2 DEF IntOn
    <3>6. R = S \ {x}
      OBVIOUS
    <3> HIDE DEF f, g, R
    <3>7. SumOver(g, S) = GENESIS_REWARD + GENESIS_REWARD * k
      <4>1. SumOver(g, S) = g[x] + SumOver(g, S \ {x})
        BY <3>1, <3>2, <3>5, SumSplit
      <4>2. SumOver(g, R) = SumOver(f, R)
        BY <3>3, <3>5, SumSame
      <4> QED
        BY <3>4, <3>5, <3>6, <4>1, <4>2
    <3>8. GENESIS_REWARD + GENESIS_REWARD * k = GENESIS_REWARD * (k + 1)
      BY <1>1, <3>1
    <3> QED
      BY <3>7, <3>8 DEF g
  <2>2. k + 1 \in Nat
    BY <1>3
  <2> QED
    BY <2>1, <2>2
<1>4. T = Nat
  <2> HIDE DEF T
  <2>1. T \in SUBSET Nat
    BY DEF T
  <2> QED BY <1>2, <1>3, <2>1, SetInduction
<1>5. SumOver([n \in Genesis |-> GENESIS_REWARD], Genesis) = GENESIS_REWARD * Cardinality(Genesis)
  BY <1>1, <1>4
<1>6. /\ accounts = [n \in Genesis |-> one] /\ DOMAIN accounts = Genesis
      /\ total_minted = GENESIS_REWARD * Cardinality(Genesis)
      /\ total_burned = 0 /\ escrowed = 0 /\ unbacked = 0 /\ wrapped = FALSE
  BY DEF ClInit
<1>7. one \in Account /\ one.staked <= one.balance /\ one.balance = GENESIS_REWARD
  BY <1>1 DEF NewAccount, Account
<1> HIDE DEF one
<1>8. Covered(accounts)
  BY <1>1, <1>6, <1>7 DEF Covered
<1>9. HeldBy(accounts) = [n \in Genesis |-> GENESIS_REWARD]
  BY <1>6, <1>7 DEF HeldBy
<1>10. Held(accounts) = total_minted
  BY <1>5, <1>6, <1>9 DEF Held
<1>11. total_minted \in Nat /\ total_minted <= MAX_SUPPLY
  BY <1>1, <1>6
<1>12. Counters /\ Gone = 0
  BY <1>6 DEF Counters, Gone
<1>13. Held(accounts) = total_minted - Gone
  BY <1>10, <1>11, <1>12
<1>14. Books
  BY <1>8, <1>11, <1>12, <1>13 DEF Books
<1> QED
  BY <1>6, <1>11, <1>14 DEF ClInv

LEMMA ClNextInv == ClInv /\ [ClNext]_clVars => ClInv'
<1> SUFFICES ASSUME ClInv, [ClNext]_clVars PROVE ClInv'
  OBVIOUS
<1>1. CASE UNCHANGED clVars
  BY <1>1 DEF clVars, ClInv, Books, Counters, Gone
<1>2. CASE ClNext
  <2>1. PICK n \in Holders, amount \in Amounts :
          \/ \E to \in Holders, nonce \in {0, Nonce(n)} :
                Nonce(n) < MaxNonce /\ execute_transfer(n, to, amount, nonce)
          \/ execute_stake(n, amount)
          \/ execute_unstake(n, amount)
          \/ RewardPoUW(n, amount)
          \/ \E h \in 0 .. MaxHeight : Block(n, h)
          \/ execute_slash(n, amount)
          \/ \E nonces : Escrow(n, amount, nonces)
          \/ StorageFee(n, amount)
    BY <1>2, Zenon DEF ClNext, execute
  <2>2. amount \in Nat /\ MaxHeight \in Nat
    BY CoinAssumption
  <2>3. ASSUME NEW h \in 0 .. MaxHeight, Block(n, h)
        PROVE  \E r \in Nat : execute_reward(n, r)
    <3>1. current_block_reward(h) \in Nat
      BY <2>2, RewardType
    <3> QED
      BY <2>3, <3>1 DEF Block
  <2>4. CASE \E r \in Nat : execute_reward(n, r)
    <3>1. PICK r \in Nat : execute_reward(n, r)
      BY <2>4
    <3>2. total_minted' \in Nat /\ total_minted' <= MAX_SUPPLY /\ wrapped' \in BOOLEAN
      BY <3>1, CapStep
    <3>3. ASSUME ~wrapped' PROVE Books'
      <4>1. ~wrapped
        BY <3>1, <3>3 DEF execute_reward
      <4> QED
        BY <3>1, <3>3, <4>1, RewardStep DEF ClInv
    <3> QED
      BY <3>2, <3>3 DEF ClInv
  <2>5. CASE \/ \E to \in Holders, nonce \in {0, Nonce(n)} : execute_transfer(n, to, amount, nonce)
             \/ execute_stake(n, amount)
             \/ execute_unstake(n, amount)
             \/ execute_slash(n, amount)
             \/ \E nonces : Escrow(n, amount, nonces)
             \/ StorageFee(n, amount)
    <3>1. total_minted' = total_minted /\ wrapped' \in BOOLEAN /\ (wrapped => wrapped')
      BY <2>5 DEF ClInv, execute_transfer, execute_stake, execute_unstake, execute_slash, Escrow,
                  StorageFee, supplyVars
    <3>2. ASSUME ~wrapped' PROVE Books'
      <4>1. Books
        BY <3>1, <3>2 DEF ClInv
      <4> QED
        BY <2>2, <2>5, <3>2, <4>1, TransferStep, StakeStep, UnstakeStep, SlashStep, EscrowStep, FeeStep
    <3> QED
      BY <3>1, <3>2 DEF ClInv
  <2> QED
    BY <2>1, <2>2, <2>3, <2>4, <2>5 DEF RewardPoUW
<1> QED
  BY <1>1, <1>2

\* The accounts of TokenLedger stay covered and its supply accounted for but for
\* escrows and slashed stakes, through any sequence of transfers, stakes, rewards,
\* fees, bids and slashes up to one that makes a u64 wrap, and the cap holds beyond
\* it, for every set of nodes and amounts and every reward schedule (tokenomics.rs).
THEOREM CoinsStaySound == ClSpec => []CoinsSound
<1>1. ClInv => CoinsSound
  <2> SUFFICES ASSUME ClInv PROVE CoinsSound
    OBVIOUS
  <2>1. total_minted <= MAX_SUPPLY
    BY DEF ClInv
  <2>2. ASSUME ~wrapped
        PROVE  /\ \A n \in DOMAIN accounts : accounts[n].staked <= accounts[n].balance
               /\ circulating_supply + escrowed = total_minted - total_burned + unbacked
    <3>1. Books
      BY <2>2 DEF ClInv
    <3>2. /\ circulating_supply = total_minted - Gone /\ Counters /\ total_minted \in Nat
          /\ Covered(accounts)
      BY <3>1, SupplyHeld, BooksFacts
    <3> QED
      BY <3>2 DEF Covered, Counters, Gone
  <2> QED
    BY <2>1, <2>2 DEF CoinsSound
<1> QED
  BY <1>1, ClInitInv, ClNextInv, PTL DEF ClSpec


(***************************************************************************)
(* The peer link: the room's messages                                      *)
(***************************************************************************)
LEMMA TwoPeers ==
    ASSUME NEW p \in Peers
    PROVE  /\ Other(p) \in Peers /\ Other(p) # p
           /\ \A q \in Peers : q = p \/ q = Other(p)
           /\ Other(Other(p)) = p
<1>1. PICK a, b \in Peers : a # b /\ Peers = {a, b}
  BY LinkAssumption
<1>2. ASSUME NEW q \in Peers PROVE Other(q) \in Peers /\ Other(q) # q
  BY <1>1 DEF Other
<1> QED
  BY <1>1, <1>2

\* What the room and the clients say
OutMsg == [type : {"join"}] \cup [type : {"offer", "answer"}, to : Peers]
InMsg(p) ==
    [type : {"peers"}, peers : SUBSET (Peers \ {p})]
    \cup [type : {"peer-joined", "peer-left"}, peer : Peers \ {p}]
    \cup [type : {"offer", "answer"}, from : Peers]

\* A message about who is in the room, and whom the client knows after it
Roster(m) == m.type \in {"peers", "peer-joined", "peer-left"}
Says(m) == IF m.type = "peers" THEN m.peers
           ELSE IF m.type = "peer-joined" THEN {m.peer} ELSE {}

\* Whom a client that knows `now` will know once it has read q
Heard(q, now, then) ==
    \/ (\A i \in 1 .. Len(q) : ~Roster(q[i])) /\ now = then
    \/ \E i \in 1 .. Len(q) : /\ Roster(q[i]) /\ Says(q[i]) = then
                              /\ \A j \in i + 1 .. Len(q) : ~Roster(q[j])

LEMMA HeardAppend ==
    ASSUME NEW S, NEW q \in Seq(S), NEW m \in S, NEW now, NEW then
    PROVE  /\ Roster(m) => Heard(Append(q, m), now, Says(m))
           /\ ~Roster(m) /\ Heard(q, now, then) => Heard(Append(q, m), now, then)
<1> DEFINE r == Append(q, m)
           n == Len(q)
<1>1. /\ Len(r) = n + 1 /\ r[n + 1] = m /\ \A i \in 1 .. n : r[i] = q[i]
      /\ n \in Nat
  BY AppendProperties
<1> HIDE DEF r, n
<1>2. ASSUME Roster(m) PROVE Heard(r, now, Says(m))
  <2>1. n + 1 \in 1 .. Len(r) /\ \A j \in (n + 1) + 1 .. Len(r) : FALSE
    BY <1>1
  <2> QED
    BY <1>1, <1>2, <2>1 DEF Heard
<1>3. ASSUME ~Roster(m), Heard(q, now, then) PROVE Heard(r, now, then)
  <2>1. \A i \in 1 .. Len(r) : i \in 1 .. n \/ i = n + 1
    BY <1>1
  <2>2. CASE (\A i \in 1 .. n : ~Roster(q[i])) /\ now = then
    BY <1>1, <1>3, <2>1, <2>2 DEF Heard
  <2>3. CASE \E i \in 1 .. n : /\ Roster(q[i]) /\ Says(q[i]) = then
                               /\ \A j \in i + 1 .. n : ~Roster(q[j])
    <3>1. PICK i \in 1 .. n : /\ Roster(q[i]) /\ Says(q[i]) = then
                              /\ \A j \in i + 1 .. n : ~Roster(q[j])
      BY <2>3
    <3>2. i \in 1 .. Len(r) /\ r[i] = q[i]
      BY <1>1
    <3>3. ASSUME NEW j \in i + 1 .. Len(r) PROVE ~Roster(r[j])
      <4>1. j = n + 1 \/ (j \in i + 1 .. n /\ j \in 1 .. n)
        <5>1. i \in Nat /\ n \in Nat /\ j \in i + 1 .. n + 1 /\ 1 <= i
          BY <1>1
        <5> QED
          BY <5>1
      <4>2. CASE j = n + 1
        BY <1>1, <1>3, <4>2
      <4>3. CASE j \in i + 1 .. n /\ j \in 1 .. n
        BY <1>1, <3>1, <4>3
      <4> QED
        BY <4>1, <4>2, <4>3
    <3> QED
      BY <3>1, <3>2, <3>3 DEF Heard
  <2> QED
    BY <1>3, <2>2, <2>3 DEF Heard, n
<1> QED
  BY <1>2, <1>3 DEF r

LEMMA HeardTail ==
    ASSUME NEW S, NEW q \in Seq(S), q # << >>, NEW now, NEW then, Heard(q, now, then)
    PROVE  Heard(Tail(q), IF Roster(Head(q)) THEN Says(Head(q)) ELSE now, then)
<1> DEFINE r == Tail(q)
           n == Len(q)
           k == IF Roster(q[1]) THEN Says(q[1]) ELSE now
<1>1. /\ Len(r) = n - 1 /\ \A i \in 1 .. Len(r) : r[i] = q[i + 1]
      /\ n \in Nat /\ n >= 1 /\ Head(q) = q[1]
  BY HeadTailProperties, EmptySeq, LenProperties
<1> HIDE DEF r, n
<1>2. CASE (\A i \in 1 .. n : ~Roster(q[i])) /\ now = then
  <2>1. 1 \in 1 .. n /\ \A i \in 1 .. Len(r) : i + 1 \in 1 .. n
    BY <1>1
  <2>2. k = then
    BY <1>2, <2>1
  <2> QED
    BY <1>1, <1>2, <2>1, <2>2 DEF Heard, r
<1>3. CASE \E i \in 1 .. n : /\ Roster(q[i]) /\ Says(q[i]) = then
                             /\ \A j \in i + 1 .. n : ~Roster(q[j])
  <2>1. PICK i \in 1 .. n : /\ Roster(q[i]) /\ Says(q[i]) = then
                            /\ \A j \in i + 1 .. n : ~Roster(q[j])
    BY <1>3
  <2>2. CASE i = 1
    <3>1. \A j \in 1 .. Len(r) : j + 1 \in i + 1 .. n
      BY <1>1, <2>2
    <3>2. k = then
      BY <2>1, <2>2
    <3> QED
      BY <1>1, <2>1, <3>1, <3>2 DEF Heard, r
  <2>3. CASE i # 1
    <3>1. i - 1 \in 1 .. Len(r) /\ (i - 1) + 1 = i
      BY <1>1, <2>3
    <3>2. \A j \in (i - 1) + 1 .. Len(r) : j + 1 \in i + 1 .. n /\ j \in 1 .. Len(r)
      BY <1>1, <2>3
    <3>3. Roster(r[i - 1]) /\ Says(r[i - 1]) = then
      BY <1>1, <2>1, <3>1
    <3>4. \A j \in (i - 1) + 1 .. Len(r) : ~Roster(r[j])
      BY <1>1, <2>1, <3>2
    <3> QED
      BY <1>1, <3>1, <3>3, <3>4 DEF Heard, r
  <2> QED
    BY <2>2, <2>3
<1> QED
  BY <1>2, <1>3 DEF Heard, n


\* The signalling side: who is in the room has an open or closed socket, only an
\* open one holds messages, and a member learns, from what it knows and what the
\* room has queued for it, exactly who the others are.
SigTyped ==
    /\ room \subseteq Peers
    /\ socket \in [Peers -> {"none", "open", "closed"}]
    /\ known \in [Peers -> SUBSET Peers]
    /\ outbox \in [Peers -> Seq(OutMsg)]
    /\ DOMAIN inq = Peers /\ inq = [p \in Peers |-> inq[p]]
SigClient(p) ==
    /\ inq[p] \in Seq(InMsg(p)) /\ p \notin known[p]
    /\ p \in room => socket[p] # "none"
    /\ outbox[p] # << >> => socket[p] = "open"
    /\ p \in room /\ socket[p] = "open" => Heard(inq[p], known[p], room \ {p})
SigInv == SigTyped /\ \A p \in Peers : SigClient(p)

LEMMA JoinStep == ASSUME SigInv, NEW p \in Peers, Join(p) PROVE SigInv'
<1>1. /\ UNCHANGED <<room, known, inq>>
      /\ socket' = [socket EXCEPT ![p] = "open"]
      /\ outbox' = [outbox EXCEPT ![p] = <<[type |-> "join"]>>]
      /\ socket[p] = "none"
  BY DEF Join
<1>2. <<[type |-> "join"]>> \in Seq(OutMsg)
  BY DEF OutMsg
<1>3. SigTyped'
  BY <1>1, <1>2 DEF SigInv, SigTyped
<1>4. ASSUME NEW q \in Peers PROVE SigClient(q)'
  <2>1. CASE q = p
    <3>1. p \notin room
      BY <1>1 DEF SigInv, SigClient
    <3> QED
      BY <1>1, <2>1, <3>1 DEF SigInv, SigTyped, SigClient
  <2>2. CASE q # p
    BY <1>1, <2>2 DEF SigInv, SigTyped, SigClient
  <2> QED
    BY <2>1, <2>2
<1> QED
  BY <1>3, <1>4 DEF SigInv

LEMMA LeaveStep == ASSUME SigInv, NEW p \in Peers, Leave(p) PROVE SigInv'
<1>1. /\ UNCHANGED <<room, known, inq>>
      /\ socket' = [socket EXCEPT ![p] = "closed"]
      /\ outbox' = [outbox EXCEPT ![p] = << >>]
  BY DEF Leave
<1>2. SigTyped'
  BY <1>1 DEF SigInv, SigTyped
<1>3. ASSUME NEW q \in Peers PROVE SigClient(q)'
  <2>1. CASE q = p
    BY <1>1, <2>1 DEF SigInv, SigTyped, SigClient
  <2>2. CASE q # p
    BY <1>1, <2>2 DEF SigInv, SigTyped, SigClient
  <2> QED
    BY <2>1, <2>2
<1> QED
  BY <1>2, <1>3 DEF SigInv

LEMMA SeesCloseStep == ASSUME SigInv, NEW p \in Peers, RoomSeesClose(p) PROVE SigInv'
<1> DEFINE msg == [type |-> "peer-left", peer |-> p]
<1>1. /\ UNCHANGED <<socket, known, outbox>> /\ room' = room \ {p}
      /\ inq' = [q \in Peers |-> IF q \in room \ {p} THEN Append(inq[q], msg) ELSE inq[q]]
  BY DEF RoomSeesClose, Told
<1>2. SigTyped'
  BY <1>1 DEF SigInv, SigTyped
<1>3. ASSUME NEW q \in Peers PROVE SigClient(q)'
  <2>1. CASE q \in room \ {p}
    <3>1. msg \in InMsg(q) /\ Roster(msg) /\ Says(msg) = {}
      BY <2>1 DEF InMsg, Roster, Says
    <3>2. room' \ {q} = {}
      <4>1. \A r \in Peers : r = q \/ r = Other(q)
        BY TwoPeers
      <4> QED
        BY <1>1, <2>1, <4>1 DEF SigInv, SigTyped
    <3>3. inq'[q] = Append(inq[q], msg) /\ inq[q] \in Seq(InMsg(q))
      BY <1>1, <2>1 DEF SigInv, SigClient
    <3> HIDE DEF msg
    <3>4. inq'[q] \in Seq(InMsg(q))
      BY <3>1, <3>3, AppendProperties
    <3>5. Heard(Append(inq[q], msg), known[q], Says(msg))
      BY <3>1, <3>3, HeardAppend
    <3> QED
      BY <1>1, <2>1, <3>1, <3>2, <3>3, <3>4, <3>5 DEF SigInv, SigClient, InMsg
  <2>2. CASE q \notin room \ {p}
    BY <1>1, <2>2 DEF SigInv, SigClient, InMsg
  <2> QED
    BY <2>1, <2>2
<1> QED
  BY <1>2, <1>3 DEF SigInv

LEMMA SayStep ==
    ASSUME SigInv, NEW p \in Peers, NEW type \in {"offer", "answer"}, Say(p, type),
           UNCHANGED <<socket, room, known, inq>>
    PROVE  SigInv'
<1> DEFINE msg == [type |-> type, to |-> Other(p)]
           new == IF socket[p] = "open" THEN Append(outbox[p], msg) ELSE outbox[p]
<1>1. msg \in OutMsg
  BY TwoPeers DEF OutMsg
<1>2. outbox' = [outbox EXCEPT ![p] = new]
  BY DEF Say
<1> HIDE DEF msg
<1>3. new \in Seq(OutMsg)
  BY <1>1, AppendProperties DEF SigInv, SigTyped
<1>4. new # << >> => socket[p] = "open"
  BY DEF SigInv, SigClient
<1> HIDE DEF new
<1>5. SigTyped'
  BY <1>2, <1>3 DEF SigInv, SigTyped
<1>6. ASSUME NEW q \in Peers PROVE SigClient(q)'
  BY <1>2, <1>4 DEF SigInv, SigTyped, SigClient
<1> QED
  BY <1>5, <1>6 DEF SigInv

LEMMA ReadStep == ASSUME SigInv, NEW p \in Peers, on_message(p) PROVE SigInv'
<1> DEFINE m == Head(inq[p])
           now == IF Roster(m) THEN Says(m) ELSE known[p]
<1>1. /\ inq[p] # << >> /\ UNCHANGED <<socket, room, outbox>>
      /\ inq' = [inq EXCEPT ![p] = Tail(@)]
      /\ known' = [known EXCEPT ![p] = CASE m.type = "peers" -> m.peers
                                          [] m.type = "peer-joined" -> @ \cup {m.peer}
                                          [] m.type = "peer-left" -> @ \ {m.peer}
                                          [] OTHER -> @]
  BY DEF on_message
<1>2. /\ inq[p] \in Seq(InMsg(p)) /\ known[p] \subseteq Peers \ {p}
      /\ p \in room /\ socket[p] = "open" => Heard(inq[p], known[p], room \ {p})
  BY DEF SigInv, SigTyped, SigClient
<1>3. m \in InMsg(p) /\ Tail(inq[p]) \in Seq(InMsg(p))
  BY <1>1, <1>2, HeadTailProperties
<1> HIDE DEF m
<1>4. known' = [known EXCEPT ![p] = now] /\ now \subseteq Peers \ {p}
  <2>0. \A q \in Peers \ {p} : q = Other(p)
    BY TwoPeers
  <2>1. CASE m \in [type : {"peers"}, peers : SUBSET (Peers \ {p})]
    <3>1. m.type = "peers" /\ m.peers \subseteq Peers \ {p}
      BY <2>1
    <3> QED
      BY <1>1, <3>1 DEF Roster, Says
  <2>2. CASE m \in [type : {"peer-joined", "peer-left"}, peer : Peers \ {p}]
    <3>1. m.type \in {"peer-joined", "peer-left"} /\ m.peer \in Peers \ {p}
      BY <2>2
    <3>2. known[p] \cup {m.peer} = {m.peer} /\ known[p] \ {m.peer} = {}
      BY <1>2, <2>0, <3>1
    <3>3. CASE m.type = "peer-joined"
      BY <1>1, <3>1, <3>2, <3>3 DEF Roster, Says
    <3>4. CASE m.type = "peer-left"
      BY <1>1, <3>1, <3>2, <3>4 DEF Roster, Says
    <3> QED
      BY <3>1, <3>3, <3>4
  <2>3. CASE m \in [type : {"offer", "answer"}, from : Peers]
    <3>1. m.type \in {"offer", "answer"}
      BY <2>3
    <3> QED
      BY <1>1, <1>2, <3>1 DEF Roster, Says
  <2> QED
    BY <1>3, <2>1, <2>2, <2>3 DEF InMsg
<1>5. p \in room /\ socket[p] = "open" => Heard(Tail(inq[p]), now, room \ {p})
  BY <1>1, <1>2, HeardTail DEF m
<1> HIDE DEF now
<1>6. SigTyped'
  <2>1. DOMAIN inq' = Peers /\ inq' = [q \in Peers |-> inq'[q]]
    BY <1>1 DEF SigInv, SigTyped
  <2>2. known' \in [Peers -> SUBSET Peers]
    BY <1>4 DEF SigInv, SigTyped
  <2> QED
    BY <1>1, <2>1, <2>2 DEF SigInv, SigTyped
<1>7. ASSUME NEW q \in Peers PROVE SigClient(q)'
  <2>1. CASE q = p
    <3>1. inq'[q] = Tail(inq[p]) /\ known'[q] = now
      BY <1>1, <1>4, <2>1 DEF SigInv, SigTyped
    <3> QED
      BY <1>1, <1>3, <1>4, <1>5, <2>1, <3>1 DEF SigInv, SigClient, InMsg
  <2>2. CASE q # p
    <3>1. inq'[q] = inq[q] /\ known'[q] = known[q]
      BY <1>1, <1>4, <2>2 DEF SigInv, SigTyped
    <3> QED
      BY <1>1, <3>1 DEF SigInv, SigClient, InMsg
  <2> QED
    BY <2>1, <2>2
<1> QED
  BY <1>6, <1>7 DEF SigInv

LEMMA RoomStep == ASSUME SigInv, NEW p \in Peers, RoomHandles(p) PROVE SigInv'
<1> DEFINE m == Head(outbox[p])
           joined == [type |-> "peer-joined", peer |-> p]
           list == [type |-> "peers", peers |-> room \ {p}]
           passed == [type |-> m.type, from |-> p]
<1>1. /\ UNCHANGED <<socket, known>> /\ outbox[p] # << >>
      /\ outbox' = [outbox EXCEPT ![p] = Tail(@)]
  BY DEF RoomHandles
<1>2. m \in OutMsg /\ Tail(outbox[p]) \in Seq(OutMsg)
  BY <1>1, HeadTailProperties DEF SigInv, SigTyped
<1>3. socket[p] = "open"
  BY <1>1 DEF SigInv, SigClient
<1>4. CASE m.type = "join"
  <2>1. /\ room' = room \cup {p}
        /\ inq' = [q \in Peers |-> IF q \in room \ {p} THEN Append(inq[q], joined)
                                   ELSE IF q = p THEN Append(inq[q], list) ELSE inq[q]]
    BY <1>4 DEF RoomHandles, Told
  <2>2. SigTyped'
    BY <1>1, <1>2, <2>1 DEF SigInv, SigTyped
  <2>3. ASSUME NEW q \in Peers, NEW msg \in InMsg(q), Roster(msg), Says(msg) = room' \ {q},
               inq'[q] = Append(inq[q], msg), socket[q] # "none"
        PROVE  SigClient(q)'
    <3>1. inq[q] \in Seq(InMsg(q))
      BY DEF SigInv, SigClient
    <3>2. inq'[q] \in Seq(InMsg(q))
      BY <2>3, <3>1, AppendProperties
    <3>3. Heard(Append(inq[q], msg), known[q], Says(msg))
      BY <2>3, <3>1, HeardAppend
    <3> QED
      BY <1>1, <1>2, <1>3, <2>3, <3>2, <3>3 DEF SigInv, SigTyped, SigClient, InMsg
  <2>4. ASSUME NEW q \in Peers PROVE SigClient(q)'
    <3>1. CASE q \in room \ {p}
      <4>1. joined \in InMsg(q) /\ Roster(joined) /\ Says(joined) = {p}
        BY <3>1 DEF InMsg, Roster, Says
      <4>2. room' \ {q} = {p}
        BY <2>1, <3>1, TwoPeers DEF SigInv, SigTyped
      <4>3. inq'[q] = Append(inq[q], joined)
        BY <2>1, <3>1
      <4>4. socket[q] # "none"
        BY <3>1 DEF SigInv, SigClient
      <4> HIDE DEF joined
      <4> QED
        BY <2>3, <4>1, <4>2, <4>3, <4>4
    <3>2. CASE q = p
      <4>1. list \in InMsg(q) /\ Roster(list) /\ Says(list) = room \ {p}
        BY <3>2 DEF InMsg, Roster, Says, SigInv, SigTyped
      <4>2. room' \ {q} = room \ {p}
        BY <2>1, <3>2
      <4>3. inq'[q] = Append(inq[q], list)
        BY <2>1, <3>2
      <4> HIDE DEF list
      <4> QED
        BY <1>3, <2>3, <3>2, <4>1, <4>2, <4>3
    <3>3. CASE q \notin room /\ q # p
      <4>1. inq'[q] = inq[q] /\ outbox'[q] = outbox[q] /\ q \notin room'
        BY <1>1, <2>1, <3>3 DEF SigInv, SigTyped
      <4> QED
        BY <1>1, <4>1 DEF SigInv, SigClient, InMsg
    <3> QED
      BY <3>1, <3>2, <3>3
  <2> QED
    BY <2>2, <2>4 DEF SigInv
<1>5. CASE m.type # "join"
  <2>1. /\ UNCHANGED room
        /\ inq' = [q \in Peers |-> IF q \in {m.to} \cap room THEN Append(inq[q], passed) ELSE inq[q]]
    BY <1>5 DEF RoomHandles, Told
  <2>2. SigTyped'
    BY <1>1, <1>2, <2>1 DEF SigInv, SigTyped
  <2>3. m.type \in {"offer", "answer"}
    BY <1>2, <1>5 DEF OutMsg
  <2>4. ~Roster(passed)
    BY <2>3 DEF Roster
  <2>5. ASSUME NEW q \in Peers PROVE SigClient(q)'
    <3>1. passed \in InMsg(q) /\ inq[q] \in Seq(InMsg(q))
      BY <2>3 DEF InMsg, SigInv, SigClient
    <3> HIDE DEF passed, m
    <3>2. /\ inq'[q] \in Seq(InMsg(q))
          /\ q \in room /\ socket[q] = "open" => Heard(inq'[q], known[q], room \ {q})
      <4>1. CASE inq'[q] = inq[q]
        BY <3>1, <4>1 DEF SigInv, SigClient
      <4>2. CASE inq'[q] = Append(inq[q], passed)
        <5>1. Append(inq[q], passed) \in Seq(InMsg(q))
          BY <3>1, AppendProperties
        <5>2. Heard(inq[q], known[q], room \ {q}) =>
                 Heard(Append(inq[q], passed), known[q], room \ {q})
          BY <2>4, <3>1, HeardAppend
        <5> QED
          BY <4>2, <5>1, <5>2 DEF SigInv, SigClient
      <4> QED
        BY <2>1, <4>1, <4>2
    <3>3. outbox'[q] # << >> => socket[q] = "open"
      BY <1>1, <1>3 DEF SigInv, SigTyped, SigClient
    <3> QED
      BY <1>1, <2>1, <3>2, <3>3 DEF SigInv, SigClient, InMsg
  <2> QED
    BY <2>2, <2>5 DEF SigInv
<1> QED
  BY <1>4, <1>5


(***************************************************************************)
(* The peer link: the connection's state                                   *)
(***************************************************************************)
PeerStates == {"New", "Connecting", "Connected", "Disconnected", "Failed"}

RtcTyped ==
    /\ st \in [Peers -> PeerStates]
    /\ step \in [Peers -> {"none", "created", "offered", "stable", "offer", "handler", "answered"}]
    /\ dc \in [Peers -> {"none", "held", "lost", "open"}]
    /\ shut \in [Peers -> BOOLEAN]
    /\ opened \in [Peers -> BOOLEAN] /\ failed \in [Peers -> BOOLEAN]
RtcPeer(p) ==
    /\ step[p] = "none" => /\ st[p] = "New" /\ dc[p] = "none"
                           /\ ~shut[p] /\ ~opened[p] /\ ~failed[p]
    /\ shut[p] => st[p] = "Disconnected"
    /\ failed[p] /\ ~shut[p] => st[p] = "Failed"
    /\ opened[p] => st[p] \notin {"New", "Connecting"}
RtcInv == RtcTyped /\ \A p \in Peers : RtcPeer(p)

LEMMA EventStates ==
    ASSUME NEW s \in PeerStates, NEW n \in PeerStates \ {"New"}
    PROVE  /\ become_from_event(s, n) \in PeerStates
           /\ s = "Failed" => become_from_event(s, n) = "Failed"
           /\ n = "Failed" => become_from_event(s, n) = "Failed"
           /\ s \notin {"New", "Connecting"} =>
                 become_from_event(s, n) \notin {"New", "Connecting"}
           /\ n = "Connected" => become_from_event(s, n) \in {"Connected", "Failed"}
<1>1. /\ can_become(s, n) => n \notin {"New"} /\ s # "Failed"
      /\ can_become(s, n) /\ n = "Connecting" => s = "New"
      /\ s # "Failed" /\ n = "Failed" => can_become(s, n)
      /\ s \notin {"Failed", "Connected"} /\ n = "Connected" => can_become(s, n)
  BY DEF can_become, PeerStates
<1> QED
  BY <1>1 DEF become_from_event, PeerStates

\* A step of one peer's connection leaves the other's alone.
LEMMA OnePeer ==
    ASSUME RtcInv, NEW p \in Peers, RtcTyped', RtcPeer(p)',
           \A q \in Peers \ {p} :
              /\ st'[q] = st[q] /\ step'[q] = step[q] /\ dc'[q] = dc[q]
              /\ shut'[q] = shut[q] /\ opened'[q] = opened[q] /\ failed'[q] = failed[q]
    PROVE  RtcInv'
<1> SUFFICES ASSUME NEW q \in Peers \ {p} PROVE RtcPeer(q)'
  BY DEF RtcInv
<1> QED
  BY DEF RtcInv, RtcPeer

LEMMA RtcNext == ASSUME RtcInv, NEW p \in Peers, ~UNCHANGED <<st, step, dc, shut, opened, failed>>,
                        \/ on_message(p) \/ create_offer(p) \/ InstallHandler(p) \/ Answer(p)
                        \/ OnDataChannel(p) \/ OnOpen(p) \/ close(p)
                        \/ \E ice \in {"checking", "connected", "disconnected", "failed"} :
                              OnIceStateChange(p, ice)
                 PROVE  RtcInv'
<1>a. /\ st[p] \in PeerStates /\ dc[p] \in {"none", "held", "lost", "open"}
      /\ step[p] \in {"none", "created", "offered", "stable", "offer", "handler", "answered"}
      /\ shut[p] \in BOOLEAN /\ opened[p] \in BOOLEAN /\ failed[p] \in BOOLEAN
  BY DEF RtcInv, RtcTyped
<1>b. RtcPeer(p)
  BY DEF RtcInv
<1>1. CASE on_message(p)
  <2> DEFINE m == Head(inq[p])
  <2>1. UNCHANGED <<shut, opened, failed>>
    BY <1>1 DEF on_message
  <2>2. CASE m.type = "peers" /\ m.peers # {} /\ step[p] = "none"
    <3>1. /\ step' = [step EXCEPT ![p] = "created"] /\ st' = [st EXCEPT ![p] = "Connecting"]
          /\ dc' = [dc EXCEPT ![p] = "held"]
      BY <1>1, <2>2 DEF on_message
    <3>2. "Connecting" \in PeerStates
      BY DEF PeerStates
    <3> QED
      <4>1. RtcTyped'
        BY <1>a, <2>1, <2>2, <3>1, <3>2 DEF RtcInv, RtcTyped
      <4>2. RtcPeer(p)'
        BY <1>a, <1>b, <2>1, <2>2, <3>1, <3>2 DEF RtcInv, RtcTyped, RtcPeer
      <4> QED
        BY <2>1, <2>2, <3>1, <3>2, <4>1, <4>2, OnePeer DEF RtcInv, RtcTyped
  <2>3. CASE m.type = "offer" /\ step[p] = "none"
    <3>1. step' = [step EXCEPT ![p] = "offer"] /\ UNCHANGED <<st, dc>>
      BY <1>1, <2>3 DEF on_message
    <3> QED
      <4>1. RtcTyped'
        BY <1>a, <2>1, <2>3, <3>1 DEF RtcInv, RtcTyped
      <4>2. RtcPeer(p)'
        BY <1>a, <1>b, <2>1, <2>3, <3>1 DEF RtcInv, RtcTyped, RtcPeer
      <4> QED
        BY <2>1, <2>3, <3>1, <4>1, <4>2, OnePeer DEF RtcInv, RtcTyped
  <2>4. CASE m.type = "answer" /\ step[p] = "offered"
    <3>1. step' = [step EXCEPT ![p] = "stable"] /\ UNCHANGED <<st, dc>>
      BY <1>1, <2>4 DEF on_message
    <3> QED
      <4>1. RtcTyped'
        BY <1>a, <2>1, <2>4, <3>1 DEF RtcInv, RtcTyped
      <4>2. RtcPeer(p)'
        BY <1>a, <1>b, <2>1, <2>4, <3>1 DEF RtcInv, RtcTyped, RtcPeer
      <4> QED
        BY <2>1, <2>4, <3>1, <4>1, <4>2, OnePeer DEF RtcInv, RtcTyped
  <2>5. CASE /\ ~(m.type = "peers" /\ m.peers # {} /\ step[p] = "none")
             /\ ~(m.type = "offer" /\ step[p] = "none")
             /\ ~(m.type = "answer" /\ step[p] = "offered")
    <3>1. UNCHANGED <<step, st, dc>>
      BY <1>1, <2>5 DEF on_message
    <3> QED
      BY <2>1, <3>1
  <2> QED
    BY <2>2, <2>3, <2>4, <2>5
<1>2. CASE create_offer(p)
  <2>1. step' = [step EXCEPT ![p] = "offered"] /\ UNCHANGED <<st, dc, shut, opened, failed>>
    BY <1>2 DEF create_offer
  <2> QED
    <3>1. RtcTyped'
      BY <1>a, <2>1 DEF RtcInv, RtcTyped
    <3>2. RtcPeer(p)'
      BY <1>a, <1>b, <2>1 DEF RtcInv, RtcTyped, RtcPeer
    <3> QED
      BY <2>1, <3>1, <3>2, OnePeer DEF RtcInv, RtcTyped
<1>3. CASE InstallHandler(p)
  <2>1. step' = [step EXCEPT ![p] = "handler"] /\ UNCHANGED <<st, dc, shut, opened, failed>>
    BY <1>3 DEF InstallHandler
  <2> QED
    <3>1. RtcTyped'
      BY <1>a, <2>1 DEF RtcInv, RtcTyped
    <3>2. RtcPeer(p)'
      BY <1>a, <1>b, <2>1 DEF RtcInv, RtcTyped, RtcPeer
    <3> QED
      BY <2>1, <3>1, <3>2, OnePeer DEF RtcInv, RtcTyped
<1>4. CASE Answer(p)
  <2> DEFINE s == become_from_event(st[p], "Connecting")
  <2>1. /\ step' = [step EXCEPT ![p] = "answered"] /\ st' = [st EXCEPT ![p] = s]
        /\ UNCHANGED <<dc, shut, opened, failed>> /\ ~shut[p]
    BY <1>4 DEF Answer
  <2>2. "Connecting" \in PeerStates \ {"New"}
    BY DEF PeerStates
  <2>3. /\ s \in PeerStates
        /\ st[p] = "Failed" => s = "Failed"
        /\ st[p] \notin {"New", "Connecting"} => s \notin {"New", "Connecting"}
    BY <1>a, <2>2, EventStates
  <2> HIDE DEF s
  <2> QED
    <3>1. RtcTyped'
      BY <1>a, <2>1, <2>3 DEF RtcInv, RtcTyped
    <3>2. RtcPeer(p)'
      BY <1>a, <1>b, <2>1, <2>3 DEF RtcInv, RtcTyped, RtcPeer
    <3> QED
      BY <2>1, <2>3, <3>1, <3>2, OnePeer DEF RtcInv, RtcTyped
<1>5. CASE OnDataChannel(p)
  <2> DEFINE d == IF step[p] = "handler" THEN "held" ELSE "lost"
  <2>1. /\ dc' = [dc EXCEPT ![p] = d] /\ step[p] # "none"
        /\ UNCHANGED <<st, step, shut, opened, failed>>
    BY <1>5 DEF OnDataChannel
  <2> QED
    <3>1. RtcTyped'
      BY <1>a, <2>1 DEF RtcInv, RtcTyped
    <3>2. RtcPeer(p)'
      BY <1>a, <1>b, <2>1 DEF RtcInv, RtcTyped, RtcPeer
    <3> QED
      BY <2>1, <3>1, <3>2, OnePeer DEF RtcInv, RtcTyped
<1>6. CASE OnOpen(p)
  <2> DEFINE s == become_from_event(st[p], "Connected")
             d == IF dc[p] = "held" THEN "open" ELSE dc[p]
  <2>1. /\ dc' = [dc EXCEPT ![p] = d] /\ st' = [st EXCEPT ![p] = s]
        /\ opened' = [opened EXCEPT ![p] = TRUE] /\ UNCHANGED <<step, shut, failed>>
        /\ ~shut[p] /\ dc[p] # "none"
    BY <1>6 DEF OnOpen, Live
  <2>2. "Connected" \in PeerStates \ {"New"}
    BY DEF PeerStates
  <2>3. s \in PeerStates /\ s \in {"Connected", "Failed"} /\ (st[p] = "Failed" => s = "Failed")
    BY <1>a, <2>2, EventStates
  <2>4. d \in {"none", "held", "lost", "open"} /\ step[p] # "none"
    BY <1>a, <1>b, <2>1 DEF RtcPeer
  <2> HIDE DEF s, d
  <2> QED
    <3>1. RtcTyped'
      BY <1>a, <2>1, <2>3, <2>4 DEF RtcInv, RtcTyped
    <3>2. RtcPeer(p)'
      BY <1>a, <1>b, <2>1, <2>3, <2>4 DEF RtcInv, RtcTyped, RtcPeer
    <3> QED
      BY <2>1, <2>3, <2>4, <3>1, <3>2, OnePeer DEF RtcInv, RtcTyped
<1>7. CASE close(p)
  <2>1. /\ shut' = [shut EXCEPT ![p] = TRUE] /\ st' = [st EXCEPT ![p] = "Disconnected"]
        /\ dc' = [dc EXCEPT ![p] = "none"] /\ UNCHANGED <<step, opened, failed>>
        /\ step[p] # "none"
    BY <1>7 DEF close
  <2>2. "Disconnected" \in PeerStates
    BY DEF PeerStates
  <2> QED
    <3>1. RtcTyped'
      BY <1>a, <2>1, <2>2 DEF RtcInv, RtcTyped
    <3>2. RtcPeer(p)'
      BY <1>a, <1>b, <2>1, <2>2 DEF RtcInv, RtcTyped, RtcPeer
    <3> QED
      BY <2>1, <2>2, <3>1, <3>2, OnePeer DEF RtcInv, RtcTyped
<1>8. ASSUME NEW ice \in {"checking", "connected", "disconnected", "failed"}, OnIceStateChange(p, ice)
      PROVE  RtcInv'
  <2> DEFINE n == from_ice_str(ice)
             s == become_from_event(st[p], n)
             f == failed[p] \/ ice = "failed"
  <2>1. /\ st' = [st EXCEPT ![p] = s] /\ failed' = [failed EXCEPT ![p] = f]
        /\ UNCHANGED <<step, dc, shut, opened>> /\ ~shut[p] /\ step[p] # "none"
    BY <1>8 DEF OnIceStateChange
  <2>2. n \in PeerStates \ {"New"} /\ (ice = "failed" => n = "Failed")
    BY DEF PeerStates, from_ice_str
  <2> HIDE DEF n
  <2>3. /\ s \in PeerStates
        /\ st[p] = "Failed" => s = "Failed"
        /\ n = "Failed" => s = "Failed"
        /\ st[p] \notin {"New", "Connecting"} => s \notin {"New", "Connecting"}
    BY <1>a, <2>2, EventStates
  <2>4. f \in BOOLEAN
    BY <1>a
  <2>5. f => s = "Failed"
    <3>1. CASE failed[p]
      BY <1>b, <2>1, <2>3, <3>1 DEF RtcPeer
    <3>2. CASE ice = "failed"
      BY <2>2, <2>3, <3>2
    <3> QED
      BY <3>1, <3>2
  <2> HIDE DEF s, f
  <2> QED
    <3>1. RtcTyped'
      BY <1>a, <2>1, <2>3, <2>4, <2>5 DEF RtcInv, RtcTyped
    <3>2. RtcPeer(p)'
      BY <1>a, <1>b, <2>1, <2>3, <2>4, <2>5 DEF RtcInv, RtcTyped, RtcPeer
    <3> QED
      BY <2>1, <2>3, <2>4, <3>1, <3>2, OnePeer DEF RtcInv, RtcTyped
<1> QED
  BY <1>1, <1>2, <1>3, <1>4, <1>5, <1>6, <1>7, <1>8


(***************************************************************************)
(* The peer link: what is sent                                             *)
(***************************************************************************)
LEMMA PrefixNat ==
    ASSUME NEW s \in Seq(Nat), NEW t \in Seq(Nat)
    PROVE  IsPrefix(s, t) <=> Len(s) <= Len(t) /\ \A i \in 1 .. Len(s) : s[i] = t[i]
<1> SUFFICES ASSUME Len(s) <= Len(t)
             PROVE  SubSeq(s, 1, Len(s)) = SubSeq(t, 1, Len(s)) <=>
                       \A i \in 1 .. Len(s) : s[i] = t[i]
  BY DEF IsPrefix
<1> DEFINE n == Len(s)
           a == SubSeq(s, 1, n)
           b == SubSeq(t, 1, n)
<1>1. n \in Nat /\ n <= Len(t)
  BY LenProperties
<1>2. /\ a \in Seq(Nat) /\ Len(a) = n /\ \A i \in 1 .. n : a[i] = s[i]
      /\ b \in Seq(Nat) /\ Len(b) = n /\ \A i \in 1 .. n : b[i] = t[i]
  BY <1>1, SubSeqProperties, LenProperties, SMTT(30)
<1> HIDE DEF a, b
<1>3. (\A i \in 1 .. n : s[i] = t[i]) => a = b
  BY <1>2, SeqEqual
<1> QED
  BY <1>2, <1>3 DEF a, b

LEMMA ConcatNat ==
    ASSUME NEW s \in Seq(Nat), NEW t \in Seq(Nat), NEW u \in Seq(Nat)
    PROVE  (s \o t) \o u = s \o (t \o u)
BY ConcatAssociative, SMTT(30)

\* What a peer read begins what was sent to it; while neither end is closed, the
\* rest is on the wire, and a closed end sends no more.
DataTyped ==
    /\ wire \in [Peers -> Seq(Nat)] /\ sentTo \in [Peers -> Seq(Nat)]
    /\ inbox \in [Peers -> Seq(Nat)]
DataPeer(p) ==
    /\ IsPrefix(inbox[p], sentTo[p])
    /\ ~shut[p] /\ ~shut[Other(p)] => inbox[p] \o wire[p] = sentTo[p]
    /\ ~shut[p] /\ shut[Other(p)] => wire[p] = << >>
DataInv == DataTyped /\ \A p \in Peers : DataPeer(p)

LEMMA SendStep == ASSUME DataInv, RtcInv, NEW p \in Peers, send_on(p) PROVE DataInv'
<1> DEFINE o == Other(p)
           n == Len(sentTo[o]) + 1
<1>0. o \in Peers /\ o # p /\ Other(o) = p /\ Other(p) = o
  BY TwoPeers
<1>1. /\ wire' = [wire EXCEPT ![o] = Append(@, n)]
      /\ sentTo' = [sentTo EXCEPT ![o] = Append(@, n)]
      /\ inbox' = inbox /\ shut' = shut /\ ~shut[p]
  BY DEF send_on
<1>2. n \in Nat /\ wire[o] \in Seq(Nat) /\ sentTo[o] \in Seq(Nat) /\ inbox[o] \in Seq(Nat)
  BY <1>0, LenProperties DEF DataInv, DataTyped
<1> HIDE DEF n
<1>3. /\ Append(wire[o], n) \in Seq(Nat) /\ Append(sentTo[o], n) \in Seq(Nat)
  BY <1>2, AppendProperties
<1>4. DataTyped'
  BY <1>0, <1>1, <1>3 DEF DataInv, DataTyped
<1>5. sentTo'[o] = Append(sentTo[o], n) /\ wire'[o] = Append(wire[o], n)
  BY <1>0, <1>1 DEF DataInv, DataTyped
<1>6. IsPrefix(inbox[o], Append(sentTo[o], n))
  <2>1. Len(inbox[o]) <= Len(sentTo[o]) /\ \A i \in 1 .. Len(inbox[o]) : inbox[o][i] = sentTo[o][i]
    <3>1. IsPrefix(inbox[o], sentTo[o])
      BY <1>0 DEF DataInv, DataPeer
    <3> QED
      BY <1>2, <3>1, PrefixNat
  <2>2. /\ Len(Append(sentTo[o], n)) = Len(sentTo[o]) + 1
        /\ \A i \in 1 .. Len(sentTo[o]) : Append(sentTo[o], n)[i] = sentTo[o][i]
        /\ Len(inbox[o]) \in Nat /\ Len(sentTo[o]) \in Nat
    BY <1>2, AppendProperties, LenProperties
  <2>3. /\ Len(inbox[o]) <= Len(Append(sentTo[o], n))
        /\ \A i \in 1 .. Len(inbox[o]) : inbox[o][i] = Append(sentTo[o], n)[i]
    BY <2>1, <2>2
  <2> QED
    BY <1>2, <1>3, <2>3, PrefixNat
<1>7. ~shut[o] => inbox[o] \o Append(wire[o], n) = Append(sentTo[o], n)
  <2>1. ASSUME ~shut[o] PROVE inbox[o] \o wire[o] = sentTo[o]
    BY <1>0, <1>1, <2>1 DEF DataInv, DataPeer
  <2>2. inbox[o] \o Append(wire[o], n) = Append(inbox[o] \o wire[o], n)
    <3>1. /\ Append(wire[o], n) = wire[o] \o <<n>> /\ <<n>> \in Seq(Nat)
      BY <1>2, AppendIsConcat
    <3>2. inbox[o] \o wire[o] \in Seq(Nat)
      BY <1>2, ConcatProperties
    <3>3. Append(inbox[o] \o wire[o], n) = (inbox[o] \o wire[o]) \o <<n>>
      BY <1>2, <3>2, AppendIsConcat
    <3>4. (inbox[o] \o wire[o]) \o <<n>> = inbox[o] \o (wire[o] \o <<n>>)
      BY <1>2, <3>1, ConcatNat
    <3> QED
      BY <3>1, <3>3, <3>4
  <2> QED
    BY <2>1, <2>2
<1>8. DataPeer(o)'
  BY <1>0, <1>1, <1>5, <1>6, <1>7 DEF DataPeer
<1>9. DataPeer(p)'
  <2>1. sentTo'[p] = sentTo[p] /\ wire'[p] = wire[p]
    BY <1>0, <1>1 DEF DataInv, DataTyped
  <2> QED
    BY <1>0, <1>1, <2>1 DEF DataInv, DataPeer
<1> QED
  BY <1>4, <1>8, <1>9, TwoPeers DEF DataInv

LEMMA ReceiveStep == ASSUME DataInv, RtcInv, NEW p \in Peers, OnMessageEvent(p) PROVE DataInv'
<1> DEFINE h == Head(wire[p])
           o == Other(p)
<1>0. o \in Peers /\ o # p /\ Other(o) = p /\ Other(p) = o
  BY TwoPeers
<1>1. /\ inbox' = [inbox EXCEPT ![p] = Append(@, h)] /\ wire' = [wire EXCEPT ![p] = Tail(@)]
      /\ sentTo' = sentTo /\ shut' = shut /\ ~shut[p] /\ wire[p] # << >>
  BY DEF OnMessageEvent
<1>2. wire[p] \in Seq(Nat) /\ sentTo[p] \in Seq(Nat) /\ inbox[p] \in Seq(Nat)
  BY DEF DataInv, DataTyped
<1>3. h \in Nat /\ Tail(wire[p]) \in Seq(Nat) /\ wire[p] = <<h>> \o Tail(wire[p])
  BY <1>1, <1>2, HeadTailProperties
<1> HIDE DEF h
<1>4. Append(inbox[p], h) \in Seq(Nat) /\ Append(inbox[p], h) = inbox[p] \o <<h>>
  BY <1>2, <1>3, AppendProperties, AppendIsConcat
<1>5. DataTyped'
  BY <1>1, <1>3, <1>4 DEF DataInv, DataTyped
<1>6. ~shut[o] /\ inbox[p] \o wire[p] = sentTo[p]
  BY <1>0, <1>1 DEF DataInv, DataPeer
<1>7. Append(inbox[p], h) \o Tail(wire[p]) = sentTo[p]
  <2>1. <<h>> \in Seq(Nat)
    BY <1>3
  <2>2. (inbox[p] \o <<h>>) \o Tail(wire[p]) = inbox[p] \o (<<h>> \o Tail(wire[p]))
    BY <1>2, <1>3, <2>1, ConcatNat
  <2> QED
    BY <1>3, <1>4, <1>6, <2>2
<1>8. IsPrefix(Append(inbox[p], h), sentTo[p])
  <2> DEFINE a == Append(inbox[p], h)
             b == Tail(wire[p])
  <2>1. a \in Seq(Nat) /\ b \in Seq(Nat) /\ a \o b = sentTo[p]
    BY <1>3, <1>4, <1>7
  <2> HIDE DEF a, b
  <2>2. /\ Len(a \o b) = Len(a) + Len(b) /\ Len(a) \in Nat /\ Len(b) \in Nat
        /\ \A i \in 1 .. Len(a) + Len(b) : (a \o b)[i] = IF i <= Len(a) THEN a[i] ELSE b[i - Len(a)]
    BY <2>1, ConcatProperties, LenProperties
  <2>3. Len(a) <= Len(sentTo[p]) /\ \A i \in 1 .. Len(a) : a[i] = sentTo[p][i]
    BY <2>1, <2>2
  <2> QED
    BY <1>2, <2>1, <2>3, PrefixNat DEF a
<1>9. DataPeer(p)'
  <2>1. inbox'[p] = Append(inbox[p], h) /\ wire'[p] = Tail(wire[p])
    BY <1>1 DEF DataInv, DataTyped
  <2> QED
    BY <1>0, <1>1, <1>6, <1>7, <1>8, <2>1 DEF DataPeer
<1>10. DataPeer(o)'
  <2>1. inbox'[o] = inbox[o] /\ wire'[o] = wire[o]
    BY <1>0, <1>1 DEF DataInv, DataTyped
  <2> QED
    BY <1>0, <1>1, <2>1 DEF DataInv, DataPeer
<1> QED
  BY <1>5, <1>9, <1>10, TwoPeers DEF DataInv

LEMMA CloseStep == ASSUME DataInv, RtcInv, NEW p \in Peers, close(p) PROVE DataInv'
<1>1. /\ shut' = [shut EXCEPT ![p] = TRUE] /\ wire' = [q \in Peers |-> << >>]
      /\ inbox' = inbox /\ sentTo' = sentTo
  BY DEF close, Each
<1>2. DataTyped'
  BY <1>1 DEF DataInv, DataTyped
<1>3. ASSUME NEW q \in Peers PROVE DataPeer(q)'
  <2>1. shut'[p] /\ (q = p \/ Other(q) = p)
    BY <1>1, TwoPeers DEF RtcInv, RtcTyped
  <2> QED
    BY <1>1, <2>1 DEF DataInv, DataPeer
<1> QED
  BY <1>2, <1>3 DEF DataInv

(***************************************************************************)
(* The peer link as a whole                                                *)
(***************************************************************************)
PlInv == SigInv /\ RtcInv /\ DataInv

LEMMA PlInitInv == PlInit => PlInv
<1> SUFFICES ASSUME PlInit PROVE PlInv
  OBVIOUS
<1>1. SigInv
  BY DEF PlInit, Each, SigInv, SigTyped, SigClient
<1>2. RtcInv
  BY DEF PlInit, Each, RtcInv, RtcTyped, RtcPeer, PeerStates
<1>3. DataInv
  <2>1. DataTyped
    BY DEF PlInit, Each, DataTyped
  <2>2. ASSUME NEW p \in Peers PROVE DataPeer(p)
    <3>1. /\ inbox[p] = << >> /\ sentTo[p] = << >> /\ wire[p] = << >>
          /\ << >> \in Seq(Nat) /\ Len(<< >>) = 0
      BY DEF PlInit, Each
    <3>2. IsPrefix(inbox[p], sentTo[p]) /\ inbox[p] \o wire[p] = sentTo[p]
      <4>1. << >> \o << >> = << >>
        OBVIOUS
      <4>2. IsPrefix(<< >>, << >>)
        <5>1. Len(<< >>) <= Len(<< >>) /\ \A i \in 1 .. Len(<< >>) : << >>[i] = << >>[i]
          BY <3>1
        <5> QED
          BY <3>1, <5>1, PrefixNat
      <4> QED
        BY <3>1, <4>1, <4>2
    <3> QED
      BY <3>1, <3>2 DEF DataPeer
  <2> QED
    BY <2>1, <2>2 DEF DataInv
<1> QED
  BY <1>1, <1>2, <1>3 DEF PlInv

LEMMA PlNextInv == PlInv /\ [PlNext]_plVars => PlInv'
<1> SUFFICES ASSUME PlInv, [PlNext]_plVars PROVE PlInv'
  OBVIOUS
<1>0. SigInv /\ RtcInv /\ DataInv
  BY DEF PlInv
<1>a. ASSUME UNCHANGED sigVars PROVE SigInv'
  BY <1>0, <1>a DEF sigVars, SigInv, SigTyped, SigClient, InMsg, OutMsg
<1>b. ASSUME UNCHANGED <<st, step, dc, shut, opened, failed>> PROVE RtcInv'
  BY <1>0, <1>b DEF RtcInv, RtcTyped, RtcPeer
<1>c. ASSUME UNCHANGED <<shut, wire, sentTo, inbox>> PROVE DataInv'
  BY <1>0, <1>c DEF DataInv, DataTyped, DataPeer
<1>1. CASE UNCHANGED plVars
  BY <1>1, <1>a, <1>b, <1>c DEF plVars, sigVars, PlInv
<1>2. CASE PlNext
  <2>1. PICK p \in Peers :
           \/ Join(p) \/ RoomHandles(p) \/ Leave(p) \/ RoomSeesClose(p) \/ on_message(p)
           \/ create_offer(p) \/ InstallHandler(p) \/ Answer(p)
           \/ OnDataChannel(p) \/ OnOpen(p) \/ send_on(p) \/ OnMessageEvent(p) \/ close(p)
           \/ \E ice \in {"checking", "connected", "disconnected", "failed"} :
                 OnIceStateChange(p, ice)
    BY <1>2 DEF PlNext
  <2>2. CASE Join(p) \/ RoomHandles(p) \/ Leave(p) \/ RoomSeesClose(p)
    <3>1. UNCHANGED rtcVars
      BY <2>2 DEF Join, RoomHandles, Leave, RoomSeesClose
    <3>2. SigInv'
      BY <1>0, <2>2, JoinStep, RoomStep, LeaveStep, SeesCloseStep
    <3> QED
      BY <1>b, <1>c, <3>1, <3>2 DEF rtcVars, PlInv
  <2>3. CASE on_message(p) \/ create_offer(p) \/ Answer(p)
    <3>1. UNCHANGED <<shut, wire, sentTo, inbox>>
      BY <2>3 DEF on_message, create_offer, Answer
    <3>2. SigInv'
      <4>1. CASE on_message(p)
        BY <1>0, <4>1, ReadStep
      <4>2. CASE create_offer(p)
        BY <1>0, <4>2, SayStep DEF create_offer
      <4>3. CASE Answer(p)
        BY <1>0, <4>3, SayStep DEF Answer
      <4> QED
        BY <2>3, <4>1, <4>2, <4>3
    <3>3. RtcInv'
      BY <1>0, <1>b, <2>3, RtcNext
    <3> QED
      BY <1>c, <3>1, <3>2, <3>3 DEF PlInv
  <2>4. CASE \/ InstallHandler(p) \/ OnDataChannel(p) \/ OnOpen(p) \/ close(p)
             \/ \E ice \in {"checking", "connected", "disconnected", "failed"} :
                   OnIceStateChange(p, ice)
    <3>1. UNCHANGED sigVars
      BY <2>4 DEF InstallHandler, OnDataChannel, OnOpen, close, OnIceStateChange
    <3>2. RtcInv'
      BY <1>0, <1>b, <2>4, RtcNext
    <3>3. DataInv'
      <4>1. CASE close(p)
        BY <1>0, <4>1, CloseStep
      <4>2. CASE ~close(p)
        BY <1>c, <2>4, <4>2 DEF InstallHandler, OnDataChannel, OnOpen, OnIceStateChange
      <4> QED
        BY <4>1, <4>2
    <3> QED
      BY <1>a, <3>1, <3>2, <3>3 DEF PlInv
  <2>5. CASE send_on(p) \/ OnMessageEvent(p)
    <3>1. UNCHANGED sigVars /\ UNCHANGED <<st, step, dc, shut, opened, failed>>
      BY <2>5 DEF send_on, OnMessageEvent
    <3>2. DataInv'
      BY <1>0, <2>5, SendStep, ReceiveStep
    <3> QED
      BY <1>a, <1>b, <3>1, <3>2 DEF PlInv
  <2> QED
    BY <2>1, <2>2, <2>3, <2>4, <2>5
<1> QED
  BY <1>1, <1>2

\* Between any two peers, whatever order the room's messages, the browser's events and
\* the pages' calls come in: an idle room's members know each other, a failed or closed
\* connection stays so, and a peer reads a prefix of what it was sent (signaling, webrtc).
THEOREM LinksStaySound == PlSpec => []LinkSound
<1>1. ASSUME PlInv PROVE LinkSound
  <2>1. ASSUME SignallingIdle, NEW p \in room PROVE known[p] = room \ {p}
    <3>1. /\ p \in Peers /\ socket[p] \in {"none", "open", "closed"} /\ SigClient(p)
      BY <1>1 DEF PlInv, SigInv, SigTyped
    <3>2. socket[p] = "open" /\ inq[p] = << >>
      BY <2>1, <3>1 DEF SignallingIdle, SigClient
    <3>3. Heard(<< >>, known[p], room \ {p})
      BY <2>1, <3>1, <3>2 DEF SigClient
    <3>4. Len(<< >>) = 0
      OBVIOUS
    <3> QED
      BY <3>3, <3>4 DEF Heard
  <2> QED
    BY <1>1, <2>1 DEF PlInv, RtcInv, RtcPeer, DataInv, DataPeer, LinkSound
<1> QED
  BY <1>1, PlInitInv, PlNextInv, PTL DEF PlSpec


(***************************************************************************)
(* The two-layer netcode                                                   *)
(***************************************************************************)
IsSeq(q) == \E S : q \in Seq(S)

\* The frames of the snapshots never decrease, so a rollback to one leaves only
\* earlier ones; all lie on the timeline `past`.
Ordered(q) ==
    /\ IsSeq(q) /\ \A i \in 1 .. Len(q) : q[i].frame \in Int
    /\ \A i, j \in 1 .. Len(q) : i <= j => q[i].frame <= q[j].frame
OnTimeline(s) == s.frame \in DOMAIN past /\ s.frame <= fast.frame /\ past[s.frame] = s.acc
LkInv ==
    /\ DOMAIN fast = {"frame", "acc", "snaps", "queue", "floor", "floorHash"}
    /\ fast = [x \in DOMAIN fast |-> fast[x]]
    /\ fast.frame \in Int /\ fast.floor \in Int /\ slow.frame \in Int
    /\ fast.frame \in DOMAIN past /\ past[fast.frame] = fast.acc
    /\ Ordered(fast.snaps)
    /\ \A i \in 1 .. Len(fast.snaps) : OnTimeline(fast.snaps[i])

LEMMA IsSeqFacts ==
    ASSUME NEW q, IsSeq(q)
    PROVE  Len(q) \in Nat /\ DOMAIN q = 1 .. Len(q)
BY LenProperties DEF IsSeq

LEMMA IsSeqAppend ==
    ASSUME NEW q, IsSeq(q), NEW x
    PROVE  /\ IsSeq(Append(q, x)) /\ Append(q, x) # << >>
           /\ Len(Append(q, x)) = Len(q) + 1
           /\ \A i \in 1 .. Len(q) : Append(q, x)[i] = q[i]
           /\ Append(q, x)[Len(q) + 1] = x
<1>1. PICK S : q \in Seq(S)
  BY DEF IsSeq
<1> DEFINE U == S \cup {x}
<1>2. q \in Seq(U) /\ x \in U
  BY <1>1
<1> HIDE DEF U
<1>3. /\ Append(q, x) \in Seq(U) /\ Append(q, x) # << >>
      /\ Len(Append(q, x)) = Len(q) + 1
      /\ \A i \in 1 .. Len(q) : Append(q, x)[i] = q[i]
      /\ Append(q, x)[Len(q) + 1] = x
  BY <1>2, AppendProperties
<1> QED
  BY <1>3 DEF IsSeq

LEMMA IsSeqPart ==
    ASSUME NEW q, IsSeq(q), NEW m \in 1 .. Len(q) + 1, NEW n \in 0 .. Len(q), m <= n + 1
    PROVE  /\ IsSeq(SubSeq(q, m, n)) /\ Len(SubSeq(q, m, n)) = n - m + 1
           /\ \A i \in 1 .. n - m + 1 : SubSeq(q, m, n)[i] = q[m + i - 1]
<1>1. PICK S : q \in Seq(S)
  BY DEF IsSeq
<1>2. Len(q) \in Nat
  BY IsSeqFacts
<1>3. m \in Int /\ n \in Int /\ \A i \in m .. n : i \in 1 .. Len(q) /\ q[i] \in S
  BY <1>1, <1>2, ElementOfSeq
<1>4. /\ SubSeq(q, m, n) \in Seq(S) /\ Len(SubSeq(q, m, n)) = n - m + 1
      /\ \A i \in 1 .. n - m + 1 : SubSeq(q, m, n)[i] = q[m + i - 1]
  <2>1. /\ SubSeq(q, m, n) \in Seq(S)
        /\ Len(SubSeq(q, m, n)) = IF m <= n THEN n - m + 1 ELSE 0
        /\ \A i \in 1 .. n - m + 1 : SubSeq(q, m, n)[i] = q[m + i - 1]
    BY <1>3, SubSeqProperties
  <2>2. m <= n \/ n - m + 1 = 0
    BY <1>3
  <2> QED
    BY <2>1, <2>2
<1> QED
  BY <1>4 DEF IsSeq

LEMMA IsSeqTail ==
    ASSUME NEW q, IsSeq(q), q # << >>
    PROVE  /\ IsSeq(Tail(q)) /\ Len(Tail(q)) = Len(q) - 1
           /\ \A i \in 1 .. Len(q) - 1 : Tail(q)[i] = q[i + 1]
<1>1. PICK S : q \in Seq(S)
  BY DEF IsSeq
<1>2. /\ Tail(q) \in Seq(S) /\ Len(Tail(q)) = Len(q) - 1
      /\ \A i \in 1 .. Len(Tail(q)) : Tail(q)[i] = q[i + 1]
  BY <1>1, HeadTailProperties
<1> QED
  BY <1>2 DEF IsSeq


\* A slice of ordered snapshots
LEMMA OrderedSlice ==
    ASSUME NEW q, Ordered(q), NEW r, IsSeq(r), NEW c \in Nat, Len(r) + c <= Len(q),
           \A i \in 1 .. Len(r) : r[i] = q[i + c]
    PROVE  /\ Ordered(r)
           /\ \A i \in 1 .. Len(r) : i + c \in 1 .. Len(q)
<1>1. Len(q) \in Nat /\ Len(r) \in Nat
  BY IsSeqFacts DEF Ordered
<1>2. \A i \in 1 .. Len(r) : i + c \in 1 .. Len(q)
  BY <1>1
<1>3. \A i, j \in 1 .. Len(r) : i <= j => i + c <= j + c
  BY <1>1
<1> QED
  BY <1>2, <1>3 DEF Ordered

LEMMA OrderedAppend ==
    ASSUME NEW q, Ordered(q), NEW s, s.frame \in Int,
           \A i \in 1 .. Len(q) : q[i].frame <= s.frame
    PROVE  /\ Ordered(Append(q, s)) /\ Append(q, s) # << >>
           /\ \A i \in 1 .. Len(Append(q, s)) :
                 Append(q, s)[i] = s \/ \E j \in 1 .. Len(q) : Append(q, s)[i] = q[j]
<1> DEFINE r == Append(q, s)
<1>1. /\ IsSeq(r) /\ r # << >> /\ Len(r) = Len(q) + 1
      /\ \A i \in 1 .. Len(q) : r[i] = q[i]
      /\ r[Len(q) + 1] = s
  BY IsSeqAppend DEF Ordered
<1>2. Len(q) \in Nat
  BY IsSeqFacts DEF Ordered
<1> HIDE DEF r
<1>3. \A i \in 1 .. Len(r) : i \in 1 .. Len(q) \/ i = Len(q) + 1
  BY <1>1, <1>2
<1>4. \A i \in 1 .. Len(r) : r[i].frame \in Int
  BY <1>1, <1>3 DEF Ordered
<1>5. ASSUME NEW i \in 1 .. Len(r), NEW j \in 1 .. Len(r), i <= j PROVE r[i].frame <= r[j].frame
  <2>1. CASE j = Len(q) + 1
    <3>1. CASE i = Len(q) + 1
      BY <1>1, <2>1, <3>1
    <3>2. CASE i \in 1 .. Len(q)
      BY <1>1, <2>1, <3>2
    <3> QED
      BY <1>3, <3>1, <3>2
  <2>2. CASE j \in 1 .. Len(q)
    <3>1. i \in 1 .. Len(q)
      BY <1>2, <1>5, <2>2
    <3> QED
      BY <1>1, <1>5, <2>2, <3>1 DEF Ordered
  <2> QED
    BY <1>3, <2>1, <2>2
<1> QED
  BY <1>1, <1>3, <1>4, <1>5 DEF Ordered, r

\* advance_frame
LEMMA AdvanceStep == ASSUME LkInv, NEW inputs, AdvanceFrame(inputs) PROVE LkInv'
<1> DEFINE acc == Fold(Fold(fast.acc, inputs), fast.queue)
           next == fast.frame + 1
           s == [frame |-> fast.frame, acc |-> fast.acc]
           q == Append(fast.snaps, s)
           r == Keep(q)
<1>1. /\ fast' = [fast EXCEPT !.frame = next, !.acc = acc, !.queue = << >>, !.snaps = r]
      /\ past' = [f \in DOMAIN past \cup {next} |-> IF f = next THEN acc ELSE past[f]]
      /\ slow' = slow
  BY DEF AdvanceFrame
<1> HIDE DEF acc
<1>2. /\ DOMAIN fast' = DOMAIN fast /\ fast' = [x \in DOMAIN fast' |-> fast'[x]]
      /\ fast'.frame = next /\ fast'.acc = acc /\ fast'.snaps = r /\ fast'.floor = fast.floor
  BY <1>1 DEF LkInv
<1>3. next \in Int /\ next \in DOMAIN past' /\ past'[next] = acc
  BY <1>1 DEF LkInv
<1>4. /\ Ordered(q) /\ q # << >>
      /\ \A i \in 1 .. Len(q) : q[i] = s \/ \E j \in 1 .. Len(fast.snaps) : q[i] = fast.snaps[j]
  <2>1. /\ Ordered(fast.snaps) /\ s.frame \in Int
        /\ \A i \in 1 .. Len(fast.snaps) : fast.snaps[i].frame <= s.frame
    BY DEF LkInv, OnTimeline
  <2> HIDE DEF s
  <2> QED
    BY <2>1, OrderedAppend
<1>5. \A i \in 1 .. Len(q) : OnTimeline(q[i])
  <2>1. OnTimeline(s)
    BY DEF LkInv, OnTimeline
  <2> HIDE DEF q, s
  <2> QED
    BY <1>4, <2>1 DEF LkInv
<1> HIDE DEF q, s
<1>6. Ordered(r) /\ \A i \in 1 .. Len(r) : OnTimeline(r[i]) /\ r[i].frame \in Int
  <2>1. CASE r = q
    BY <1>4, <1>5, <2>1 DEF Ordered
  <2>2. CASE r = Tail(q)
    <3>1. /\ IsSeq(Tail(q)) /\ Len(Tail(q)) = Len(q) - 1 /\ Len(q) \in Nat
          /\ \A i \in 1 .. Len(q) - 1 : Tail(q)[i] = q[i + 1]
      BY <1>4, IsSeqTail, IsSeqFacts DEF Ordered
    <3>2. 1 \in Nat /\ Len(Tail(q)) + 1 <= Len(q) /\ \A i \in 1 .. Len(Tail(q)) : Tail(q)[i] = q[i + 1]
      BY <3>1
    <3>3. Ordered(Tail(q)) /\ \A i \in 1 .. Len(Tail(q)) : i + 1 \in 1 .. Len(q)
      BY <1>4, <3>1, <3>2, OrderedSlice
    <3> QED
      BY <1>5, <2>2, <3>2, <3>3 DEF Ordered
  <2> QED
    BY <2>1, <2>2 DEF Keep
<1> HIDE DEF r
<1>7. ASSUME NEW i \in 1 .. Len(r)
      PROVE  /\ r[i].frame \in DOMAIN past' /\ r[i].frame <= fast'.frame
             /\ past'[r[i].frame] = r[i].acc
  <2>1. /\ r[i].frame \in DOMAIN past /\ r[i].frame <= fast.frame /\ past[r[i].frame] = r[i].acc
        /\ r[i].frame \in Int /\ fast.frame \in Int
    BY <1>6 DEF OnTimeline, LkInv
  <2>2. r[i].frame # next /\ r[i].frame <= next
    BY <2>1
  <2> QED
    BY <1>1, <1>2, <2>1, <2>2
<1> QED
  BY <1>1, <1>2, <1>3, <1>6, <1>7 DEF LkInv, OnTimeline


\* rollback_on_desync
LEMMA RestoreStep ==
    ASSUME LkInv, NEW i \in 1 .. Len(fast.snaps), Restore(i), UNCHANGED slow PROVE LkInv'
<1> DEFINE s == fast.snaps[i]
           q == SubSeq(fast.snaps, 1, i)
<1>1. /\ fast' = [fast EXCEPT !.acc = s.acc, !.frame = s.frame, !.snaps = q]
      /\ past' = [f \in {g \in DOMAIN past : g <= s.frame} |-> past[f]]
  BY DEF Restore
<1>2. /\ DOMAIN fast' = DOMAIN fast /\ fast' = [x \in DOMAIN fast' |-> fast'[x]]
      /\ fast'.frame = s.frame /\ fast'.acc = s.acc /\ fast'.snaps = q /\ fast'.floor = fast.floor
  BY <1>1 DEF LkInv
<1>3. s.frame \in Int /\ OnTimeline(s) /\ Ordered(fast.snaps)
  BY DEF LkInv, Ordered
<1>4. Len(fast.snaps) \in Nat /\ i \in 0 .. Len(fast.snaps) /\ 1 \in 1 .. Len(fast.snaps) + 1
      /\ 1 <= i + 1 /\ i - 1 + 1 = i
  BY <1>3, IsSeqFacts DEF Ordered
<1>5. IsSeq(q) /\ Len(q) = i /\ \A j \in 1 .. i : q[j] = fast.snaps[j]
  <2>1. /\ IsSeq(q) /\ Len(q) = i - 1 + 1
        /\ \A j \in 1 .. i - 1 + 1 : q[j] = fast.snaps[1 + j - 1]
    BY <1>3, <1>4, IsSeqPart DEF Ordered
  <2>2. \A j \in 1 .. i : 1 + j - 1 = j
    BY <1>4
  <2> QED
    BY <1>4, <2>1, <2>2
<1> HIDE DEF q
<1>6. Ordered(q)
  <2>1. 0 \in Nat /\ Len(q) + 0 <= Len(fast.snaps) /\ \A j \in 1 .. Len(q) : q[j] = fast.snaps[j + 0]
    BY <1>4, <1>5
  <2> QED
    BY <1>3, <1>5, <2>1, OrderedSlice
<1>7. ASSUME NEW j \in 1 .. Len(q)
      PROVE  /\ q[j].frame \in DOMAIN past' /\ q[j].frame <= fast'.frame
             /\ past'[q[j].frame] = q[j].acc
  <2>1. j \in 1 .. Len(fast.snaps) /\ j <= i /\ q[j] = fast.snaps[j]
    BY <1>4, <1>5
  <2>2. q[j].frame <= s.frame /\ OnTimeline(q[j])
    BY <1>3, <2>1 DEF Ordered, LkInv
  <2> QED
    BY <1>1, <1>2, <2>2 DEF OnTimeline
<1>8. s.frame \in DOMAIN past' /\ past'[s.frame] = s.acc
  BY <1>1, <1>3 DEF OnTimeline
<1> HIDE DEF s
<1> QED
  BY <1>2, <1>3, <1>6, <1>7, <1>8 DEF LkInv, OnTimeline

\* set_checkpoint_floor
LEMMA FloorStep == ASSUME LkInv, SetFloor PROVE LkInv'
<1> DEFINE n == Len(fast.snaps)
           k == Max(Older(slow.frame))
           q == SubSeq(fast.snaps, k + 1, n)
<1>1. /\ fast' = [fast EXCEPT !.floor = slow.frame, !.floorHash = slow.hash, !.snaps = q]
      /\ past' = past /\ slow' = slow
  BY DEF SetFloor
<1>2. /\ DOMAIN fast' = DOMAIN fast /\ fast' = [x \in DOMAIN fast' |-> fast'[x]]
      /\ fast'.frame = fast.frame /\ fast'.acc = fast.acc /\ fast'.snaps = q
      /\ fast'.floor = slow.frame
  BY <1>1 DEF LkInv
<1>3. Ordered(fast.snaps) /\ IsSeq(fast.snaps) /\ n \in Nat
  BY IsSeqFacts DEF LkInv, Ordered
<1>4. k \in 0 .. n
  <2>1. Older(slow.frame) \in SUBSET (0 .. n) /\ 0 \in Older(slow.frame)
    BY <1>3 DEF Older
  <2> QED
    BY <1>3, <2>1, MaxUpTo
<1> HIDE DEF k
<1>5. k + 1 \in 1 .. n + 1 /\ n \in 0 .. n /\ k + 1 <= n + 1 /\ n - (k + 1) + 1 = n - k
  BY <1>3, <1>4
<1>6. IsSeq(q) /\ Len(q) = n - k /\ \A i \in 1 .. n - k : q[i] = fast.snaps[i + k]
  <2>1. /\ IsSeq(q) /\ Len(q) = n - (k + 1) + 1
        /\ \A i \in 1 .. n - (k + 1) + 1 : q[i] = fast.snaps[(k + 1) + i - 1]
    BY <1>3, <1>5, IsSeqPart
  <2>2. \A i \in 1 .. n - k : (k + 1) + i - 1 = i + k
    BY <1>3, <1>4
  <2> QED
    BY <1>5, <2>1, <2>2
<1> HIDE DEF q
<1>7. Ordered(q) /\ \A i \in 1 .. Len(q) : i + k \in 1 .. n
  <2>1. k \in Nat /\ Len(q) + k <= n /\ \A i \in 1 .. Len(q) : q[i] = fast.snaps[i + k]
    BY <1>3, <1>4, <1>6
  <2> QED
    BY <1>3, <1>6, <2>1, OrderedSlice
<1>8. \A i \in 1 .. Len(q) : OnTimeline(q[i])
  BY <1>6, <1>7 DEF LkInv
<1> QED
  BY <1>1, <1>2, <1>7, <1>8 DEF LkInv, OnTimeline

LEMMA RestoreCheckpointStep == ASSUME LkInv, RestoreCheckpoint PROVE LkInv'
<1> DEFINE acc == [base |-> fast.floorHash, odd |-> {}, depth |-> Depth(fast.floorHash) + 1]
<1>1. /\ fast' = [fast EXCEPT !.acc = acc, !.frame = fast.floor, !.snaps = << >>]
      /\ past' = [f \in {fast.floor} |-> acc] /\ slow' = slow
  BY DEF RestoreCheckpoint
<1> HIDE DEF acc
<1>2. /\ DOMAIN fast' = DOMAIN fast /\ fast' = [x \in DOMAIN fast' |-> fast'[x]]
      /\ fast'.frame = fast.floor /\ fast'.acc = acc /\ fast'.snaps = << >>
      /\ fast'.floor = fast.floor
  BY <1>1 DEF LkInv
<1>3. IsSeq(<< >>) /\ 1 .. Len(<< >>) = {}
  BY DEF IsSeq
<1> QED
  BY <1>1, <1>2, <1>3 DEF LkInv, Ordered

LEMMA LkNextInv == LkInv /\ [LkNext]_lkVars => LkInv'
<1> SUFFICES ASSUME LkInv, [LkNext]_lkVars PROVE LkInv'
  OBVIOUS
<1>1. ASSUME UNCHANGED <<fast, past, slow>> PROVE LkInv'
  BY <1>1 DEF LkInv, OnTimeline
<1>2. ASSUME NEW t, Candidates(t) # {}, Restore(Max(Candidates(t))), UNCHANGED slow
      PROVE  LkInv'
  <2>1. Len(fast.snaps) \in Nat /\ DOMAIN fast.snaps = 1 .. Len(fast.snaps)
    BY IsSeqFacts DEF LkInv, Ordered
  <2>2. Candidates(t) \in SUBSET (1 .. Len(fast.snaps))
    BY <2>1 DEF Candidates
  <2>3. Max(Candidates(t)) \in 1 .. Len(fast.snaps)
    BY <1>2, <2>1, <2>2, MaxOfSome
  <2> QED
    BY <1>2, <2>3, RestoreStep
<1>3. ASSUME NEW b, SubmitInput(b) PROVE LkInv'
  <2>1. /\ fast' = [fast EXCEPT !.queue = Append(fast.queue, b)] /\ past' = past /\ slow' = slow
    BY <1>3 DEF SubmitInput
  <2>2. /\ DOMAIN fast' = DOMAIN fast /\ fast' = [x \in DOMAIN fast' |-> fast'[x]]
        /\ fast'.frame = fast.frame /\ fast'.acc = fast.acc /\ fast'.snaps = fast.snaps
        /\ fast'.floor = fast.floor
    BY <2>1 DEF LkInv
  <2> QED
    BY <2>1, <2>2 DEF LkInv, OnTimeline
<1>4. ASSUME NEW t, Rollback(t) PROVE LkInv'
  BY <1>1, <1>2, <1>4 DEF Rollback
<1>5. CASE DrainDesyncs
  BY <1>1, <1>2, <1>5 DEF DrainDesyncs
<1>6. CASE CreateCheckpoint
  <2>1. /\ fast' = fast /\ past' = past
        /\ slow' = [frame |-> fast.frame, hash |-> Hash(fast.frame, fast.acc)]
    BY <1>6 DEF CreateCheckpoint
  <2>2. slow'.frame \in Int
    BY <2>1 DEF LkInv
  <2> QED
    BY <2>1, <2>2 DEF LkInv, OnTimeline
<1>7. ASSUME NEW f, NEW h, ObserveHash(f, h) PROVE LkInv'
  BY <1>1, <1>7 DEF ObserveHash
<1>8. ASSUME NEW f, NEW h, NEW qc, AcceptCheckpoint(f, h, qc) PROVE LkInv'
  BY <1>1, <1>8 DEF AcceptCheckpoint
<1>9. CASE LkNext
  BY <1>3, <1>4, <1>5, <1>6, <1>7, <1>8, <1>9, AdvanceStep, FloorStep, RestoreCheckpointStep
     DEF LkNext
<1>10. CASE UNCHANGED lkVars
  BY <1>1, <1>10 DEF lkVars
<1> QED
  BY <1>9, <1>10

\* The state a rollback restores is the one its frame started from on the timeline
\* that was kept, for every rollback window, checkpoint interval, committee and order of
\* frames, rollbacks, desyncs and checkpoints (two_layer.rs).
THEOREM SnapshotsStayTrue == LkSpec => []SnapshotsTrue
<1>1. LkInit => LkInv
  <2>1. IsSeq(<< >>) /\ 1 .. Len(<< >>) = {}
    BY DEF IsSeq
  <2> QED
    BY <2>1 DEF LkInit, LkInv, Ordered, NoCheckpoint
<1>2. ASSUME LkInv PROVE SnapshotsTrue
  <2>1. DOMAIN fast.snaps = 1 .. Len(fast.snaps)
    BY <1>2, IsSeqFacts DEF LkInv, Ordered
  <2> QED
    BY <1>2, <2>1 DEF LkInv, OnTimeline, SnapshotsTrue
<1> QED
  BY <1>1, <1>2, LkNextInv, PTL DEF LkSpec


(***************************************************************************)
(* The shared world: the merge of a message                                *)
(***************************************************************************)
Ents == [value : Values \cup {Deleted}, counter : Nat, node : Nodes]
Worlds == UNION {[S -> Ents] : S \in SUBSET Keys}
Changes == Seq(Keys \X Ents)
AtLeast(a, b) == ~Before(a, b)

LEMMA StampOrder ==
    /\ \A a \in Ents : AtLeast(a, a)
    /\ \A a, b, c \in Ents : AtLeast(a, b) /\ AtLeast(b, c) => AtLeast(a, c)
    /\ \A a, b \in Ents : Before(a, b) => AtLeast(b, a)
    /\ \A a, b \in Ents : AtLeast(a, b) /\ AtLeast(b, a) => a.counter = b.counter /\ a.node = b.node
    /\ \A a, b \in Ents : a.counter > b.counter => AtLeast(a, b)
<1>1. \A a \in Ents : a.counter \in Nat /\ a.node \in Int
  BY WorldAssumption DEF Ents
<1> QED
  BY <1>1 DEF AtLeast, Before

LEMMA PutWorld ==
    ASSUME NEW w \in Worlds, NEW k \in Keys, NEW e \in Ents
    PROVE  /\ Put(w, k, e) \in Worlds
           /\ DOMAIN Put(w, k, e) = DOMAIN w \cup {k}
           /\ Put(w, k, e)[k] = e
           /\ \A x \in DOMAIN w \ {k} : Put(w, k, e)[x] = w[x]
<1>1. DOMAIN w \in SUBSET Keys /\ w \in [DOMAIN w -> Ents]
  BY DEF Worlds
<1>2. Put(w, k, e) \in [DOMAIN w \cup {k} -> Ents]
  BY <1>1 DEF Put
<1>3. DOMAIN w \cup {k} \in SUBSET Keys
  BY <1>1
<1>4. Put(w, k, e) \in Worlds
  BY <1>2, <1>3 DEF Worlds
<1> QED
  BY <1>1, <1>4 DEF Put

\* One entry of merge_delta
MergeOne(w, ke) == IF Wins(w, ke[1], ke[2]) THEN Put(w, ke[1], ke[2]) ELSE w

LEMMA MergeRun ==
    ASSUME NEW w \in Worlds, NEW q \in Changes
    PROVE  \E f \in [0 .. Len(q) -> Worlds] :
              /\ f[0] = w /\ Merged(w, q) = f[Len(q)]
              /\ \A i \in 1 .. Len(q) : f[i] = MergeOne(f[i - 1], q[i])
<1> DEFINE n == Len(q)
           rule == [i \in Nat \ {0} |-> [a \in Worlds |->
                       IF i \in 1 .. n THEN MergeOne(a, q[i]) ELSE a]]
           Is(f) == f = [i \in 0 .. Len(q) |->
                           IF i = 0 THEN w
                           ELSE IF Wins(f[i - 1], q[i][1], q[i][2])
                                THEN Put(f[i - 1], q[i][1], q[i][2]) ELSE f[i - 1]]
<1>1. n \in Nat /\ \A i \in 1 .. n : q[i] \in Keys \X Ents
  BY LenProperties, ElementOfSeq DEF Changes
<1>2. ASSUME NEW a \in Worlds, NEW i \in 1 .. n PROVE MergeOne(a, q[i]) \in Worlds
  <2>1. q[i][1] \in Keys /\ q[i][2] \in Ents
    BY <1>1
  <2> QED
    BY <2>1, PutWorld DEF MergeOne
<1>3. rule \in [Nat \ {0} -> [Worlds -> Worlds]]
  BY <1>2
<1>4. ASSUME NEW i \in 1 .. n, NEW a \in Worlds PROVE rule[i][a] = MergeOne(a, q[i])
  BY <1>1
<1> HIDE DEF rule
<1>5. PICK f \in [0 .. n -> Worlds] : Follows(f, rule, w, n)
  BY <1>1, <1>3, PrefixRecursion
<1>6. ASSUME NEW i \in 1 .. n PROVE f[i] = MergeOne(f[i - 1], q[i])
  <2>1. f[i - 1] \in Worlds
    BY <1>1
  <2> QED
    BY <1>4, <1>5, <2>1 DEF Follows
<1>7. Is(f)
  <2>1. \A i \in 0 .. n : i = 0 \/ i \in 1 .. n
    BY <1>1
  <2> QED
    BY <1>5, <1>6, <2>1 DEF Follows, MergeOne
<1> DEFINE g == CHOOSE h : Is(h)
<1>8. Is(g)
  <2> HIDE DEF Is
  <2> QED BY <1>7, Zenon DEF g
<1>9. Merged(w, q) = g[n]
  BY DEF Merged
<1> HIDE DEF g
<1>10. g[0] = w /\ \A i \in 1 .. n : g[i] = MergeOne(g[i - 1], q[i])
  BY <1>1, <1>8 DEF MergeOne
<1> HIDE DEF Is
<1>11. g[n] = f[n]
  <2> DEFINE T == {i \in Nat : i <= n => g[i] = f[i]}
  <2>1. 0 \in T
    BY <1>5, <1>10 DEF Follows
  <2>2. ASSUME NEW i \in T PROVE i + 1 \in T
    <3> SUFFICES ASSUME i + 1 <= n PROVE g[i + 1] = f[i + 1]
      OBVIOUS
    <3>1. g[i] = f[i] /\ i + 1 \in 1 .. n /\ (i + 1) - 1 = i
      BY <1>1
    <3> QED
      BY <1>6, <1>10, <3>1
  <2>3. T = Nat
    <3> HIDE DEF T
    <3>1. T \in SUBSET Nat
      BY DEF T
    <3> QED
      BY <2>1, <2>2, <3>1, SetInduction
  <2> QED
    BY <1>1, <2>3
<1> QED
  BY <1>5, <1>6, <1>9, <1>11 DEF Follows


LEMMA MergeOneFacts ==
    ASSUME NEW w \in Worlds, NEW ke \in Keys \X Ents, NEW r, r = MergeOne(w, ke)
    PROVE  /\ r \in Worlds /\ DOMAIN w \subseteq DOMAIN r /\ ke[1] \in DOMAIN r
           /\ \A x \in DOMAIN w : AtLeast(r[x], w[x])
           /\ AtLeast(r[ke[1]], ke[2])
           /\ \A x \in DOMAIN r : (x \in DOMAIN w /\ r[x] = w[x]) \/ ke = <<x, r[x]>>
<1> DEFINE k == ke[1]
           e == ke[2]
<1>1. k \in Keys /\ e \in Ents /\ ke = <<k, e>>
  OBVIOUS
<1>2. \A x \in DOMAIN w : w[x] \in Ents
  BY DEF Worlds
<1>3. CASE Wins(w, k, e)
  <2>1. /\ r \in Worlds /\ DOMAIN r = DOMAIN w \cup {k} /\ r[k] = e
        /\ \A x \in DOMAIN w \ {k} : r[x] = w[x]
    BY <1>1, <1>3, PutWorld, SMTT(30) DEF MergeOne
  <2>2. k \in DOMAIN w => AtLeast(e, w[k])
    BY <1>1, <1>2, <1>3, StampOrder DEF Wins
  <2>3. \A x \in DOMAIN w : AtLeast(r[x], w[x])
    BY <1>2, <2>1, <2>2, StampOrder
  <2>4. AtLeast(r[k], e)
    BY <1>1, <2>1, StampOrder
  <2> QED
    BY <1>1, <2>1, <2>3, <2>4
<1>4. CASE ~Wins(w, k, e)
  <2>1. r = w /\ k \in DOMAIN w /\ AtLeast(w[k], e)
    BY <1>4 DEF MergeOne, Wins, AtLeast
  <2> QED
    BY <1>1, <1>2, <2>1, StampOrder
<1> QED
  BY <1>3, <1>4

\* What merge_delta leaves of a world and a message: of every key the newest entry.
LEMMA MergeFacts ==
    ASSUME NEW w \in Worlds, NEW q \in Changes
    PROVE  /\ Merged(w, q) \in Worlds
           /\ DOMAIN w \subseteq DOMAIN Merged(w, q)
           /\ \A x \in DOMAIN w : AtLeast(Merged(w, q)[x], w[x])
           /\ \A i \in 1 .. Len(q) : /\ q[i][1] \in DOMAIN Merged(w, q)
                                     /\ AtLeast(Merged(w, q)[q[i][1]], q[i][2])
           /\ \A x \in DOMAIN Merged(w, q) :
                 \/ x \in DOMAIN w /\ Merged(w, q)[x] = w[x]
                 \/ \E i \in 1 .. Len(q) : q[i] = <<x, Merged(w, q)[x]>>
<1> DEFINE n == Len(q)
<1>1. PICK f \in [0 .. n -> Worlds] :
         /\ f[0] = w /\ Merged(w, q) = f[n]
         /\ \A i \in 1 .. n : f[i] = MergeOne(f[i - 1], q[i])
  BY MergeRun
<1>2. n \in Nat /\ \A i \in 1 .. n : q[i] \in Keys \X Ents
  BY LenProperties, ElementOfSeq DEF Changes
<1> HIDE DEF n
<1> DEFINE Grown(r) == DOMAIN w \subseteq DOMAIN r /\ \A x \in DOMAIN w : AtLeast(r[x], w[x])
           Took(r, m) == \A i \in 1 .. m : q[i][1] \in DOMAIN r /\ AtLeast(r[q[i][1]], q[i][2])
           From(r, m) == \A x \in DOMAIN r : \/ x \in DOMAIN w /\ r[x] = w[x]
                                             \/ \E i \in 1 .. m : q[i] = <<x, r[x]>>
           T == {m \in Nat : m <= n => Grown(f[m]) /\ Took(f[m], m) /\ From(f[m], m)}
<1>3. 0 \in T
  <2>1. \A x \in DOMAIN w : w[x] \in Ents
    BY DEF Worlds
  <2>2. Grown(w) /\ Took(w, 0) /\ From(w, 0)
    BY <2>1, StampOrder
  <2> QED
    BY <1>1, <2>2
<1> HIDE DEF Grown, Took, From
<1>4. ASSUME NEW m \in T PROVE m + 1 \in T
  <2> SUFFICES ASSUME m + 1 <= n
               PROVE  Grown(f[m + 1]) /\ Took(f[m + 1], m + 1) /\ From(f[m + 1], m + 1)
    BY DEF T
  <2> DEFINE a == f[m]
             r == f[m + 1]
             ke == q[m + 1]
  <2>1. /\ m \in Nat /\ m + 1 \in 1 .. n /\ (m + 1) - 1 = m /\ m \in 0 .. n /\ m + 1 \in 0 .. n
        /\ m <= n
    BY <1>2
  <2>2. Grown(a) /\ Took(a, m) /\ From(a, m)
    BY <2>1
  <2>3. a \in Worlds /\ ke \in Keys \X Ents /\ r = MergeOne(a, ke) /\ r \in Worlds
    BY <1>1, <1>2, <2>1
  <2>4. \A i \in 1 .. m : i \in 1 .. n /\ i \in 1 .. m + 1
    BY <1>2, <2>1
  <2>5. \A i \in 1 .. m + 1 : i \in 1 .. m \/ i = m + 1
    BY <2>1
  <2>e. /\ \A x \in DOMAIN w : w[x] \in Ents
        /\ \A x \in DOMAIN a : a[x] \in Ents
        /\ \A x \in DOMAIN r : r[x] \in Ents
        /\ \A i \in 1 .. n : q[i][1] \in Keys /\ q[i][2] \in Ents
    BY <1>2, <2>3 DEF Worlds
  <2> HIDE DEF a, r, ke
  <2>6. /\ DOMAIN a \subseteq DOMAIN r /\ ke[1] \in DOMAIN r
        /\ \A x \in DOMAIN a : AtLeast(r[x], a[x])
        /\ AtLeast(r[ke[1]], ke[2])
        /\ \A x \in DOMAIN r : (x \in DOMAIN a /\ r[x] = a[x]) \/ ke = <<x, r[x]>>
    BY <2>3, MergeOneFacts
  <2>7. Grown(r)
    BY <2>2, <2>6, <2>e, StampOrder DEF Grown
  <2>8. Took(r, m + 1)
    <3> SUFFICES ASSUME NEW i \in 1 .. m + 1
                 PROVE  q[i][1] \in DOMAIN r /\ AtLeast(r[q[i][1]], q[i][2])
      BY DEF Took
    <3>1. CASE i = m + 1
      BY <2>6, <3>1 DEF ke
    <3>2. CASE i \in 1 .. m
      <4>1. q[i][1] \in DOMAIN a /\ AtLeast(a[q[i][1]], q[i][2])
        BY <2>2, <3>2 DEF Took
      <4>2. q[i][1] \in DOMAIN r /\ AtLeast(r[q[i][1]], a[q[i][1]])
        BY <2>6, <4>1
      <4> QED
        BY <2>4, <2>e, <3>2, <4>1, <4>2, StampOrder
    <3> QED
      BY <2>5, <3>1, <3>2
  <2>9. From(r, m + 1)
    <3> SUFFICES ASSUME NEW x \in DOMAIN r
                 PROVE  \/ x \in DOMAIN w /\ r[x] = w[x]
                        \/ \E i \in 1 .. m + 1 : q[i] = <<x, r[x]>>
      BY DEF From
    <3>1. CASE ke = <<x, r[x]>>
      <4>1. m + 1 \in 1 .. m + 1
        BY <2>1
      <4> QED
        BY <3>1, <4>1 DEF ke
    <3>2. CASE x \in DOMAIN a /\ r[x] = a[x]
      BY <2>2, <2>4, <3>2 DEF From
    <3> QED
      BY <2>6, <3>1, <3>2
  <2> QED
    BY <2>7, <2>8, <2>9 DEF r
<1>5. T = Nat
  <2> HIDE DEF T
  <2>1. T \in SUBSET Nat
    BY DEF T
  <2> QED
    BY <1>3, <1>4, <2>1, SetInduction
<1>6. Grown(f[n]) /\ Took(f[n], n) /\ From(f[n], n) /\ f[n] \in Worlds
  BY <1>1, <1>2, <1>5
<1> QED
  BY <1>1, <1>6 DEF n, Grown, Took, From

\* The Lamport clock passes every entry it receives.
LEMMA ClockFacts ==
    ASSUME NEW c \in Nat, NEW q \in Changes
    PROVE  /\ Clocked(c, q) \in Nat /\ Clocked(c, q) >= c
           /\ \A i \in 1 .. Len(q) : q[i][2].counter <= Clocked(c, q)
<1> DEFINE n == Len(q)
           rule == [i \in Nat \ {0} |-> [a \in Nat |->
                       IF i \in 1 .. n THEN recv(a, q[i][2]) ELSE a]]
           Is(f) == f = [i \in 0 .. Len(q) |-> IF i = 0 THEN c ELSE recv(f[i - 1], q[i][2])]
<1>1. n \in Nat /\ \A i \in 1 .. n : q[i][2] \in Ents /\ q[i][2].counter \in Nat
  <2>1. n \in Nat /\ \A i \in 1 .. n : q[i] \in Keys \X Ents
    BY LenProperties, ElementOfSeq DEF Changes
  <2> QED
    BY <2>1 DEF Ents
<1>2. ASSUME NEW a \in Nat, NEW i \in 1 .. n
      PROVE  /\ recv(a, q[i][2]) \in Nat /\ recv(a, q[i][2]) >= a
             /\ recv(a, q[i][2]) >= q[i][2].counter
  <2>1. q[i][2].counter \in Nat
    BY <1>1
  <2> HIDE DEF n
  <2> DEFINE b == q[i][2].counter
  <2>2. Max({a, b}) = IF a >= b THEN a ELSE b
    BY <2>1, MaxOfTwo
  <2> QED
    BY <2>1, <2>2 DEF recv
<1>3. rule \in [Nat \ {0} -> [Nat -> Nat]]
  BY <1>2
<1>4. ASSUME NEW i \in 1 .. n, NEW a \in Nat PROVE rule[i][a] = recv(a, q[i][2])
  BY <1>1
<1> HIDE DEF rule
<1>5. PICK f \in [0 .. n -> Nat] : Follows(f, rule, c, n)
  BY <1>1, <1>3, PrefixRecursion
<1>6. ASSUME NEW i \in 1 .. n PROVE f[i] = recv(f[i - 1], q[i][2])
  <2>1. f[i - 1] \in Nat
    BY <1>1
  <2> QED
    BY <1>4, <1>5, <2>1 DEF Follows
<1>7. Is(f)
  <2>1. \A i \in 0 .. n : i = 0 \/ i \in 1 .. n
    BY <1>1
  <2> QED
    BY <1>5, <1>6, <2>1 DEF Follows
<1> DEFINE g == CHOOSE h : Is(h)
<1>8. Is(g)
  <2> HIDE DEF Is
  <2> QED BY <1>7, Zenon DEF g
<1>9. Clocked(c, q) = g[n]
  BY DEF Clocked
<1> HIDE DEF g
<1>10. g[0] = c /\ \A i \in 1 .. n : g[i] = recv(g[i - 1], q[i][2])
  BY <1>1, <1>8
<1> HIDE DEF Is, n
<1> DEFINE T == {m \in Nat : m <= n => /\ g[m] \in Nat /\ g[m] >= c
                                       /\ \A i \in 1 .. m : q[i][2].counter <= g[m]}
<1>11. 0 \in T
  BY <1>10
<1>12. ASSUME NEW m \in T PROVE m + 1 \in T
  <2> SUFFICES ASSUME m + 1 <= n
               PROVE  /\ g[m + 1] \in Nat /\ g[m + 1] >= c
                      /\ \A i \in 1 .. m + 1 : q[i][2].counter <= g[m + 1]
    BY DEF T
  <2>1. m + 1 \in 1 .. n /\ (m + 1) - 1 = m /\ m \in Nat /\ m <= n
    BY <1>1
  <2>2. g[m] \in Nat /\ g[m] >= c /\ \A i \in 1 .. m : q[i][2].counter <= g[m]
    BY <2>1
  <2> HIDE DEF T
  <2>3. g[m + 1] = recv(g[m], q[m + 1][2])
    BY <1>10, <2>1
  <2>4. g[m + 1] \in Nat /\ g[m + 1] >= g[m] /\ g[m + 1] >= q[m + 1][2].counter
    BY <1>2, <2>1, <2>2, <2>3
  <2>5. ASSUME NEW i \in 1 .. m + 1 PROVE q[i][2].counter <= g[m + 1]
    <3>1. q[i][2].counter \in Nat
      BY <1>1, <2>1
    <3>2. CASE i = m + 1
      BY <2>4, <3>2
    <3>3. CASE i \in 1 .. m
      <4>1. q[i][2].counter <= g[m]
        BY <2>2, <3>3
      <4>2. g[m] \in Nat /\ g[m + 1] \in Nat /\ g[m + 1] >= g[m]
        BY <2>2, <2>4
      <4> QED
        BY <3>1, <4>1, <4>2
    <3> QED
      BY <2>1, <3>2, <3>3
  <2> QED
    BY <2>2, <2>4, <2>5
<1>13. T = Nat
  <2> HIDE DEF T
  <2>1. T \in SUBSET Nat
    BY DEF T
  <2> QED
    BY <1>11, <1>12, <2>1, SetInduction
<1>14. g[n] \in Nat /\ g[n] >= c /\ \A i \in 1 .. n : q[i][2].counter <= g[n]
  BY <1>1, <1>13
<1> QED
  BY <1>9, <1>14 DEF n


(***************************************************************************)
(* The shared world: every entry reaches every node                        *)
(***************************************************************************)
Queued(q, k, e) == \E i \in 1 .. Len(q) : q[i] = <<k, e>>

\* Entry e of key k is held, waits to be sent, or is in flight somewhere
Seen(k, e) ==
    \/ \E n \in Nodes : k \in DOMAIN world[n] /\ world[n][k] = e
    \/ \E n \in Nodes : Queued(batch[n], k, e)
    \/ \E m \in net : Queued(m.changes, k, e)

\* m compacted the tombstone e away; what it may still be told of k is newer.
Buried(m, k, e) ==
    /\ k \notin DOMAIN world[m] /\ e.value = Deleted
    /\ \A n \in Nodes : e.counter <= clock[n]
    /\ \A d \in Ents : Seen(k, d) => AtLeast(d, e)

\* m has e or something newer, or will be told, or forgot a tombstone
Reached(m, k, e) ==
    \/ k \in DOMAIN world[m] /\ AtLeast(world[m][k], e)
    \/ \E p \in net, d \in Ents : p.to = m /\ Queued(p.changes, k, d) /\ AtLeast(d, e)
    \/ \E b \in Nodes \ {m}, d \in Ents : Queued(batch[b], k, d) /\ AtLeast(d, e)
    \/ Buried(m, k, e)

WsTyped ==
    /\ world \in [Nodes -> Worlds] /\ clock \in [Nodes -> Nat]
    /\ batch \in [Nodes -> Changes]
    /\ \A m \in net : m.to \in Nodes /\ m.changes \in Changes
ClockPasses == \A n \in Nodes : \A k \in DOMAIN world[n] : world[n][k].counter <= clock[n]
OwnStamps == \A k \in Keys, e \in Ents : Seen(k, e) => e.counter <= clock[e.node]
StampsUnique ==
    \A k, j \in Keys, e, d \in Ents :
        Seen(k, e) /\ Seen(j, d) /\ e.counter = d.counter /\ e.node = d.node => k = j /\ e = d
AllReached == \A m \in Nodes, k \in Keys, e \in Ents : Seen(k, e) => Reached(m, k, e)
WsInv ==
    /\ WsTyped /\ ClockPasses /\ OwnStamps /\ StampsUnique
    /\ oversized = {} => AllReached

\* Steps that make no new entry
Shrinks == \A k \in Keys, e \in Ents : Seen(k, e)' => Seen(k, e)
ClocksGrow == \A n \in Nodes : clock[n] <= clock'[n]

LEMMA ShrinkStamps ==
    ASSUME WsInv, WsTyped', Shrinks, ClocksGrow PROVE OwnStamps' /\ StampsUnique'
<1>1. ASSUME NEW k \in Keys, NEW e \in Ents, Seen(k, e)' PROVE e.counter <= clock'[e.node]
  <2>1. e.counter \in Nat /\ e.node \in Nodes /\ clock[e.node] \in Nat /\ clock'[e.node] \in Nat
    BY DEF Ents, WsInv, WsTyped
  <2>2. e.counter <= clock[e.node] /\ clock[e.node] <= clock'[e.node]
    BY <1>1, <2>1 DEF Shrinks, ClocksGrow, WsInv, OwnStamps
  <2> QED
    BY <2>1, <2>2
<1>2. StampsUnique'
  BY DEF Shrinks, WsInv, StampsUnique
<1> QED
  BY <1>1, <1>2 DEF OwnStamps

LEMMA StaysBuried ==
    ASSUME WsTyped, WsTyped', Shrinks, ClocksGrow, NEW m \in Nodes, NEW k \in Keys, NEW e \in Ents,
           Buried(m, k, e), k \notin DOMAIN world'[m]
    PROVE  Buried(m, k, e)'
<1>1. ASSUME NEW n \in Nodes PROVE e.counter <= clock'[n]
  <2>1. e.counter \in Nat /\ clock[n] \in Nat /\ clock'[n] \in Nat
    BY DEF Ents, WsTyped
  <2>2. e.counter <= clock[n] /\ clock[n] <= clock'[n]
    BY DEF Buried, ClocksGrow
  <2> QED
    BY <2>1, <2>2
<1> QED
  BY <1>1 DEF Buried, Shrinks

LEMMA QueuedAppend ==
    ASSUME NEW q \in Changes, NEW k \in Keys, NEW e \in Ents
    PROVE  /\ Append(q, <<k, e>>) \in Changes
           /\ Queued(Append(q, <<k, e>>), k, e)
           /\ \A j \in Keys, d \in Ents :
                 /\ Queued(q, j, d) => Queued(Append(q, <<k, e>>), j, d)
                 /\ Queued(Append(q, <<k, e>>), j, d) => Queued(q, j, d) \/ (j = k /\ d = e)
<1> DEFINE x == <<k, e>>
           r == Append(q, x)
<1>1. x \in Keys \X Ents
  OBVIOUS
<1>2. /\ r \in Changes /\ Len(r) = Len(q) + 1 /\ Len(q) \in Nat
      /\ \A i \in 1 .. Len(q) : r[i] = q[i]
      /\ r[Len(q) + 1] = x
  BY <1>1, AppendProperties, LenProperties DEF Changes
<1> HIDE DEF r
<1>3. /\ \A i \in 1 .. Len(r) : i \in 1 .. Len(q) \/ i = Len(q) + 1
      /\ \A i \in 1 .. Len(q) : i \in 1 .. Len(r)
      /\ Len(q) + 1 \in 1 .. Len(r)
  BY <1>2
<1>4. ASSUME NEW j \in Keys, NEW d \in Ents, Queued(q, j, d) PROVE Queued(r, j, d)
  BY <1>2, <1>3, <1>4 DEF Queued
<1>5. ASSUME NEW j \in Keys, NEW d \in Ents, Queued(r, j, d) PROVE Queued(q, j, d) \/ (j = k /\ d = e)
  BY <1>2, <1>3, <1>5 DEF Queued
<1>6. Queued(r, k, e)
  BY <1>2, <1>3 DEF Queued
<1> QED
  BY <1>2, <1>4, <1>5, <1>6 DEF r

LEMMA WriteStep ==
    ASSUME WsInv, NEW n \in Nodes, NEW k \in Keys, NEW v \in Values \cup {Deleted}, Write(n, k, v)
    PROVE  WsInv'
<1> DEFINE e == [value |-> v, counter |-> clock[n] + 1, node |-> n]
           q == Append(batch[n], <<k, e>>)
<1>1. /\ clock' = [clock EXCEPT ![n] = clock[n] + 1]
      /\ world' = [world EXCEPT ![n] = Put(world[n], k, e)]
      /\ batch' = [batch EXCEPT ![n] = q]
      /\ net' = net /\ oversized' = oversized
  BY DEF Write
<1>2. /\ world[n] \in Worlds /\ clock[n] \in Nat /\ batch[n] \in Changes
      /\ \A j \in DOMAIN world[n] : world[n][j] \in Ents
  BY DEF WsInv, WsTyped, Worlds
<1>3. e \in Ents /\ e.counter = clock[n] + 1 /\ e.node = n
  BY <1>2 DEF Ents
<1> HIDE DEF e
<1>4. /\ Put(world[n], k, e) \in Worlds /\ DOMAIN Put(world[n], k, e) = DOMAIN world[n] \cup {k}
      /\ Put(world[n], k, e)[k] = e
      /\ \A x \in DOMAIN world[n] \ {k} : Put(world[n], k, e)[x] = world[n][x]
  BY <1>2, <1>3, PutWorld, ZenonT(30)
<1>5. /\ q \in Changes /\ Queued(q, k, e)
      /\ \A j \in Keys, d \in Ents : /\ Queued(batch[n], j, d) => Queued(q, j, d)
                                     /\ Queued(q, j, d) => Queued(batch[n], j, d) \/ (j = k /\ d = e)
  BY <1>2, <1>3, QueuedAppend
<1> HIDE DEF q
<1>6. /\ world'[n] = Put(world[n], k, e) /\ batch'[n] = q /\ clock'[n] = clock[n] + 1
      /\ \A m \in Nodes \ {n} : /\ world'[m] = world[m] /\ batch'[m] = batch[m]
                                /\ clock'[m] = clock[m]
  BY <1>1 DEF WsInv, WsTyped
<1>7. WsTyped'
  BY <1>1, <1>2, <1>4, <1>5 DEF WsInv, WsTyped
<1>8. ClocksGrow
  BY <1>2, <1>6 DEF ClocksGrow, WsInv, WsTyped
<1>9. ASSUME NEW j \in Keys, NEW d \in Ents, Seen(j, d)' PROVE Seen(j, d) \/ (j = k /\ d = e)
  <2>1. CASE \E m \in Nodes : j \in DOMAIN world'[m] /\ world'[m][j] = d
    <3>1. PICK m \in Nodes : j \in DOMAIN world'[m] /\ world'[m][j] = d
      BY <2>1
    <3>2. CASE m = n
      BY <1>4, <1>6, <3>1, <3>2 DEF Seen
    <3>3. CASE m # n
      BY <1>6, <3>1, <3>3 DEF Seen
    <3> QED
      BY <3>2, <3>3
  <2>2. CASE \E m \in Nodes : Queued(batch'[m], j, d)
    BY <1>5, <1>6, <2>2 DEF Seen
  <2>3. CASE \E m \in net' : Queued(m.changes, j, d)
    BY <1>1, <2>3 DEF Seen
  <2> QED
    BY <1>9, <2>1, <2>2, <2>3 DEF Seen
<1>10. ASSUME NEW j \in Keys, NEW d \in Ents, Seen(j, d), d.node = n PROVE d.counter < e.counter
  <2>1. d.counter <= clock[n] /\ d.counter \in Nat
    BY <1>10 DEF WsInv, OwnStamps, Ents
  <2> QED
    BY <1>2, <1>3, <2>1
<1>11. ClockPasses'
  <2> SUFFICES ASSUME NEW m \in Nodes, NEW j \in DOMAIN world'[m]
               PROVE  world'[m][j].counter <= clock'[m]
    BY DEF ClockPasses
  <2>1. CASE m = n
    <3>1. CASE j = k
      BY <1>2, <1>3, <1>4, <1>6, <2>1, <3>1
    <3>2. CASE j # k
      <4>1. world'[m][j] = world[n][j] /\ j \in DOMAIN world[n] /\ world[n][j].counter \in Nat
        BY <1>2, <1>4, <1>6, <2>1, <3>2 DEF Ents
      <4>2. world[n][j].counter <= clock[n]
        BY <4>1 DEF WsInv, ClockPasses
      <4> QED
        BY <1>2, <1>6, <2>1, <4>1, <4>2
    <3> QED
      BY <3>1, <3>2
  <2>2. CASE m # n
    BY <1>6, <2>2 DEF WsInv, ClockPasses
  <2> QED
    BY <2>1, <2>2
<1>12. OwnStamps'
  <2> SUFFICES ASSUME NEW j \in Keys, NEW d \in Ents, Seen(j, d)' PROVE d.counter <= clock'[d.node]
    BY DEF OwnStamps
  <2>1. CASE Seen(j, d)
    <3>1. d.counter \in Nat /\ d.node \in Nodes /\ clock[d.node] \in Nat /\ clock'[d.node] \in Nat
      BY <1>7 DEF Ents, WsInv, WsTyped
    <3>2. d.counter <= clock[d.node] /\ clock[d.node] <= clock'[d.node]
      BY <1>8, <2>1, <3>1 DEF ClocksGrow, WsInv, OwnStamps
    <3> QED
      BY <3>1, <3>2
  <2>2. CASE d = e
    BY <1>2, <1>3, <1>6, <2>2
  <2> QED
    BY <1>9, <2>1, <2>2
<1>13. StampsUnique'
  <2> SUFFICES ASSUME NEW i \in Keys, NEW j \in Keys, NEW c \in Ents, NEW d \in Ents,
                      Seen(i, c)', Seen(j, d)', c.counter = d.counter, c.node = d.node
               PROVE  i = j /\ c = d
    BY DEF StampsUnique
  <2>1. CASE Seen(i, c) /\ Seen(j, d)
    BY <2>1 DEF WsInv, StampsUnique
  <2>2. CASE Seen(i, c) /\ j = k /\ d = e
    <3>1. c.counter < e.counter /\ c.counter = e.counter /\ c.counter \in Nat
      BY <1>3, <1>10, <2>2 DEF Ents
    <3> QED
      BY <3>1
  <2>3. CASE i = k /\ c = e /\ Seen(j, d)
    <3>1. d.counter < e.counter /\ d.counter = e.counter /\ d.counter \in Nat
      BY <1>3, <1>10, <2>3 DEF Ents
    <3> QED
      BY <3>1
  <2> QED
    BY <1>9, <2>1, <2>2, <2>3
<1>14. ASSUME oversized' = {} PROVE AllReached'
  <2> SUFFICES ASSUME NEW m \in Nodes, NEW j \in Keys, NEW d \in Ents, Seen(j, d)'
               PROVE  Reached(m, j, d)'
    BY DEF AllReached
  <2>1. CASE j = k /\ d = e
    <3>1. CASE m = n
      BY <1>3, <1>4, <1>6, <2>1, <3>1, StampOrder DEF Reached
    <3>2. CASE m # n
      <4>1. Queued(batch'[n], k, e) /\ AtLeast(e, e) /\ n \in Nodes \ {m}
        BY <1>3, <1>5, <1>6, <3>2, StampOrder
      <4> QED
        BY <1>3, <2>1, <4>1 DEF Reached
    <3> QED
      BY <3>1, <3>2
  <2>2. CASE Seen(j, d)
    <3>1. Reached(m, j, d)
      BY <1>1, <1>14, <2>2 DEF WsInv, AllReached
    <3>2. CASE j \in DOMAIN world[m] /\ AtLeast(world[m][j], d)
      <4>1. CASE m = n /\ j = k
        <5>1. world[n][k] \in Ents /\ world[n][k].counter \in Nat /\ world[n][k].counter <= clock[n]
          BY <1>2, <3>2, <4>1 DEF Ents, WsInv, ClockPasses
        <5>2. e.counter > world[n][k].counter
          BY <1>2, <1>3, <5>1
        <5>3. AtLeast(e, d)
          BY <1>3, <3>2, <4>1, <5>1, <5>2, StampOrder
        <5> QED
          BY <1>4, <1>6, <4>1, <5>3 DEF Reached
      <4>2. CASE ~(m = n /\ j = k)
        <5>1. j \in DOMAIN world'[m] /\ world'[m][j] = world[m][j]
          BY <1>4, <1>6, <3>2, <4>2
        <5> QED
          BY <3>2, <5>1 DEF Reached
      <4> QED
        BY <4>1, <4>2
    <3>3. CASE \E p \in net, c \in Ents : p.to = m /\ Queued(p.changes, j, c) /\ AtLeast(c, d)
      BY <1>1, <3>3 DEF Reached
    <3>4. CASE \E b \in Nodes \ {m}, c \in Ents : Queued(batch[b], j, c) /\ AtLeast(c, d)
      <4>1. PICK b \in Nodes \ {m}, c \in Ents : Queued(batch[b], j, c) /\ AtLeast(c, d)
        BY <3>4
      <4>2. Queued(batch'[b], j, c)
        BY <1>5, <1>6, <4>1
      <4> QED
        BY <4>1, <4>2 DEF Reached
    <3>5. CASE Buried(m, j, d)
      <4>1. d.counter \in Nat /\ d.counter <= clock[n]
        BY <3>5 DEF Buried, Ents
      <4>2. e.counter > d.counter
        BY <1>2, <1>3, <4>1
      <4>3. AtLeast(e, d)
        BY <1>3, <4>2, StampOrder
      <4>4. CASE m = n /\ j = k
        BY <1>4, <1>6, <4>3, <4>4 DEF Reached
      <4>5. CASE ~(m = n /\ j = k)
        <5>1. j \notin DOMAIN world'[m]
          BY <1>4, <1>6, <3>5, <4>5 DEF Buried
        <5>2. \A c \in Ents : Seen(j, c)' => AtLeast(c, d)
          BY <1>9, <3>5, <4>3 DEF Buried
        <5>3. ASSUME NEW r \in Nodes PROVE d.counter <= clock'[r]
          <6>1. d.counter <= clock[r] /\ clock[r] <= clock'[r]
            BY <1>8, <3>5 DEF Buried, ClocksGrow
          <6>2. d.counter \in Nat /\ clock[r] \in Nat /\ clock'[r] \in Nat
            BY <1>7 DEF Ents, WsInv, WsTyped
          <6> QED
            BY <6>1, <6>2
        <5>4. d.value = Deleted
          BY <3>5 DEF Buried
        <5> QED
          BY <5>1, <5>2, <5>3, <5>4 DEF Reached, Buried
      <4> QED
        BY <4>4, <4>5
    <3> QED
      BY <3>1, <3>2, <3>3, <3>4, <3>5 DEF Reached
  <2> QED
    BY <1>9, <2>1, <2>2
<1> QED
  BY <1>7, <1>11, <1>12, <1>13, <1>14 DEF WsInv

\* poll_outgoing
LEMMA PollStep == ASSUME WsInv, NEW n \in Nodes, poll_outgoing(n) PROVE WsInv'
<1> DEFINE q == batch[n]
<1>1. /\ world' = world /\ clock' = clock /\ batch' = [batch EXCEPT ![n] = << >>] /\ q # << >>
      /\ \/ oversized' = oversized \cup Range(q) /\ net' = net
         \/ /\ net' = net \cup {Message(m, q, sv[n]) : m \in Nodes \ {n}}
            /\ oversized' = oversized
  BY DEF poll_outgoing
<1>2. q \in Changes /\ << >> \in Changes /\ 1 .. Len(<< >>) = {}
  BY DEF WsInv, WsTyped, Changes
<1>3. /\ batch'[n] = << >> /\ \A b \in Nodes \ {n} : batch'[b] = batch[b]
  BY <1>1 DEF WsInv, WsTyped
<1>4. \A m \in Nodes : Message(m, q, sv[n]).to = m /\ Message(m, q, sv[n]).changes = q
  BY DEF Message
<1> HIDE DEF q
<1>5. WsTyped'
  <2>1. batch' \in [Nodes -> Changes]
    BY <1>1, <1>2 DEF WsInv, WsTyped
  <2>2. \A m \in net' : m.to \in Nodes /\ m.changes \in Changes
    BY <1>1, <1>2, <1>4 DEF WsInv, WsTyped
  <2> QED
    BY <1>1, <2>1, <2>2 DEF WsInv, WsTyped
<1>6. Shrinks
  <2> SUFFICES ASSUME NEW k \in Keys, NEW e \in Ents, Seen(k, e)' PROVE Seen(k, e)
    BY DEF Shrinks
  <2>1. CASE \E m \in Nodes : k \in DOMAIN world'[m] /\ world'[m][k] = e
    BY <1>1, <2>1 DEF Seen
  <2>2. CASE \E m \in Nodes : Queued(batch'[m], k, e)
    BY <1>2, <1>3, <2>2 DEF Seen, Queued
  <2>3. CASE \E m \in net' : Queued(m.changes, k, e)
    <3>1. PICK m \in net' : Queued(m.changes, k, e)
      BY <2>3
    <3>2. CASE m \in net
      BY <3>1, <3>2 DEF Seen
    <3>3. CASE m \notin net
      <4>1. m.changes = q
        BY <1>1, <1>4, <3>3
      <4> QED
        BY <3>1, <4>1 DEF Seen, q
    <3> QED
      BY <3>2, <3>3
  <2> QED
    BY <2>1, <2>2, <2>3 DEF Seen
<1>7. ClocksGrow
  BY <1>1 DEF ClocksGrow, WsInv, WsTyped
<1>8. ClockPasses'
  BY <1>1 DEF WsInv, ClockPasses
<1>9. ASSUME oversized' = {} PROVE AllReached'
  <2>1. oversized' = oversized /\ net' = net \cup {Message(m, q, sv[n]) : m \in Nodes \ {n}}
    <3>1. Range(q) # {}
      <4>1. q[1] \in Range(q)
        BY <1>1, <1>2, EmptySeq, LenProperties DEF Range, Changes
      <4> QED
        BY <4>1
    <3> QED
      BY <1>1, <1>9, <3>1
  <2> SUFFICES ASSUME NEW m \in Nodes, NEW k \in Keys, NEW e \in Ents, Seen(k, e)'
               PROVE  Reached(m, k, e)'
    BY DEF AllReached
  <2>2. Reached(m, k, e)
    BY <1>6, <1>9, <2>1 DEF Shrinks, WsInv, AllReached
  <2>3. CASE k \in DOMAIN world[m] /\ AtLeast(world[m][k], e)
    BY <1>1, <2>3 DEF Reached
  <2>4. CASE \E p \in net, d \in Ents : p.to = m /\ Queued(p.changes, k, d) /\ AtLeast(d, e)
    <3>1. net \subseteq net'
      BY <2>1
    <3> QED
      BY <2>4, <3>1 DEF Reached
  <2>5. CASE \E b \in Nodes \ {m}, d \in Ents : Queued(batch[b], k, d) /\ AtLeast(d, e)
    <3>1. PICK b \in Nodes \ {m}, d \in Ents : Queued(batch[b], k, d) /\ AtLeast(d, e)
      BY <2>5
    <3>2. CASE b = n
      <4> DEFINE p == Message(m, q, sv[n])
      <4>1. p \in net' /\ p.to = m /\ p.changes = q
        BY <1>4, <2>1, <3>2
      <4> HIDE DEF p
      <4>2. Queued(p.changes, k, d)
        BY <3>1, <3>2, <4>1 DEF q
      <4> QED
        BY <3>1, <4>1, <4>2 DEF Reached
    <3>3. CASE b # n
      BY <1>3, <3>1, <3>3 DEF Reached
    <3> QED
      BY <3>2, <3>3
  <2>6. CASE Buried(m, k, e)
    <3>1. k \notin DOMAIN world'[m] /\ WsTyped
      BY <1>1, <2>6 DEF Buried, WsInv
    <3>2. Buried(m, k, e)'
      BY <1>5, <1>6, <1>7, <2>6, <3>1, StaysBuried
    <3> QED
      BY <3>2 DEF Reached
  <2> QED
    BY <2>2, <2>3, <2>4, <2>5, <2>6 DEF Reached
<1> QED
  BY <1>5, <1>6, <1>7, <1>8, <1>9, ShrinkStamps DEF WsInv


\* create_full_snapshot
LEMMA SnapshotStep ==
    ASSUME WsInv, NEW n \in Nodes, NEW to \in Nodes, create_full_snapshot(n, to) PROVE WsInv'
<1> DEFINE S == {<<k, world[n][k]>> : k \in DOMAIN world[n]}
<1>0. PICK q \in SetToSeqs(S) : \E vector : net' = net \cup {Message(to, q, vector)}
  BY DEF create_full_snapshot
<1>1. PICK vector : net' = net \cup {Message(to, q, vector)}
  BY <1>0
<1>2. UNCHANGED <<world, clock, batch, oversized>>
  BY DEF create_full_snapshot
<1>3. world[n] \in Worlds /\ DOMAIN world[n] \in SUBSET Keys
      /\ \A k \in DOMAIN world[n] : world[n][k] \in Ents
  BY DEF WsInv, WsTyped, Worlds
<1>4. Cardinality(S) \in Nat
  <2>1. IsFiniteSet(DOMAIN world[n])
    BY <1>3, WorldAssumption, FS_Subset
  <2>2. IsFiniteSet(S)
    <3> DEFINE D == DOMAIN world[n]
               f == [k \in D |-> <<k, world[n][k]>>]
    <3>1. f \in Surjection(D, S)
      BY DEF Surjection
    <3> HIDE DEF f, S
    <3> QED
      BY <2>1, <3>1, FS_Surjection
  <2> HIDE DEF S
  <2> QED
    BY <2>2, FS_CardinalityType
<1>5. q \in [1 .. Cardinality(S) -> S]
  BY DEF SetToSeqs
<1>6. S \subseteq Keys \X Ents
  BY <1>3
<1>7. /\ q \in Changes
      /\ \A k \in Keys, e \in Ents : Queued(q, k, e) => k \in DOMAIN world[n] /\ world[n][k] = e
  <2> DEFINE c == Cardinality(S)
  <2> HIDE DEF c
  <2>1. c \in Nat /\ q \in [1 .. c -> S]
    BY <1>4, <1>5 DEF c
  <2>2. q \in Seq(Keys \X Ents) /\ Len(q) = c
    BY <1>6, <2>1
  <2>3. ASSUME NEW k \in Keys, NEW e \in Ents, Queued(q, k, e)
        PROVE  k \in DOMAIN world[n] /\ world[n][k] = e
    <3>1. PICK i \in 1 .. c : q[i] = <<k, e>>
      BY <2>2, <2>3 DEF Queued
    <3>2. <<k, e>> \in S
      BY <2>1, <3>1
    <3> QED
      BY <3>2
  <2> QED
    BY <2>2, <2>3 DEF Changes
<1> HIDE DEF S
<1>8. Message(to, q, vector).to = to /\ Message(to, q, vector).changes = q
  BY DEF Message
<1>9. WsTyped'
  <2>1. \A m \in net' : m.to \in Nodes /\ m.changes \in Changes
    BY <1>1, <1>7, <1>8 DEF WsInv, WsTyped
  <2> QED
    BY <1>2, <2>1 DEF WsInv, WsTyped
<1>10. Shrinks
  <2> SUFFICES ASSUME NEW k \in Keys, NEW e \in Ents, Seen(k, e)' PROVE Seen(k, e)
    BY DEF Shrinks
  <2>1. CASE \/ \E m \in Nodes : k \in DOMAIN world'[m] /\ world'[m][k] = e
             \/ \E m \in Nodes : Queued(batch'[m], k, e)
    BY <1>2, <2>1 DEF Seen
  <2>2. CASE \E m \in net' : Queued(m.changes, k, e)
    BY <1>1, <1>7, <1>8, <2>2 DEF Seen
  <2> QED
    BY <2>1, <2>2 DEF Seen
<1>11. ClocksGrow
  BY <1>2 DEF ClocksGrow, WsInv, WsTyped
<1>12. ClockPasses'
  BY <1>2 DEF WsInv, ClockPasses
<1>13. ASSUME oversized' = {} PROVE AllReached'
  <2> SUFFICES ASSUME NEW m \in Nodes, NEW k \in Keys, NEW e \in Ents, Seen(k, e)'
               PROVE  Reached(m, k, e)'
    BY DEF AllReached
  <2>1. Reached(m, k, e)
    BY <1>2, <1>10, <1>13 DEF Shrinks, WsInv, AllReached
  <2>2. net \subseteq net'
    BY <1>1
  <2>3. CASE Buried(m, k, e)
    <3>1. k \notin DOMAIN world'[m] /\ WsTyped
      BY <1>2, <2>3 DEF Buried, WsInv
    <3>2. Buried(m, k, e)'
      BY <1>9, <1>10, <1>11, <2>3, <3>1, StaysBuried
    <3> QED
      BY <3>2 DEF Reached
  <2>4. CASE ~Buried(m, k, e)
    BY <1>2, <2>1, <2>2, <2>4 DEF Reached
  <2> QED
    BY <2>3, <2>4
<1> QED
  BY <1>2, <1>9, <1>10, <1>11, <1>12, <1>13, ShrinkStamps DEF WsInv

\* process_incoming
LEMMA IncomingStep == ASSUME WsInv, NEW msg \in net, process_incoming(msg) PROVE WsInv'
<1> DEFINE n == msg.to
           q == msg.changes
           w == Merged(world[n], q)
           c == Clocked(clock[n], q)
<1>1. /\ net' = net \ {msg} /\ world' = [world EXCEPT ![n] = w]
      /\ clock' = [clock EXCEPT ![n] = c] /\ UNCHANGED <<batch, oversized>>
  BY DEF process_incoming
<1>2. /\ n \in Nodes /\ q \in Changes /\ world[n] \in Worlds /\ clock[n] \in Nat
      /\ \A k \in DOMAIN world[n] : world[n][k] \in Ents /\ world[n][k].counter \in Nat
  BY DEF WsInv, WsTyped, Worlds, Ents
<1>3. /\ w \in Worlds /\ DOMAIN world[n] \subseteq DOMAIN w
      /\ \A k \in DOMAIN world[n] : AtLeast(w[k], world[n][k])
      /\ \A i \in 1 .. Len(q) : q[i][1] \in DOMAIN w /\ AtLeast(w[q[i][1]], q[i][2])
      /\ \A k \in DOMAIN w : \/ k \in DOMAIN world[n] /\ w[k] = world[n][k]
                             \/ \E i \in 1 .. Len(q) : q[i] = <<k, w[k]>>
  BY <1>2, MergeFacts
<1>4. c \in Nat /\ c >= clock[n] /\ \A i \in 1 .. Len(q) : q[i][2].counter <= c
  BY <1>2, ClockFacts
<1> HIDE DEF w, c, n, q
<1>5. /\ world'[n] = w /\ clock'[n] = c
      /\ \A m \in Nodes \ {n} : world'[m] = world[m] /\ clock'[m] = clock[m]
  BY <1>1, <1>2 DEF WsInv, WsTyped
<1>6. WsTyped'
  BY <1>1, <1>2, <1>3, <1>4 DEF WsInv, WsTyped
<1>7. Shrinks
  <2> SUFFICES ASSUME NEW k \in Keys, NEW e \in Ents, Seen(k, e)' PROVE Seen(k, e)
    BY DEF Shrinks
  <2>1. CASE \E m \in Nodes : k \in DOMAIN world'[m] /\ world'[m][k] = e
    <3>1. PICK m \in Nodes : k \in DOMAIN world'[m] /\ world'[m][k] = e
      BY <2>1
    <3>2. CASE m # n
      BY <1>5, <3>1, <3>2 DEF Seen
    <3>3. CASE m = n
      <4>1. CASE k \in DOMAIN world[n] /\ w[k] = world[n][k]
        BY <1>2, <1>5, <3>1, <3>3, <4>1 DEF Seen
      <4>2. CASE \E i \in 1 .. Len(q) : q[i] = <<k, w[k]>>
        BY <1>5, <3>1, <3>3, <4>2 DEF Seen, Queued, q
      <4> QED
        BY <1>3, <1>5, <3>1, <3>3, <4>1, <4>2
    <3> QED
      BY <3>2, <3>3
  <2>2. CASE \E m \in Nodes : Queued(batch'[m], k, e)
    BY <1>1, <2>2 DEF Seen
  <2>3. CASE \E m \in net' : Queued(m.changes, k, e)
    BY <1>1, <2>3 DEF Seen
  <2> QED
    BY <2>1, <2>2, <2>3 DEF Seen
<1>8. ClocksGrow
  BY <1>2, <1>4, <1>5 DEF ClocksGrow, WsInv, WsTyped
<1>9. ClockPasses'
  <2> SUFFICES ASSUME NEW m \in Nodes, NEW k \in DOMAIN world'[m]
               PROVE  world'[m][k].counter <= clock'[m]
    BY DEF ClockPasses
  <2>1. CASE m # n
    BY <1>5, <2>1 DEF WsInv, ClockPasses
  <2>2. CASE m = n
    <3>1. k \in DOMAIN w /\ world'[m][k] = w[k] /\ clock'[m] = c
      BY <1>5, <2>2
    <3>2. CASE k \in DOMAIN world[n] /\ w[k] = world[n][k]
      <4>1. world[n][k].counter <= clock[n] /\ world[n][k].counter \in Nat
        BY <1>2, <3>2 DEF WsInv, ClockPasses
      <4> QED
        BY <1>2, <1>4, <3>1, <3>2, <4>1
    <3>3. CASE \E i \in 1 .. Len(q) : q[i] = <<k, w[k]>>
      BY <1>4, <3>1, <3>3
    <3> QED
      BY <1>3, <3>1, <3>2, <3>3
  <2> QED
    BY <2>1, <2>2
<1>10. ASSUME oversized' = {} PROVE AllReached'
  <2> SUFFICES ASSUME NEW m \in Nodes, NEW k \in Keys, NEW e \in Ents, Seen(k, e)'
               PROVE  Reached(m, k, e)'
    BY DEF AllReached
  <2>0. \A x \in DOMAIN w : w[x] \in Ents
    BY <1>3 DEF Worlds
  <2>1. Reached(m, k, e)
    BY <1>1, <1>7, <1>10 DEF Shrinks, WsInv, AllReached
  <2>2. CASE k \in DOMAIN world[m] /\ AtLeast(world[m][k], e)
    <3>1. CASE m # n
      BY <1>5, <2>2, <3>1 DEF Reached
    <3>2. CASE m = n
      <4>1. k \in DOMAIN w /\ AtLeast(w[k], world[n][k]) /\ AtLeast(world[n][k], e)
        BY <1>3, <2>2, <3>2
      <4>2. AtLeast(w[k], e)
        BY <1>2, <2>0, <2>2, <3>2, <4>1, StampOrder
      <4> QED
        BY <1>5, <3>2, <4>1, <4>2 DEF Reached
    <3> QED
      BY <3>1, <3>2
  <2>3. CASE \E p \in net, d \in Ents : p.to = m /\ Queued(p.changes, k, d) /\ AtLeast(d, e)
    <3>1. PICK p \in net, d \in Ents : p.to = m /\ Queued(p.changes, k, d) /\ AtLeast(d, e)
      BY <2>3
    <3>2. CASE p # msg
      BY <1>1, <3>1, <3>2 DEF Reached
    <3>3. CASE p = msg
      <4>1. m = n /\ Queued(q, k, d)
        BY <3>1, <3>3 DEF n, q
      <4>2. k \in DOMAIN w /\ AtLeast(w[k], d)
        BY <1>3, <4>1 DEF Queued
      <4>3. AtLeast(w[k], e)
        BY <2>0, <3>1, <4>2, StampOrder
      <4> QED
        BY <1>5, <4>1, <4>2, <4>3 DEF Reached
    <3> QED
      BY <3>2, <3>3
  <2>4. CASE \E b \in Nodes \ {m}, d \in Ents : Queued(batch[b], k, d) /\ AtLeast(d, e)
    BY <1>1, <2>4 DEF Reached
  <2>5. CASE Buried(m, k, e)
    <3>1. CASE k \notin DOMAIN world'[m]
      <4>1. WsTyped
        BY DEF WsInv
      <4>2. Buried(m, k, e)'
        BY <1>6, <1>7, <1>8, <2>5, <3>1, <4>1, StaysBuried
      <4> QED
        BY <4>2 DEF Reached
    <3>2. CASE k \in DOMAIN world'[m]
      <4>1. world'[m][k] \in Ents
        BY <1>6, <3>2 DEF WsTyped, Worlds
      <4>2. PICK d \in Ents : d = world'[m][k]
        BY <4>1
      <4>3. Seen(k, d)'
        BY <3>2, <4>2 DEF Seen
      <4>4. AtLeast(d, e)
        BY <1>7, <2>5, <4>3 DEF Shrinks, Buried
      <4> QED
        BY <3>2, <4>2, <4>4 DEF Reached
    <3> QED
      BY <3>1, <3>2
  <2> QED
    BY <2>1, <2>2, <2>3, <2>4, <2>5 DEF Reached
<1> QED
  BY <1>1, <1>6, <1>7, <1>8, <1>9, <1>10, ShrinkStamps DEF WsInv


\* When everything has arrived, two nodes that hold a key hold one entry of it, and a
\* node without it compacted the other's tombstone away.
LEMMA SettledAgree ==
    ASSUME WsInv, Settled, oversized = {}, NEW n \in Nodes, NEW m \in Nodes, NEW k \in Keys,
           k \in DOMAIN world[n]
    PROVE  /\ world[n][k] \in Ents /\ Seen(k, world[n][k])
           /\ k \in DOMAIN world[m] => world[m][k] = world[n][k]
           /\ k \notin DOMAIN world[m] => Buried(m, k, world[n][k])
<1>1. ASSUME NEW a \in Nodes, NEW b \in Nodes, k \in DOMAIN world[a]
      PROVE  /\ world[a][k] \in Ents /\ Seen(k, world[a][k])
             /\ \/ k \in DOMAIN world[b] /\ AtLeast(world[b][k], world[a][k])
                \/ Buried(b, k, world[a][k])
  <2>1. world[a][k] \in Ents
    BY <1>1 DEF WsInv, WsTyped, Worlds
  <2>2. Seen(k, world[a][k])
    BY <1>1 DEF Seen
  <2>3. Reached(b, k, world[a][k])
    BY <2>1, <2>2 DEF WsInv, AllReached
  <2>4. net = {} /\ \A c \in Nodes : batch[c] = << >>
    BY DEF Settled
  <2>5. ASSUME NEW c \in Nodes, NEW d \in Ents PROVE ~Queued(batch[c], k, d)
    <3>1. batch[c] = << >> /\ 1 .. Len(<< >>) = {}
      BY <2>4
    <3> QED
      BY <3>1 DEF Queued
  <2> QED
    BY <2>1, <2>2, <2>3, <2>4, <2>5 DEF Reached
<1>2. CASE k \in DOMAIN world[m]
  <2>1. /\ world[n][k] \in Ents /\ Seen(k, world[n][k]) /\ world[m][k] \in Ents
        /\ Seen(k, world[m][k])
        /\ AtLeast(world[m][k], world[n][k]) /\ AtLeast(world[n][k], world[m][k])
    BY <1>1, <1>2 DEF Buried
  <2>2. world[m][k].counter = world[n][k].counter /\ world[m][k].node = world[n][k].node
    BY <2>1, StampOrder
  <2> QED
    BY <1>2, <2>1, <2>2 DEF WsInv, StampsUnique
<1>3. CASE k \notin DOMAIN world[m]
  BY <1>1, <1>3
<1> QED
  BY <1>2, <1>3

\* compact
LEMMA CompactStep == ASSUME WsInv, NEW n \in Nodes, compact(n) PROVE WsInv'
<1> DEFINE D == {x \in DOMAIN world[n] : world[n][x].value # Deleted}
           w == [k \in D |-> world[n][k]]
<1>1. /\ Settled /\ oversized = {} /\ world' = [world EXCEPT ![n] = w]
      /\ UNCHANGED <<clock, batch, net, oversized>>
  BY DEF compact
<1>2. /\ w \in Worlds /\ DOMAIN w = D /\ \A k \in D : w[k] = world[n][k]
      /\ D \subseteq DOMAIN world[n]
  <2>1. world[n] \in Worlds
    BY DEF WsInv, WsTyped
  <2>2. D \in SUBSET Keys /\ w \in [D -> Ents]
    BY <2>1 DEF Worlds
  <2> QED
    BY <2>2 DEF Worlds
<1> HIDE DEF w
<1>3. world'[n] = w /\ \A m \in Nodes \ {n} : world'[m] = world[m]
  BY <1>1 DEF WsInv, WsTyped
<1>4. WsTyped'
  BY <1>1, <1>2 DEF WsInv, WsTyped
<1>5. Shrinks
  <2> SUFFICES ASSUME NEW k \in Keys, NEW e \in Ents, Seen(k, e)' PROVE Seen(k, e)
    BY DEF Shrinks
  <2>1. CASE \E m \in Nodes : k \in DOMAIN world'[m] /\ world'[m][k] = e
    <3>1. PICK m \in Nodes : k \in DOMAIN world'[m] /\ world'[m][k] = e
      BY <2>1
    <3>2. k \in DOMAIN world[m] /\ world[m][k] = e
      BY <1>2, <1>3, <3>1
    <3> QED
      BY <3>2 DEF Seen
  <2>2. CASE \/ \E m \in Nodes : Queued(batch'[m], k, e)
             \/ \E m \in net' : Queued(m.changes, k, e)
    BY <1>1, <2>2 DEF Seen
  <2> QED
    BY <2>1, <2>2 DEF Seen
<1>6. ClocksGrow
  BY <1>1 DEF ClocksGrow, WsInv, WsTyped
<1>7. ClockPasses'
  BY <1>1, <1>2, <1>3 DEF WsInv, ClockPasses
<1>8. AllReached'
  <2> SUFFICES ASSUME NEW m \in Nodes, NEW k \in Keys, NEW e \in Ents, Seen(k, e)'
               PROVE  Reached(m, k, e)'
    BY DEF AllReached
  <2>1. Seen(k, e)
    BY <1>5 DEF Shrinks
  <2>2. PICK a \in Nodes : k \in DOMAIN world[a] /\ world[a][k] = e
    <3>1. net = {} /\ \A c \in Nodes : ~Queued(batch[c], k, e)
      <4>1. net = {} /\ \A c \in Nodes : batch[c] = << >>
        BY <1>1 DEF Settled
      <4>2. 1 .. Len(<< >>) = {}
        OBVIOUS
      <4> QED
        BY <4>1, <4>2 DEF Queued
    <3> QED
      BY <2>1, <3>1 DEF Seen
  <2>3. CASE Buried(m, k, e)
    <3>1. k \notin DOMAIN world'[m] /\ WsTyped
      BY <1>2, <1>3, <2>3 DEF Buried, WsInv
    <3>2. Buried(m, k, e)'
      BY <1>4, <1>5, <1>6, <2>3, <3>1, StaysBuried
    <3> QED
      BY <3>2 DEF Reached
  <2>4. CASE ~Buried(m, k, e)
    <3>1. k \in DOMAIN world[m] /\ world[m][k] = e
      BY <1>1, <2>2, <2>4, SettledAgree
    <3>2. CASE k \in DOMAIN world'[m]
      <4>1. world'[m][k] = e
        BY <1>2, <1>3, <3>1, <3>2
      <4> QED
        BY <3>2, <4>1, StampOrder DEF Reached
    <3>3. CASE k \notin DOMAIN world'[m]
      <4>1. m = n /\ e.value = Deleted
        BY <1>2, <1>3, <3>1, <3>3
      <4>2. ASSUME NEW b \in Nodes PROVE e.counter <= clock[b]
        <5>1. CASE k \in DOMAIN world[b]
          <6>1. world[b][k] = e
            BY <1>1, <2>2, <5>1, SettledAgree
          <6> QED
            BY <5>1, <6>1 DEF WsInv, ClockPasses
        <5>2. CASE k \notin DOMAIN world[b]
          <6>1. Buried(b, k, e)
            BY <1>1, <2>2, <5>2, SettledAgree
          <6> QED
            BY <6>1 DEF Buried
        <5> QED
          BY <5>1, <5>2
      <4>3. ASSUME NEW d \in Ents, Seen(k, d) PROVE AtLeast(d, e)
        <5>1. PICK b \in Nodes : k \in DOMAIN world[b] /\ world[b][k] = d
          <6>1. net = {} /\ \A c \in Nodes : batch[c] = << >>
            BY <1>1 DEF Settled
          <6>2. 1 .. Len(<< >>) = {}
            OBVIOUS
          <6> QED
            BY <4>3, <6>1, <6>2 DEF Seen, Queued
        <5>2. d = e
          BY <1>1, <2>2, <5>1, SettledAgree
        <5> QED
          BY <5>2, StampOrder
      <4>4. Buried(m, k, e)'
        BY <1>1, <1>5, <3>3, <4>1, <4>2, <4>3 DEF Buried, Shrinks
      <4> QED
        BY <4>4 DEF Reached
    <3> QED
      BY <3>2, <3>3
  <2> QED
    BY <2>3, <2>4
<1> QED
  BY <1>4, <1>5, <1>6, <1>7, <1>8, ShrinkStamps DEF WsInv

LEMMA WsInitInv == WsInit => WsInv
<1> SUFFICES ASSUME WsInit PROVE WsInv
  OBVIOUS
<1>1. /\ \A n \in Nodes : world[n] = << >> /\ batch[n] = << >> /\ clock[n] = 0
      /\ net = {}
  BY DEF WsInit
<1>2. << >> \in Worlds /\ DOMAIN << >> = {} /\ 1 .. Len(<< >>) = {} /\ << >> \in Changes
  <2>1. << >> \in [{} -> Ents] /\ {} \in SUBSET Keys
    OBVIOUS
  <2>2. << >> \in Worlds
    BY <2>1 DEF Worlds
  <2> QED
    BY <2>2 DEF Changes
<1>3. WsTyped
  BY <1>1, <1>2 DEF WsTyped, WsInit
<1>4. \A k \in Keys, e \in Ents : ~Seen(k, e)
  BY <1>1, <1>2 DEF Seen, Queued
<1>5. ClockPasses
  BY <1>1, <1>2 DEF ClockPasses
<1> QED
  BY <1>3, <1>4, <1>5 DEF WsInv, OwnStamps, StampsUnique, AllReached

LEMMA WsNextInv == WsInv /\ [WsNext]_wsVars => WsInv'
<1> SUFFICES ASSUME WsInv, [WsNext]_wsVars PROVE WsInv'
  OBVIOUS
<1>1. CASE WsNext
  BY <1>1, WriteStep, PollStep, CompactStep, SnapshotStep, IncomingStep DEF WsNext
<1>2. CASE UNCHANGED wsVars
  <2>1. UNCHANGED <<world, clock, batch, net, oversized>>
    BY <1>2 DEF wsVars
  <2> QED
    BY <2>1 DEF WsInv, WsTyped, ClockPasses, OwnStamps, StampsUnique, AllReached, Reached,
                Buried, Seen
<1> QED
  BY <1>1, <1>2

\* However many nodes, keys and writes, and in whatever order deltas, full snapshots
\* and compactions come: once all has arrived and no batch was too large to send, every
\* node reads the same world, and no clock is behind what its node holds (crdt sync).
THEOREM WorldsStayConvergent == WsSpec => []WorldsConverge
<1>1. ASSUME WsInv PROVE WorldsConverge
  <2>1. ASSUME Settled, oversized = {}, NEW n \in Nodes, NEW m \in Nodes, NEW k \in Keys
        PROVE  get(n, k) = get(m, k)
    <3>1. CASE k \in DOMAIN world[n]
      <4>1. /\ k \in DOMAIN world[m] => world[m][k] = world[n][k]
            /\ k \notin DOMAIN world[m] => Buried(m, k, world[n][k])
        BY <1>1, <2>1, <3>1, SettledAgree
      <4> QED
        BY <3>1, <4>1 DEF get, Buried
    <3>2. CASE k \notin DOMAIN world[n] /\ k \in DOMAIN world[m]
      <4>1. Buried(n, k, world[m][k])
        BY <1>1, <2>1, <3>2, SettledAgree
      <4> QED
        BY <3>2, <4>1 DEF get, Buried
    <3>3. CASE k \notin DOMAIN world[n] /\ k \notin DOMAIN world[m]
      BY <3>3 DEF get
    <3> QED
      BY <3>1, <3>2, <3>3
  <2> QED
    BY <1>1, <2>1 DEF WorldsConverge, WsInv, ClockPasses
<1> QED
  BY <1>1, WsInitInv, WsNextInv, PTL DEF WsSpec

=============================================================================
