---- MODULE RtsGame ----
(* The rules of the strategy game (333-platform/src/apps/rts.rs) and the epochs that
   stamp its turns (FrameEpochBridge in apps/rts_state_tiers.rs, over the hybrid
   logical clock of hlc.rs). They share no state: a behaviour is of the "game" or of
   the "epochs". Positions are points of a line; a turn holds a few commands. *)
EXTENDS Integers, Sequences, SequencesExt, FiniteSets, FiniteSetsExt

CONSTANTS Players,      \* players of the game; the first to join made it
          Strangers,    \* ids that command units without having joined
          Stake,        \* minerals of a new player: 500 in the code
          ResourceNodes, \* resource nodes: a sequence of [at, amount]
          Spots,        \* places a gather command names
          UnitKinds,    \* unit types the players order
          MaxUnits, MaxTurns, MaxCommands,
          Bridges,      \* nodes that stamp epochs
          MaxWall,      \* last value of a node's system clock, which may jump about
          CounterMax,   \* where the counter of a clock saturates
          Capacity,     \* epochs a bridge keeps
          MaxEpochs

UnitTypes == {"worker", "soldier", "tank", "building"}

\* A player is no outcome of the game; a bridge has room for an epoch (push_epoch
\* panics otherwise); and the counters, 32 bits wide in the code, cannot saturate
\* within the epochs stamped and sent.
ASSUME GameAssumption ==
  /\ IsFiniteSet(Players) /\ IsFiniteSet(Strangers) /\ {"in progress", "draw"} \cap Players = {}
  /\ Stake \in Nat /\ UnitKinds \subseteq UnitTypes /\ Spots \subseteq Int
  /\ ResourceNodes \in Seq([at : Int, amount : Nat])
  /\ MaxWall \in Nat /\ MaxEpochs \in Nat /\ CounterMax \in Nat /\ 2 * MaxEpochs <= CounterMax
  /\ Capacity \in Nat \ {0}

VARIABLES part,
          units, minerals, next, left, result, turn,  \* RtsGame
          purse,                                      \* ids with an entry in player_minerals
          spent, free, standing,                      \* what was paid; gathered from no node; alive at the end
          hlc, kept, epochs, ops

gameVars == <<units, minerals, purse, next, left, result, turn, spent, free, standing>>
epochVars == <<hlc, kept, epochs, ops>>
rgVars == <<part, gameVars, epochVars>>

InProgress == "in progress"
Draw == "draw"

Cost(kind) == CASE kind = "worker" -> 50 [] kind = "soldier" -> 100 [] kind = "tank" -> 200 [] kind = "building" -> 150
Hp(kind) == CASE kind = "worker" -> 40 [] kind = "soldier" -> 100 [] kind = "tank" -> 250 [] kind = "building" -> 500
UnitDamage(kind) == CASE kind = "worker" -> 5 [] kind = "soldier" -> 15 [] kind = "tank" -> 30 [] kind = "building" -> 0

Everyone == Players \cup Strangers

\* Every player has joined before the first unit is placed; who did not join has no
\* purse, which holds nothing.
Purses == [p \in Everyone |-> IF p \in Players THEN Stake ELSE 0]
GameInit == /\ units = [u \in {} |-> 0] /\ minerals = Purses /\ purse = Players /\ next = 1
            /\ left = [i \in DOMAIN ResourceNodes |-> ResourceNodes[i].amount] /\ result = InProgress /\ turn = 0
            /\ spent = [p \in Everyone |-> 0] /\ free = 0 /\ standing = {}
HlcInit == hlc = [b \in Bridges |-> <<0, 0>>]
BridgeInit == kept = [b \in Bridges |-> <<>>] /\ epochs = {} /\ ops = 0

RgInit ==
  /\ part \in {"game", "epochs"}
  /\ GameInit /\ HlcInit /\ BridgeInit

----
(* A game is the record of its tables; a command takes one game to the next. *)
Game == [units |-> units, minerals |-> minerals, purse |-> purse, next |-> next, left |-> left, spent |-> spent, free |-> free]

Owns(g, p, u) == u \in DOMAIN g.units /\ g.units[u].owner = p

\* Only a purse is charged: without one a unit is free.
Charge(g, p, kind) == IF p \in g.purse THEN Cost(kind) ELSE 0

\* spawn_unit's early return.
Afford(g, p, kind) == g.minerals[p] >= Charge(g, p, kind)

Unit(p, kind) == [owner |-> p, kind |-> kind, hp |-> Hp(kind)]

spawn_unit(g, p, kind) ==
  IF ~Afford(g, p, kind) THEN g
  ELSE [g EXCEPT !.minerals[p] = @ - Charge(g, p, kind), !.spent[p] = @ + Charge(g, p, kind),
                 !.next = @ + 1,
                 !.units = [u \in DOMAIN @ \cup {g.next} |->
                              IF u = g.next THEN Unit(p, kind) ELSE @[u]]]

Attack(g, p, u, v) ==
  IF ~Owns(g, p, u) \/ v \notin DOMAIN g.units THEN g
  ELSE [g EXCEPT !.units[v].hp = Max({0, @ - UnitDamage(g.units[u].kind)})]

\* drain_nearest_resource: the nearest node in range that is not empty, the first of
\* equals; with none in range ten come from nowhere.
Range5(g, spot) == {i \in DOMAIN ResourceNodes : g.left[i] > 0 /\ (ResourceNodes[i].at - spot) \in -4..4}
Away(i, spot) == Max({ResourceNodes[i].at - spot, spot - ResourceNodes[i].at})
Nearest(g, spot) ==
  CHOOSE i \in Range5(g, spot) : \A j \in Range5(g, spot) :
    Away(i, spot) < Away(j, spot) \/ (Away(i, spot) = Away(j, spot) /\ i <= j)

Drain(g, i) == Min({10, g.left[i]})

\* Who gathers has a purse from then on.
Gather(g, p, u, spot) ==
  IF ~(Owns(g, p, u) /\ g.units[u].kind = "worker") THEN g
  ELSE IF Range5(g, spot) = {} THEN [g EXCEPT !.minerals[p] = @ + 10, !.purse = @ \cup {p}, !.free = @ + 10]
  ELSE LET i == Nearest(g, spot)
       IN [g EXCEPT !.left[i] = @ - Drain(g, i), !.minerals[p] = @ + Drain(g, i),
                    !.purse = @ \cup {p}]

Produce(g, p, u, kind) ==
  IF Owns(g, p, u) /\ g.units[u].kind = "building" THEN spawn_unit(g, p, kind) ELSE g

Orders == {[do |-> "stop"]} \cup {[do |-> "build", kind |-> k] : k \in UnitKinds}
          \cup {[do |-> "produce", unit |-> u, kind |-> k] : u \in DOMAIN units, k \in UnitKinds}
          \cup {[do |-> "attack", unit |-> u, target |-> v] : u \in DOMAIN units, v \in 1..next}
          \cup {[do |-> "gather", unit |-> u, spot |-> s] : u \in DOMAIN units, s \in Spots}

execute_command(g, p, o) ==
  CASE o.do = "build" -> spawn_unit(g, p, o.kind)
    [] o.do = "produce" -> Produce(g, p, o.unit, o.kind)
    [] o.do = "attack" -> Attack(g, p, o.unit, o.target)
    [] o.do = "gather" -> Gather(g, p, o.unit, o.spot)
    [] o.do = "stop" -> g

\* The dead leave after the last command of the turn, so a unit struck down this
\* turn still carries out its orders.
Survivors(g) == {u \in DOMAIN g.units : g.units[u].hp > 0}
Alive(g) == {g.units[u].owner : u \in Survivors(g)} \cap Players

check_victory(g) ==
  IF result # InProgress THEN UNCHANGED <<result, standing>>
  ELSE /\ standing' = Alive(g)
       /\ result' = IF Alive(g) = {} THEN Draw
                    ELSE IF Cardinality(Alive(g)) = 1 THEN CHOOSE p \in Players : p \in Alive(g) ELSE InProgress

Becomes(g) ==
  /\ g.next <= MaxUnits + 1
  /\ minerals' = g.minerals /\ purse' = g.purse /\ next' = g.next
  /\ left' = g.left /\ spent' = g.spent /\ free' = g.free

\* Units placed before the first turn.
Setup(p, kind) ==
  LET g == spawn_unit(Game, p, kind) IN
  turn = 0 /\ Becomes(g) /\ units' = g.units /\ UNCHANGED <<result, turn, standing>>

\* The game after the commands of a turn, in their order.
Executed(commands) ==
  LET after[i \in 0..Len(commands)] ==
        IF i = 0 THEN Game ELSE execute_command(after[i - 1], commands[i][1], commands[i][2])
  IN after[Len(commands)]

process_turn(commands) ==
  LET g == Executed(commands) IN
  /\ turn < MaxTurns
  /\ Becomes(g)
  /\ units' = [u \in Survivors(g) |-> g.units[u]]
  /\ turn' = turn + 1
  /\ check_victory(g)

\* One order of each of the turn's commanders, in a fixed order.
Commands(f) == LET ps == SetToSeq(DOMAIN f) IN [i \in DOMAIN ps |-> <<ps[i], f[ps[i]]>>]

GameStep ==
  /\ \/ \E p \in Everyone, kind \in UnitKinds : Setup(p, kind)
     \/ \E ps \in SUBSET Everyone :
          /\ Cardinality(ps) <= MaxCommands
          /\ \E f \in [ps -> Orders] : process_turn(Commands(f))
  /\ UNCHANGED epochVars

SumOf(f) == MapThenSumSet(LAMBDA x : f[x], DOMAIN f)

\* What a player owns and has spent is what it was given and has gathered, and what
\* was gathered came out of the nodes, but for the ten of an empty place; only a
\* turn that left one player standing, or none, ended the game.
GameSound ==
  LET mined == SumOf([i \in DOMAIN ResourceNodes |-> ResourceNodes[i].amount - left[i]])
  IN /\ \A p \in Everyone : minerals[p] >= 0
     /\ \A i \in DOMAIN ResourceNodes : left[i] >= 0
     /\ SumOf(minerals) + SumOf(spent) = SumOf(Purses) + mined + free
     /\ \A u \in DOMAIN units : u < next /\ units[u].hp \in 1..Hp(units[u].kind)
     /\ result \in Players => standing = {result}
     /\ result = Draw => standing = {}
     /\ result = InProgress /\ turn > 0 => Cardinality({units[u].owner : u \in DOMAIN units} \cap Players) > 1

----
(* Hlc. The wall clock is whatever the system says at the moment. *)
Saturated(n) == IF n > CounterMax THEN CounterMax ELSE n

\* tick.
Ticked(h, now) == IF now > h[1] THEN <<now, 0>> ELSE <<h[1], Saturated(h[2] + 1)>>

\* Mutant: the remote counter is forgotten when the remote wall wins.
ReceivedWallOnly(h, remote, now) ==
  IF remote[1] > h[1] THEN <<Max({now, remote[1]}), 0>> ELSE Ticked(h, now)
\* recv.
Received(h, remote, now) ==
  LET wall == Max({now, h[1], remote[1]}) IN
  IF wall > h[1] /\ wall > remote[1] THEN <<wall, 0>>
  ELSE <<wall, Saturated(1 + (IF h[1] = remote[1] THEN Max({h[2], remote[2]})
                              ELSE IF h[1] > remote[1] THEN h[2] ELSE remote[2]))>>

Earlier(a, b) == a[1] < b[1] \/ (a[1] = b[1] /\ a[2] < b[2])

\* push_epoch: the oldest epoch makes room.
Pushed(buffer, e) == Append(IF Len(buffer) >= Capacity THEN Tail(buffer) ELSE buffer, e)

knownTo(b) == {e \in epochs : e.by = b \/ b \in e.read}

\* FrameEpoch, with who has read it and the epochs its node knew before it.
FrameEpoch(b, frame, stamp) ==
  [by |-> b, frame |-> frame, stamp |-> stamp, read |-> {},
   after |-> {<<x.by, x.frame>> : x \in knownTo(b)}]

capture(b, now) ==
  LET stamp == Ticked(hlc[b], now)
      frame == Cardinality({x \in epochs : x.by = b})
  IN /\ Cardinality(epochs) < MaxEpochs
     /\ hlc' = [hlc EXCEPT ![b] = stamp]
     /\ kept' = [kept EXCEPT ![b] = Pushed(@, frame)]
     /\ epochs' = epochs \cup {FrameEpoch(b, frame, stamp)}
     /\ UNCHANGED ops

\* A remote epoch may come late, again, or never.
recv_remote_epoch(b, e, now) ==
  /\ e.by # b /\ ops < MaxEpochs
  /\ ops' = ops + 1
  /\ hlc' = [hlc EXCEPT ![b] = Received(@, e.stamp, now)]
  /\ epochs' = (epochs \ {e}) \cup {[e EXCEPT !.read = @ \cup {b}]}
  /\ UNCHANGED kept

EpochStep ==
  /\ \E b \in Bridges, now \in 0..MaxWall : capture(b, now) \/ \E e \in epochs : recv_remote_epoch(b, e, now)
  /\ UNCHANGED gameVars

\* An epoch is stamped later than every epoch its node had stamped or been sent
\* before it, whatever the system clocks do; the buffer holds the node's last ones.
EpochsSound ==
  /\ \A e, f \in epochs : <<f.by, f.frame>> \in e.after => Earlier(f.stamp, e.stamp)
  /\ \A b \in Bridges :
       LET n == Cardinality({e \in epochs : e.by = b})
           m == Min({n, Capacity})
       IN kept[b] = [i \in 1..m |-> n - m + i - 1]

----
RgNext == /\ UNCHANGED part
          /\ \/ part = "game" /\ GameStep
             \/ part = "epochs" /\ EpochStep

RgSpec == RgInit /\ [][RgNext]_rgVars

(* The game's books balance and its epochs are stamped in causal order
   (RtsGame::process_turn, FrameEpochBridge::capture and recv_remote_epoch). *)
TurnsAccounted == GameSound /\ EpochsSound

====
