-------------------------- MODULE HeightConsensus --------------------------
(***************************************************************************)
(* consensus333's InMemoryConsensus at one height, shared by threads: the  *)
(* leader may propose again, validators vote, and finalize takes the lock  *)
(* four times (block, prevotes, precommits, store).                        *)
(***************************************************************************)
EXTENDS Integers, FiniteSets, FiniteSetsExt

CONSTANTS
    Validators,             \* any of them may sign twice
    Blocks, Hash,           \* Hash[b]: Block::hash, blind to what an op carries
    Threads,
    MaxPropose, MaxVotes    \* bounds: proposals in all, votes recorded

VARIABLES
    block,      \* the block held: [block, finality] or NoBlock
    votes,      \* HeightState::votes: a set of [voter, kind, hash]
    call,       \* call[t]: a finalize in progress
    proposals,
    raced,      \* history: a proposal came while a finalize was in progress
    returned    \* history: [hash, counted] of every finalize that returned Committed;
                \* counted: it found the quorum of precommits itself

hcVars == <<block, votes, call, proposals, raced, returned>>

NoBlock == [block |-> "none", finality |-> 0]
Idle == [at |-> "idle"]
Kinds == {"prevote", "precommit"}

\* BlockFinality
Tentative == 0
Confirmed == 1
Committed == 2

HcInit ==
    /\ block = NoBlock /\ votes = {} /\ proposals = 0 /\ returned = {}
    /\ call = [t \in Threads |-> Idle]
    /\ raced = FALSE

max_faults == (Cardinality(Validators) - 1) \div 3
quorum == 2 * max_faults + 1

propose(b) ==
    /\ proposals < MaxPropose
    /\ proposals' = proposals + 1
    /\ block' = [block |-> b, finality |-> Tentative]
    /\ raced' = (raced \/ \E t \in Threads : call[t] # Idle)
    /\ UNCHANGED <<votes, call, returned>>

\* Mutant: the last vote of a validator counts.
RecordedLast(v, k, h) ==
    {x \in votes : ~(x.voter = v /\ x.kind = k)} \cup {[voter |-> v, kind |-> k, hash |-> h]}
Recorded(v, k, h) ==
    IF \E x \in votes : x.voter = v /\ x.kind = k THEN votes
    ELSE votes \cup {[voter |-> v, kind |-> k, hash |-> h]}

vote(v, k, h) ==
    /\ Cardinality(Recorded(v, k, h)) <= MaxVotes
    /\ votes' = Recorded(v, k, h)
    /\ UNCHANGED <<block, call, proposals, raced, returned>>

count_votes(h, k) == Cardinality({x \in votes : x.kind = k /\ x.hash = h})

-----------------------------------------------------------------------------
\* finalize
ReadBlock(t) ==
    /\ call[t] = Idle /\ block # NoBlock
    /\ call' = [call EXCEPT ![t] = [at |-> "prevotes", hash |-> Hash[block.block],
                                    current |-> block.finality, confirmed |-> FALSE,
                                    counted |-> FALSE]]
    /\ UNCHANGED <<block, votes, proposals, raced, returned>>

CountPrevotes(t) ==
    /\ call[t].at = "prevotes"
    /\ call' = [call EXCEPT ![t].at = "precommits",
                            ![t].confirmed = count_votes(call[t].hash, "prevote") >= quorum]
    /\ UNCHANGED <<block, votes, proposals, raced, returned>>

CountPrecommits(t) ==
    LET new == IF count_votes(call[t].hash, "precommit") >= quorum THEN Committed
               ELSE IF call[t].confirmed THEN Confirmed ELSE Tentative
    IN  /\ call[t].at = "precommits"
        /\ call' = [call EXCEPT ![t].at = "store", ![t].current = Max({@, new}),
                                ![t].counted = (new = Committed)]
        /\ UNCHANGED <<block, votes, proposals, raced, returned>>

\* written to whatever block is held now
Store(t) ==
    /\ call[t].at = "store"
    /\ block' = [block EXCEPT !.finality = call[t].current]
    /\ returned' = returned \cup (IF call[t].current = Committed
                              THEN {[hash |-> call[t].hash, counted |-> call[t].counted]} ELSE {})
    /\ call' = [call EXCEPT ![t] = Idle]
    /\ UNCHANGED <<votes, proposals, raced>>

HcNext ==
    \/ \E b \in Blocks : propose(b)
    \/ \E v \in Validators, k \in Kinds, b \in Blocks : vote(v, k, Hash[b])
    \/ \E t \in Threads : ReadBlock(t) \/ CountPrevotes(t) \/ CountPrecommits(t) \/ Store(t)

HcSpec == HcInit /\ [][HcNext]_hcVars

-----------------------------------------------------------------------------
\* However proposals, votes and finalize calls of several threads interleave, and
\* although any validator may sign twice: a call that finds a quorum of precommits
\* finds one that stays, and two such calls find it for one hash of the height if
\* there are 3f + 1 validators (quorum is 2f + 1 for any number of them, and two
\* of three votes among six validators need not share one). A call that only reads
\* Committed off the block can trust it, unless a leader proposed again inside some
\* finalize, whose level was then written on the new block (vote, finalize, quorum).
DecisionsEarned ==
    /\ \A x \in returned : x.counted \/ ~raced =>
                               count_votes(x.hash, "precommit") >= quorum
    /\ Cardinality(Validators) = 3 * max_faults + 1 =>
         \A x, y \in returned : x.counted /\ y.counted => x.hash = y.hash

=============================================================================
