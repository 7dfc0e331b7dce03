------------------------------- MODULE MCBft --------------------------------
(***************************************************************************)
(* HotStuff under its drivers.  A behaviour runs one deployment: four      *)
(* validators, one of them silent, that propose once per view and never    *)
(* time out (module HotStuff itself, as the .cfg instantiates it); two,    *)
(* whose quorum is one, in the browser's polling loop; or the checkpoint   *)
(* bridge at one of one, of two or of four validators.  These have the     *)
(* variables s1 to s5, which stay 0 where the harness runs.                *)
(***************************************************************************)
EXTENDS HotStuff

CONSTANT Deployments   \* a subset of {"harness", "pair", "solo", "duo", "four"}

VARIABLES focus, s1, s2, s3, s4, s5

TransferOf(i, j, k) ==
    [kind |-> "Transfer", from |-> i, to |-> j, amount |-> 1, nonce |-> k]
Checkpoint(frame) == [kind |-> "Ranked", from |-> 1, frame |-> frame]
Checkpoints == {Checkpoint(k) : k \in 1..3}
Bid(i) == [kind |-> "AuctionBid", from |-> i, amount |-> 1]

\* The harness.
FourValidators == <<1, 2, 3, 4>>
HarnessTxs == {TransferOf(1, 2, 0), Bid(2)}

Pair == INSTANCE HotStuff WITH
    Validators <- <<1, 2>>, Silent <- {}, Driver <- "browser",
    Txs <- {TransferOf(2, 1, 0)}, InitBalance <- 2, MaxPool <- 2,
    hs <- s1, msgs <- s2, submitted <- s3, decided <- s4, bridge <- s5

Solo == INSTANCE HotStuff WITH
    Validators <- <<1>>, Silent <- {}, Driver <- "bridge",
    Txs <- Checkpoints, InitBalance <- 0, MaxPool <- 2,
    hs <- s1, msgs <- s2, submitted <- s3, decided <- s4, bridge <- s5

Duo == INSTANCE HotStuff WITH
    Validators <- <<1, 2>>, Silent <- {}, Driver <- "bridge",
    Txs <- Checkpoints, InitBalance <- 0, MaxPool <- 2,
    hs <- s1, msgs <- s2, submitted <- s3, decided <- s4, bridge <- s5

Four == INSTANCE HotStuff WITH
    Validators <- FourValidators, Silent <- {}, Driver <- "bridge",
    Txs <- Checkpoints, InitBalance <- 0, MaxPool <- 2,
    hs <- s1, msgs <- s2, submitted <- s3, decided <- s4, bridge <- s5

slots == <<s1, s2, s3, s4, s5>>
vars == <<focus, hsVars, slots>>

Init ==
    /\ focus \in Deployments
    /\ HsInit
    /\ CASE focus = "harness" -> s1 = 0 /\ s2 = 0 /\ s3 = 0 /\ s4 = 0 /\ s5 = 0
         [] focus = "pair" -> Pair!HsInit
         [] focus = "solo" -> Solo!HsInit
         [] focus = "duo" -> Duo!HsInit
         [] focus = "four" -> Four!HsInit

Next ==
    /\ UNCHANGED focus
    /\ \/ focus = "harness" /\ HsNext /\ UNCHANGED slots
       \/ /\ UNCHANGED hsVars
          /\ \/ focus = "pair" /\ Pair!HsNext
             \/ focus = "solo" /\ Solo!HsNext
             \/ focus = "duo" /\ Duo!HsNext
             \/ focus = "four" /\ Four!HsNext

Spec == Init /\ [][Next]_vars

\* In the polling loop, whose views go back, no transaction takes effect twice
\* in one executor (executor.rs: execute_one); with the bridge too a decided block
\* was voted for by a quorum in every phase of its view, and a certificate it
\* returns is accepted and is for the checkpoint it was asked (bft_bridge.rs:
\* propose_checkpoint).
DriversSound ==
    /\ focus = "pair" => Pair!ExecutedOnce
    /\ focus = "solo" => Solo!CertifiedCommit /\ Solo!CheckpointsCertified
    /\ focus = "duo" => Duo!CertifiedCommit /\ Duo!CheckpointsCertified
    /\ focus = "four" => Four!CertifiedCommit /\ Four!CheckpointsCertified
=============================================================================
