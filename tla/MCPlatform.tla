---- MODULE MCPlatform ----
(* The components of 333-platform, each in a small instance. They share no state here,
   so a behaviour is of one component, its focus, and the components take turns with
   one set of variables: an INSTANCE says which slot holds which variable. The extended
   components, about which there are theorems, keep variables of their own: they are
   "coin", "link", "lockstep", "world", "om" and "game". *)
EXTENDS Integers, Sequences, CoinLedger, PeerLink, Lockstep, WorldSync, OmScheduler,
        RtsGame

CONSTANT Foci   \* components explored

mv(u, d) == [cmd |-> "move", unit |-> u, dx |-> d]
at(u, v) == [cmd |-> "attack", unit |-> u, target |-> v]
sel(u) == [cmd |-> "select", unit |-> u]
de(u) == [cmd |-> "deselect", unit |-> u]

\* Two units within reach of each other, inputs for five frames, one of them past the
\* edge of the map, and what a deviating peer may see instead.
RtsUnits == [u \in {1, 2} |-> [owner |-> u, x |-> 2 * u + 2, hp |-> 2, cooldown |-> 0]]
RtsScript == <<<<mv(1, 1), sel(2)>>, <<at(1, 2), at(2, 1)>>, <<[cmd |-> "noop"], mv(1, 9)>>,
               <<de(2), at(2, 1)>>, <<at(1, 2), mv(1, -9)>>>>
RtsDeviation == <<mv(2, 9), mv(1, 9), mv(2, -2)>>

\* Two mineral fields, the nearer one not a multiple of what a worker carries.
Fields == <<[at |-> 0, amount |-> 15], [at |-> 4, amount |-> 10]>>

VARIABLES focus,   \* the component this behaviour is of
          s1, s2, s3, s4, s5, s6, s7   \* its variables

Session == INSTANCE RtsSession WITH
    Peers <- {1, 2}, Units <- RtsUnits, Script <- RtsScript, Deviation <- RtsDeviation,
    MAP_MAX <- 6, UNIT_RADIUS <- 1, AttackRange <- 2, Damage <- 1, CooldownMax <- 2,
    Retention <- 3, Slots <- 2, MaxLead <- 3, tactical <- s1, ggrs <- s2, local <- s3,
    epochs <- s4, wire <- s5, raised <- s6, deviated <- s7

Kern == INSTANCE Kernel WITH
    Builtin <- [n \in {"crdt"} |-> {"WorldWrite"}],
    Extra <- [n \in {"app"} |-> {"NetworkSend"}], Priorities <- {0, 1}, MaxJobs <- 3,
    MaxDone <- 2, BatchSizes <- {1, 3}, services <- s1, queues <- s2, next_id <- s3,
    done <- s4, counts <- s5, ran <- s6,
    Vms <- {1, 2}, Callers <- {{"ServiceSpawn"}, {"ServiceKill"}}, Timeout <- 1,
    MaxNow <- 3, MaxSpawn <- 4, instances <- s1, total_spawned <- s2,
    total_stopped <- s3, now <- s4, swept <- s5

Disp == INSTANCE Dispatch WITH
    reliable_cap <- 2, unreliable_cap <- 1, BatchSizes <- {1, 4}, MaxFrames <- 5,
    queue <- s1, depth <- s2, proc <- s3, next <- s4, accepted <- s5, lost <- s6,
    ran <- s7

\* The slots a component does not use stay 0.
Free7 == s7 = 0
rest7 == <<s7>>
Free6 == s6 = 0 /\ Free7
rest6 == <<s6, rest7>>

slots == <<s1, s2, s3, s4, s5, s6, rest7>>
vars == <<focus, slots, clVars, plVars, lkVars, wsVars, omVars, rgVars>>

Init ==
  /\ focus \in Foci
  /\ ClInit /\ PlInit /\ LkInit /\ WsInit /\ OmInit /\ RgInit
  /\ focus # "game" => part = "game"
  /\ \/ focus = "session" /\ Session!RtInit
     \/ focus = "kernel" /\ Kern!KrInit /\ Free7
     \/ focus = "vm" /\ Kern!VmInit /\ Free6
     \/ focus = "dispatch" /\ Disp!DpInit
     \/ /\ focus \in {"coin", "link", "lockstep", "world", "om", "game"}
        /\ s1 = 0 /\ s2 = 0 /\ s3 = 0 /\ s4 = 0 /\ s5 = 0 /\ Free6

Next ==
  /\ UNCHANGED focus
  /\ \/ focus = "coin" /\ ClNext /\ UNCHANGED <<slots, plVars, lkVars, wsVars, omVars, rgVars>>
     \/ focus = "link" /\ PlNext /\ UNCHANGED <<slots, clVars, lkVars, wsVars, omVars, rgVars>>
     \/ focus = "lockstep" /\ LkNext /\ UNCHANGED <<slots, clVars, plVars, wsVars, omVars, rgVars>>
     \/ focus = "world" /\ WsNext /\ UNCHANGED <<slots, clVars, plVars, lkVars, omVars, rgVars>>
     \/ focus = "om" /\ OmNext /\ UNCHANGED <<slots, clVars, plVars, lkVars, wsVars, rgVars>>
     \/ focus = "game" /\ RgNext /\ UNCHANGED <<slots, clVars, plVars, lkVars, wsVars, omVars>>
     \/ /\ UNCHANGED <<clVars, plVars, lkVars, wsVars, omVars, rgVars>>
        /\ \/ focus = "session" /\ Session!RtNext
           \/ focus = "kernel" /\ Kern!KrNext /\ UNCHANGED rest7
           \/ focus = "vm" /\ Kern!VmNext /\ UNCHANGED rest6
           \/ focus = "dispatch" /\ Disp!DpNext

Spec == Init /\ [][Next]_vars

----
\* A difference between two peers is noticed by one of them, and no units overlap
\* (RtsSession::observe_peer_digest, apply_inputs_to_tactical).
DivergenceSeen ==
  /\ focus = "session" => Session!DivergenceSeen
  /\ focus = "session" => Session!Apart

\* A tick never runs a job while a more urgent one waits (WorkerQueue::tick).
PriorityFirst == [][focus = "kernel" => Kern!PriorityStep]_vars

\* Jobs, virtual machines and frames are counted once, whatever is cancelled, swept or
\* refused: none runs twice and none is lost unseen (WorkerQueue, VmService, dispatch).
KernelAccounted ==
  /\ focus = "kernel" => Kern!JobsAccounted
  /\ focus = "vm" => Kern!VmsAccounted
  /\ focus = "dispatch" => Disp!DispatchedInOrder
====
