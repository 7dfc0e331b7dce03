------------------------------ MODULE PeerLink ------------------------------
(***************************************************************************)
(* Two browsers meet through the signalling room (SignalingClient and the  *)
(* room's worker) and open a WebRtcPeer to each other. Newcomers, told who *)
(* is there, make the offer. The browser's own part of WebRTC is external: *)
(* channels are announced and open once the answer is set at the caller.   *)
(* One label stands for the four ordered or unordered channels.            *)
(***************************************************************************)
EXTENDS Integers, Sequences, SequencesExt, FiniteSets

CONSTANTS
    Peers,      \* two peer ids
    MaxData     \* bound: messages a peer sends on its channel

ASSUME LinkAssumption == \E p, q \in Peers : p # q /\ Peers = {p, q}

VARIABLES
    socket,     \* socket[p]: none | open | closed
    room,       \* SignalingRoom.peers
    known,      \* known[p]: known_peers
    outbox,     \* outbox[p]: SignalingClient::outbox, then the socket
    inq,        \* inq[p]: from the room to p
    st,         \* st[p]: PeerState
    step,       \* step[p]: none | created | offered | stable | offer | handler | answered
    dc,         \* dc[p]: none | held | lost | open: where p's end of the channel is
    shut,       \* shut[p]: close() was called
    opened, failed,  \* history: p's onopen ran; ICE told p it failed
    wire,       \* wire[p]: sent to p, not yet received
    sentTo,     \* history: sentTo[p]: all that was sent to p
    inbox       \* inbox[p]: history of what p's SyncInbox was given

plVars == <<socket, room, known, outbox, inq, st, step, dc, shut, opened, failed, wire, sentTo, inbox>>
sigVars == <<socket, room, known, outbox, inq>>
rtcVars == <<st, step, dc, shut, opened, failed, wire, sentTo, inbox>>

Each(v) == [p \in Peers |-> v]
Other(p) == CHOOSE q \in Peers : q # p

PlInit ==
    /\ socket = Each("none") /\ room = {} /\ known = Each({})
    /\ outbox = Each(<< >>) /\ inq = Each(<< >>)
    /\ st = Each("New") /\ step = Each("none") /\ dc = Each("none")
    /\ shut = Each(FALSE) /\ opened = Each(FALSE) /\ failed = Each(FALSE)
    /\ wire = Each(<< >>) /\ sentTo = Each(<< >>) /\ inbox = Each(<< >>)

-----------------------------------------------------------------------------
\* PeerState
can_become(s, n) ==
    <<s, n>> \in ({"New"} \X {"Connecting", "Connected", "Disconnected", "Failed"})
            \cup ({"Connecting"} \X {"Connected", "Disconnected", "Failed"})
            \cup ({"Connected"} \X {"Disconnected", "Failed"})
            \cup ({"Disconnected"} \X {"Connected", "Failed"})

\* Mutant: every event is obeyed.
become_from_eventAlways(s, n) == n
become_from_event(s, n) == IF can_become(s, n) THEN n ELSE s

from_ice_str(ice) ==
    CASE ice = "checking" -> "Connecting"
      [] ice = "connected" -> "Connected"
      [] ice = "failed" -> "Failed"
      [] OTHER -> "Disconnected"

-----------------------------------------------------------------------------
\* SignalingClient and the room
Join(p) ==
    /\ socket[p] = "none"
    /\ socket' = [socket EXCEPT ![p] = "open"]
    /\ outbox' = [outbox EXCEPT ![p] = <<[type |-> "join"]>>]
    /\ UNCHANGED <<room, known, inq>> /\ UNCHANGED rtcVars

\* A message from the room to the members of `to`
Told(q, to, msg) == [p \in Peers |-> IF p \in to THEN Append(q[p], msg) ELSE q[p]]

\* SignalingRoom's message handler
RoomHandles(p) ==
    /\ outbox[p] # << >>
    /\ outbox' = [outbox EXCEPT ![p] = Tail(@)]
    /\ LET m == Head(outbox[p]) IN
       IF m.type = "join"
       THEN /\ room' = room \cup {p}
            /\ inq' = Told(Told(inq, {p}, [type |-> "peers", peers |-> room \ {p}]),
                           room \ {p}, [type |-> "peer-joined", peer |-> p])
       ELSE /\ inq' = Told(inq, {m.to} \cap room, [type |-> m.type, from |-> p])
            /\ UNCHANGED room
    /\ UNCHANGED <<socket, known>> /\ UNCHANGED rtcVars

\* The page closes: what it had to say is lost, and the room hears of it.
Leave(p) ==
    /\ socket[p] = "open"
    /\ socket' = [socket EXCEPT ![p] = "closed"]
    /\ outbox' = [outbox EXCEPT ![p] = << >>]
    /\ UNCHANGED <<room, known, inq>> /\ UNCHANGED rtcVars

RoomSeesClose(p) ==
    /\ socket[p] = "closed" /\ p \in room
    /\ room' = room \ {p}
    /\ inq' = Told(inq, room \ {p}, [type |-> "peer-left", peer |-> p])
    /\ UNCHANGED <<socket, known, outbox>> /\ UNCHANGED rtcVars

\* SignalingClient::on_message, and the page's reaction to the event
on_message(p) ==
    /\ socket[p] = "open" /\ inq[p] # << >>
    /\ inq' = [inq EXCEPT ![p] = Tail(@)]
    /\ LET m == Head(inq[p]) IN
       /\ known' = [known EXCEPT ![p] = CASE m.type = "peers" -> m.peers
                                          [] m.type = "peer-joined" -> @ \cup {m.peer}
                                          [] m.type = "peer-left" -> @ \ {m.peer}
                                          [] OTHER -> @]
       /\ CASE m.type = "peers" /\ m.peers # {} /\ step[p] = "none" ->
                 \* WebRtcPeer::new, create_channels
                 /\ step' = [step EXCEPT ![p] = "created"]
                 /\ st' = [st EXCEPT ![p] = "Connecting"]
                 /\ dc' = [dc EXCEPT ![p] = "held"]
            [] m.type = "offer" /\ step[p] = "none" ->
                 /\ step' = [step EXCEPT ![p] = "offer"] /\ UNCHANGED <<st, dc>>
            [] m.type = "answer" /\ step[p] = "offered" ->
                 /\ step' = [step EXCEPT ![p] = "stable"] /\ UNCHANGED <<st, dc>>
            [] OTHER -> UNCHANGED <<step, st, dc>>
    /\ UNCHANGED <<socket, room, outbox, shut, opened, failed, wire, sentTo, inbox>>

-----------------------------------------------------------------------------
\* The awaits of create_offer and accept_offer
Say(p, type) ==
    outbox' = [outbox EXCEPT ![p] = IF socket[p] = "open"
                                    THEN Append(@, [type |-> type, to |-> Other(p)]) ELSE @]

create_offer(p) ==
    /\ step[p] = "created" /\ ~shut[p]
    /\ step' = [step EXCEPT ![p] = "offered"]
    /\ Say(p, "offer")
    /\ UNCHANGED <<socket, room, known, inq, st, dc, shut, opened, failed, wire, sentTo, inbox>>

\* set_remote_description resolved: ondatachannel is installed
InstallHandler(p) ==
    /\ step[p] = "offer" /\ ~shut[p]
    /\ step' = [step EXCEPT ![p] = "handler"]
    /\ UNCHANGED sigVars
    /\ UNCHANGED <<st, dc, shut, opened, failed, wire, sentTo, inbox>>

\* the answer is ready: the channels announced so far move into the struct
Answer(p) ==
    /\ step[p] = "handler" /\ ~shut[p]
    /\ step' = [step EXCEPT ![p] = "answered"]
    /\ st' = [st EXCEPT ![p] = become_from_event(@, "Connecting")]
    /\ Say(p, "answer")
    /\ UNCHANGED <<socket, room, known, inq, dc, shut, opened, failed, wire, sentTo, inbox>>

-----------------------------------------------------------------------------
\* Browser events
Live == \E p \in Peers : step[p] = "stable" /\ \A q \in Peers : ~shut[q]

\* ondatachannel stores the entry in the closure's own vector, which nobody
\* drains after accept_offer has returned
OnDataChannel(p) ==
    /\ Live /\ step[p] \in {"handler", "answered"} /\ dc[p] = "none"
    /\ dc' = [dc EXCEPT ![p] = IF step[p] = "handler" THEN "held" ELSE "lost"]
    /\ UNCHANGED sigVars
    /\ UNCHANGED <<st, step, shut, opened, failed, wire, sentTo, inbox>>

OnOpen(p) ==
    /\ Live /\ dc[p] \in {"held", "lost"} /\ ~opened[p]
    /\ dc' = [dc EXCEPT ![p] = IF @ = "held" THEN "open" ELSE @]
    /\ st' = [st EXCEPT ![p] = become_from_event(@, "Connected")]
    /\ opened' = [opened EXCEPT ![p] = TRUE]
    /\ UNCHANGED sigVars
    /\ UNCHANGED <<step, shut, failed, wire, sentTo, inbox>>

IceStates(p) ==
    (IF step[p] \in {"offered", "handler", "answered", "stable"}
     THEN {"checking", "disconnected", "failed"} ELSE {})
    \cup (IF Live THEN {"connected"} ELSE {})

OnIceStateChange(p, ice) ==
    /\ step[p] # "none" /\ ~shut[p]
    /\ ice \in IceStates(p)
    /\ st' = [st EXCEPT ![p] = become_from_event(@, from_ice_str(ice))]
    /\ failed' = [failed EXCEPT ![p] = @ \/ ice = "failed"]
    /\ UNCHANGED sigVars
    /\ UNCHANGED <<step, dc, shut, opened, wire, sentTo, inbox>>

\* send_on: the first open channel of the struct; without one the data is
\* dropped and the call still succeeds
send_on(p) ==
    /\ Len(sentTo[Other(p)]) < MaxData
    /\ dc[p] = "open" /\ ~shut[p]
    /\ LET n == Len(sentTo[Other(p)]) + 1 IN
       /\ wire' = [wire EXCEPT ![Other(p)] = Append(@, n)]
       /\ sentTo' = [sentTo EXCEPT ![Other(p)] = Append(@, n)]
    /\ UNCHANGED sigVars
    /\ UNCHANGED <<st, step, dc, shut, opened, failed, inbox>>

OnMessageEvent(p) ==
    /\ wire[p] # << >> /\ ~shut[p] /\ dc[p] # "none"
    /\ inbox' = [inbox EXCEPT ![p] = Append(@, Head(wire[p]))]
    /\ wire' = [wire EXCEPT ![p] = Tail(@)]
    /\ UNCHANGED sigVars
    /\ UNCHANGED <<st, step, dc, shut, opened, failed, sentTo>>

close(p) ==
    /\ step[p] # "none" /\ ~shut[p]
    /\ shut' = [shut EXCEPT ![p] = TRUE]
    /\ st' = [st EXCEPT ![p] = "Disconnected"]
    /\ dc' = [dc EXCEPT ![p] = "none"]
    /\ wire' = Each(<< >>)
    /\ UNCHANGED sigVars
    /\ UNCHANGED <<step, opened, failed, sentTo, inbox>>

PlNext ==
    \E p \in Peers :
        \/ Join(p) \/ RoomHandles(p) \/ Leave(p) \/ RoomSeesClose(p) \/ on_message(p)
        \/ create_offer(p) \/ InstallHandler(p) \/ Answer(p)
        \/ OnDataChannel(p) \/ OnOpen(p) \/ send_on(p) \/ OnMessageEvent(p) \/ close(p)
        \/ \E ice \in {"checking", "connected", "disconnected", "failed"} : OnIceStateChange(p, ice)

PlSpec == PlInit /\ [][PlNext]_plVars

-----------------------------------------------------------------------------
SignallingIdle ==
    \A p \in Peers : /\ outbox[p] = << >> /\ (socket[p] = "open" => inq[p] = << >>)
                     /\ (socket[p] = "closed" => p \notin room)

\* Once the room has nothing more to tell, every client in it knows exactly
\* the others; whatever order browser events come in, a peer that failed
\* stays failed, one whose channel opened is not connecting again, one that
\* closed stays closed; and a peer reads what the other sent, in order.
LinkSound ==
    /\ SignallingIdle => \A p \in room : known[p] = room \ {p}
    /\ \A p \in Peers :
          /\ shut[p] => st[p] = "Disconnected"
          /\ failed[p] /\ ~shut[p] => st[p] = "Failed"
          /\ opened[p] => st[p] \notin {"New", "Connecting"}
          /\ IsPrefix(inbox[p], sentTo[p])

=============================================================================
