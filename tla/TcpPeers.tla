------------------------------ MODULE TcpPeers ------------------------------
(***************************************************************************)
(* The TCP mesh of transfer333 (333-transfer/src/tcp.rs, and the dialling  *)
(* half of bin/node.rs): sessions, their reader threads, and write_all,    *)
(* which demotes, redials, reaps and fans out.                             *)
(*                                                                         *)
(* A connection joins two processes and is open while both hold it: a      *)
(* session and the reader thread it was given each hold one end, and a     *)
(* session that is replaced leaves its reader behind. Readers and the      *)
(* listener run between any two steps of a send. A connection may fail a   *)
(* process although it is open: a write times out (configure_stream), or   *)
(* a timeout inside a frame leaves the reader with bytes that are none.    *)
(***************************************************************************)
EXTENDS Integers, FiniteSets

CONSTANTS
    Addrs,        \* listen addresses, ordered integers: one process each
    MaxRestart,   \* bound on process stops
    MaxFaults,    \* bound on failures of open connections
    MaxConn       \* bound on connections

VARIABLES
    inc,      \* inc[a]: incarnation of the process at a, 0 while it is down
    conns,    \* conns[c]: the connection numbered c
    peers,    \* peers[a]: its PeerSessions
    readers,  \* <<a, c>>: the reader thread of connection c at a runs
    send,     \* send[a]: where its write_all is
    stops,    \* processes stopped so far
    faults,   \* open connections that failed so far
    illegal   \* whether a session made a transition its table forbids

tcpVars == <<inc, conns, peers, readers, send, stops, faults, illegal>>

States == {"Live", "Suspect", "Dead"}
can_become(s, t) == <<s, t>> \in {<<"Live", "Suspect">>, <<"Suspect", "Live">>,
                                  <<"Suspect", "Dead">>, <<"Dead", "Live">>}

Idle == [phase |-> "idle", todo |-> {}]
Up(a) == inc[a] > 0
Sessions(a) == {s.conn : s \in peers[a]}
Ends(c) == {conns[c].from, conns[c].to}

\* A process holds its end: in the listener's queue, in a session or in a reader.
Holds(a, c) == LET k == conns[c] IN
    /\ inc[a] = IF a = k.from THEN k.fromInc ELSE k.toInc
    /\ \/ a = k.to /\ ~k.accepted
       \/ c \in Sessions(a) \/ <<a, c>> \in readers
Open(c) == \A a \in Ends(c) : Holds(a, c)
NextConn == Cardinality(DOMAIN conns) + 1

\* One entry of peers: the connection, the address to redial (0 for an
\* accepted session), the flag shared with the reader, the state.
PeerSession(c, redial) == [conn |-> c, redial |-> redial, alive |-> TRUE, state |-> "Live"]

TcpInit ==
    /\ inc = [a \in Addrs |-> 0]
    /\ conns = <<>>
    /\ peers = [a \in Addrs |-> {}]
    /\ readers = {}
    /\ send = [a \in Addrs |-> Idle]
    /\ stops = 0
    /\ faults = 0
    /\ illegal = FALSE

\* transition: a suspect session is flagged dead as well.
Become(s, t) == [s EXCEPT !.state = t, !.alive = @ /\ t # "Suspect"]

Replace(a, s, ss) == [peers EXCEPT ![a] = (@ \ {s}) \cup ss]

-----------------------------------------------------------------------------
\* bind_at: a process starts listening.
Bind(a) ==
    /\ ~Up(a)
    /\ inc' = [inc EXCEPT ![a] = stops + 1]
    /\ UNCHANGED <<conns, peers, readers, send, stops, faults, illegal>>

\* The process ends, with its sessions and the send it was in.
Shutdown(a) ==
    /\ Up(a) /\ stops < MaxRestart
    /\ inc' = [inc EXCEPT ![a] = 0]
    /\ peers' = [peers EXCEPT ![a] = {}]
    /\ readers' = {r \in readers : r[1] # a}
    /\ send' = [send EXCEPT ![a] = Idle]
    /\ stops' = stops + 1
    /\ UNCHANGED <<conns, faults, illegal>>

\* A new connection and the dialler's reader of it (dialed_session).
Connected(a, b) ==
    /\ readers' = readers \cup {<<a, NextConn>>}
    /\ conns' = [c \in DOMAIN conns \cup {NextConn} |->
                   IF c = NextConn
                   THEN [from |-> a, to |-> b, fromInc |-> inc[a], toInc |-> inc[b],
                         accepted |-> FALSE]
                   ELSE conns[c]]

\* The half mesh: only greater addresses are dialled, and only when no session
\* or tombstone remembers them.
MayDial(a, b) == a < b /\ \A s \in peers[a] : s.redial # b

\* connect_peer, at boot and every fifty rounds of the loop.
ConnectPeer(a, b) ==
    /\ Up(a) /\ Up(b) /\ send[a] = Idle
    /\ MayDial(a, b)
    /\ NextConn <= MaxConn
    /\ Connected(a, b)
    /\ peers' = [peers EXCEPT ![a] = @ \cup {PeerSession(NextConn, b)}]
    /\ UNCHANGED <<inc, send, stops, faults, illegal>>

\* The listener thread: an accepted stream is a write peer too, with a reader.
Accept(c) ==
    LET b == conns[c].to IN
    /\ inc[b] = conns[c].toInc /\ ~conns[c].accepted
    /\ conns' = [conns EXCEPT ![c].accepted = TRUE]
    /\ peers' = [peers EXCEPT ![b] = @ \cup {PeerSession(c, 0)}]
    /\ readers' = readers \cup {<<b, c>>}
    /\ UNCHANGED <<inc, send, stops, faults, illegal>>

\* The connection fails although it is open, or its other end is gone; and a fresh
\* one fails again.
Fails(c, again) ==
    /\ faults' = faults + (IF Open(c) THEN 1 ELSE 0) + again
    /\ faults' <= MaxFaults

\* The reader thread meets the end of the stream, or what is no frame, and ends.
ReaderEnds(a, c) ==
    /\ <<a, c>> \in readers /\ Fails(c, 0)
    /\ readers' = readers \ {<<a, c>>}
    /\ peers' = [peers EXCEPT ![a] = {IF s.conn = c THEN [s EXCEPT !.alive = FALSE] ELSE s : s \in @}]
    /\ UNCHANGED <<inc, conns, send, stops, illegal>>

-----------------------------------------------------------------------------
\* write_all takes the lock and visits every session once in each phase.
WriteAll(a) ==
    /\ Up(a) /\ send[a] = Idle /\ peers[a] # {}
    /\ send' = [send EXCEPT ![a] = [phase |-> "heal", todo |-> Sessions(a)]]
    /\ UNCHANGED <<inc, conns, peers, readers, stops, faults, illegal>>

Visited(a, s) == [send EXCEPT ![a].todo = @ \ {s.conn}]
Visiting(a, phase, s) ==
    send[a].phase = phase /\ s \in peers[a] /\ s.conn \in send[a].todo

\* The transition, and whether the assertion in `transition' would fail.
Panics(s, t) == illegal' = (illegal \/ ~can_become(s.state, t))

Demoted(s) == IF ~s.alive /\ s.state = "Live" THEN Become(s, "Suspect") ELSE s

\* Phase 1 on a live session.
HealLive(a, s) ==
    /\ Visiting(a, "heal", s)
    /\ Demoted(s).state = "Live"
    /\ send' = Visited(a, s)
    /\ UNCHANGED <<inc, conns, peers, readers, stops, faults, illegal>>

\* Phase 1: a dialled session is redialled once, and keeps its address.
HealRedial(a, s) ==
    /\ Visiting(a, "heal", s)
    /\ Demoted(s).state # "Live" /\ s.redial # 0
    /\ Up(s.redial) /\ NextConn <= MaxConn
    /\ Connected(a, s.redial)
    /\ peers' = Replace(a, s, {PeerSession(NextConn, s.redial)})
    /\ Panics(Demoted(s), "Live")
    /\ send' = Visited(a, s)
    /\ UNCHANGED <<inc, stops, faults>>

\* Phase 1: the redial fails; the tombstone stays.
HealFailed(a, s) ==
    /\ Visiting(a, "heal", s)
    /\ Demoted(s).state # "Live" /\ s.redial # 0
    /\ IF Demoted(s).state = "Suspect"
       THEN /\ peers' = Replace(a, s, {Become(Demoted(s), "Dead")})
            /\ Panics(Demoted(s), "Dead")
       ELSE UNCHANGED <<peers, illegal>>
    /\ send' = Visited(a, s)
    /\ UNCHANGED <<inc, conns, readers, stops, faults>>

\* Phase 1: a dead accepted session is reaped.
HealReap(a, s) ==
    /\ Visiting(a, "heal", s)
    /\ Demoted(s).state # "Live" /\ s.redial = 0
    /\ peers' = Replace(a, s, {})
    /\ Panics(Demoted(s), "Dead")
    /\ send' = Visited(a, s)
    /\ UNCHANGED <<inc, conns, readers, stops, faults>>

\* Between the phases.
StartFanout(a) ==
    /\ send[a].phase = "heal" /\ send[a].todo \cap Sessions(a) = {}
    /\ send' = [send EXCEPT ![a] = IF peers[a] = {} THEN Idle
                                   ELSE [phase |-> "fanout", todo |-> Sessions(a)]]
    /\ UNCHANGED <<inc, conns, peers, readers, stops, faults, illegal>>

\* Phase 2: a flagged session is demoted and skipped; a write is accepted, if
\* only by the kernel's buffer.
Write(a, s) ==
    /\ Visiting(a, "fanout", s)
    /\ peers' = Replace(a, s, {Demoted(s)})
    /\ send' = Visited(a, s)
    /\ UNCHANGED <<inc, conns, readers, stops, faults, illegal>>

\* Phase 2: the write fails. A dialled session is redialled and written to once
\* more, which may fail as well; the fresh session is kept either way.
WriteFails(a, s) ==
    LET sus == Become(s, "Suspect")
        fresh == PeerSession(NextConn, s.redial)
    IN
    /\ Visiting(a, "fanout", s)
    /\ s.alive /\ s.state = "Live"
    /\ \/ /\ s.redial = 0
          /\ peers' = Replace(a, s, {sus})
          /\ Panics(s, "Suspect") /\ Fails(s.conn, 0)
          /\ UNCHANGED <<conns, readers>>
       \/ /\ s.redial # 0
          /\ peers' = Replace(a, s, {Become(sus, "Dead")})
          /\ Panics(sus, "Dead") /\ Fails(s.conn, 0)
          /\ UNCHANGED <<conns, readers>>
       \/ /\ s.redial # 0 /\ Up(s.redial) /\ NextConn <= MaxConn
          /\ Connected(a, s.redial)
          /\ Panics(sus, "Live")
          /\ \/ peers' = Replace(a, s, {fresh}) /\ Fails(s.conn, 0)
             \/ peers' = Replace(a, s, {Become(fresh, "Suspect")}) /\ Fails(s.conn, 1)
    /\ send' = Visited(a, s)
    /\ UNCHANGED <<inc, stops>>

EndSend(a) ==
    /\ send[a].phase = "fanout" /\ send[a].todo \cap Sessions(a) = {}
    /\ send' = [send EXCEPT ![a] = Idle]
    /\ UNCHANGED <<inc, conns, peers, readers, stops, faults, illegal>>

TcpNext ==
    \/ \E a \in Addrs : Bind(a)
    \/ \E a \in Addrs : Shutdown(a)
    \/ \E a, b \in Addrs : ConnectPeer(a, b)
    \/ \E c \in DOMAIN conns : Accept(c)
    \/ \E a \in Addrs : \E c \in DOMAIN conns : ReaderEnds(a, c)
    \/ \E a \in Addrs : WriteAll(a)
    \/ \E a \in Addrs : \E s \in peers[a] : HealLive(a, s)
    \/ \E a \in Addrs : \E s \in peers[a] : HealRedial(a, s)
    \/ \E a \in Addrs : \E s \in peers[a] : HealFailed(a, s)
    \/ \E a \in Addrs : \E s \in peers[a] : HealReap(a, s)
    \/ \E a \in Addrs : StartFanout(a)
    \/ \E a \in Addrs : \E s \in peers[a] : Write(a, s)
    \/ \E a \in Addrs : \E s \in peers[a] : WriteFails(a, s)
    \/ \E a \in Addrs : EndSend(a)

TcpSpec == TcpInit /\ [][TcpNext]_tcpVars

-----------------------------------------------------------------------------
\* Whichever death signal comes first, and although reads and writes may fail on
\* an open connection, at the redial too: no session makes a transition outside
\* the table of PeerState, so no send ever panics (transition); a process has one
\* session, live or a tombstone, for each address it dials, and no tombstone of
\* an accepted one; and while no open connection has failed, one open session
\* carries a broadcast between two processes (the half mesh of connect_all). A
\* failed one leaves its other end in use beside the fresh session.
SessionsSound ==
    /\ ~illegal
    /\ \A a \in Addrs : \A s, t \in peers[a] :
          /\ s # t /\ s.redial # 0 => s.redial # t.redial
          /\ faults = 0 /\ s # t /\ Open(s.conn) /\ Open(t.conn) => Ends(s.conn) # Ends(t.conn)
    /\ \A a \in Addrs : \A s \in peers[a] : s.redial = 0 => s.state # "Dead"
=============================================================================
