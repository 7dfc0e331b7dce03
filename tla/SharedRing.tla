---- MODULE SharedRing ----
(* The ring of 333-platform/src/wasm/shared.rs: tabs that share one
   SharedArrayBuffer push frames into it and pop frames out of it with nothing but
   atomic loads, compare-and-swap on two cursors and a counter of pushes. Every
   atomic operation and every access to a cell is a step of its own, so the calls
   of all tabs interleave as the browser's threads do.

   A cell of the model is a header word (length, checksum) or one payload byte;
   the code's header words are four bytes each. The checksum is a number that
   tells apart the payloads of the instance, as XOR with a seed does for payloads
   of one word. *)
EXTENDS Integers, Sequences, SequencesExt, FiniteSetsExt

CONSTANTS Producers, Consumers,
          RingBytes,   \* capacity of the ring, in cells
          CursorMod,   \* cursors wrap here: 2^32 in the code
          Bytes,       \* a producer pushes a frame of one of these
          Laps,        \* frames that filled the ring, pushed and popped before
          MaxPush,     \* pushes of a behaviour
          MaxRetries   \* MAX_CAS_RETRIES

VARIABLES write, read, epoch, \* the control words
          ring,               \* the cells
          prod,               \* producer -> its call of push
          cons,               \* consumer -> its call of pop
          reserved,           \* payloads in the order their pushes took their place
          received            \* payloads pops have returned, in the order of their CAS

ringVars == <<write, read, epoch, ring, prod, cons, reserved, received>>

FrameHeader == 2
Seed == 7

\* compute_checksum.
compute_checksum(data) ==
  Seed + SumSet({data[i] * 10 ^ i : i \in DOMAIN data})

Frame(data) == <<Len(data), compute_checksum(data)>> \o data
Needed(data) == FrameHeader + Len(data)
Cell(position, i) == ((position % RingBytes) + i) % RingBytes
Ahead(a, b) == (a - b) % CursorMod

Idle == [pc |-> "idle"]

\* The payload of a frame that fills the ring.
LastLap == [i \in 1..(RingBytes - FrameHeader) |-> 1 + (i % 2)]

\* A ring that has been in use: the cells still hold the last frame popped.
RingInit ==
  /\ write = (Laps * RingBytes) % CursorMod
  /\ read = write
  /\ epoch = Laps
  /\ ring = [c \in 0..(RingBytes - 1) |-> Frame(LastLap)[c + 1]]
  /\ prod = [p \in Producers |-> Idle]
  /\ cons = [c \in Consumers |-> Idle]
  /\ reserved = <<>>
  /\ received = <<>>

----
(* push. *)
Pushing(p) == prod[p]
Pushes(p, call) == prod' = [prod EXCEPT ![p] = call]

\* A call begins with its first load of the write cursor.
Push(p, data) ==
  /\ Pushing(p).pc = "idle"
  /\ Len(reserved) + Quantify(Producers, LAMBDA q : Pushing(q).pc \in {"load", "room", "reserve"}) < MaxPush
  /\ Needed(data) <= RingBytes
  /\ Pushes(p, [pc |-> "room", data |-> data, tries |-> MaxRetries, at |-> write])
  /\ UNCHANGED <<write, read, epoch, ring, cons, reserved, received>>

PushLoadsWrite(p) ==
  /\ Pushing(p).pc = "load"
  /\ Pushes(p, [pc |-> "room", data |-> Pushing(p).data, tries |-> Pushing(p).tries, at |-> write])
  /\ UNCHANGED <<write, read, epoch, ring, cons, reserved, received>>

\* The read cursor is loaded after the write cursor; a full ring ends the call.
PushLoadsRead(p) ==
  /\ Pushing(p).pc = "room"
  /\ Pushes(p, IF Ahead(Pushing(p).at, read) + Needed(Pushing(p).data) > RingBytes
               THEN Idle ELSE [Pushing(p) EXCEPT !.pc = "reserve"])
  /\ UNCHANGED <<write, read, epoch, ring, cons, reserved, received>>

\* The place is taken before anything is written to it.
Reserve(p) ==
  LET call == Pushing(p) IN
  /\ call.pc = "reserve"
  /\ IF write = call.at
     THEN /\ write' = (write + Needed(call.data)) % CursorMod
          /\ reserved' = Append(reserved, call.data)
          /\ Pushes(p, [pc |-> "write", data |-> call.data, at |-> call.at, next |-> 0])
     ELSE /\ Pushes(p, IF call.tries = 1 THEN Idle
                       ELSE [pc |-> "load", data |-> call.data, tries |-> call.tries - 1])
          /\ UNCHANGED <<write, reserved>>
  /\ UNCHANGED <<read, epoch, ring, cons, received>>

\* Length, checksum and payload, cell by cell.
WriteCell(p) ==
  LET call == Pushing(p) IN
  /\ call.pc = "write"
  /\ call.next < Needed(call.data)
  /\ ring' = [ring EXCEPT ![Cell(call.at, call.next)] = Frame(call.data)[call.next + 1]]
  /\ Pushes(p, [call EXCEPT !.next = @ + 1])
  /\ UNCHANGED <<write, read, epoch, cons, reserved, received>>

PushDone(p) ==
  /\ Pushing(p).pc = "write"
  /\ Pushing(p).next = Needed(Pushing(p).data)
  /\ epoch' = epoch + 1
  /\ Pushes(p, Idle)
  /\ UNCHANGED <<write, read, ring, cons, reserved, received>>

----
(* pop. *)
Popping(c) == cons[c]
Pops(c, call) == cons' = [cons EXCEPT ![c] = call]
Again(c) == IF Popping(c).tries = 1 THEN Idle ELSE [pc |-> "load", tries |-> Popping(c).tries - 1]

Pop(c) ==
  /\ Popping(c).pc = "idle"
  /\ Pops(c, [pc |-> "bound", tries |-> MaxRetries, at |-> read])
  /\ UNCHANGED <<write, read, epoch, ring, prod, reserved, received>>

PopLoadsRead(c) ==
  /\ Popping(c).pc = "load"
  /\ Pops(c, [pc |-> "bound", tries |-> Popping(c).tries, at |-> read])
  /\ UNCHANGED <<write, read, epoch, ring, prod, reserved, received>>

PopLoadsWrite(c) ==
  /\ Popping(c).pc = "bound"
  /\ Pops(c, IF write = Popping(c).at THEN Idle
             ELSE [pc |-> "before", tries |-> Popping(c).tries, at |-> Popping(c).at, end |-> write])
  /\ UNCHANGED <<write, read, epoch, ring, prod, reserved, received>>

PopLoadsEpoch(c) ==
  /\ Popping(c).pc = "before"
  /\ Pops(c, [pc |-> "cells", tries |-> Popping(c).tries, at |-> Popping(c).at,
              end |-> Popping(c).end, epoch |-> epoch, got |-> <<>>])
  /\ UNCHANGED <<write, read, epoch, ring, prod, reserved, received>>

Missing(call) ==
  IF call.got = <<>> THEN 1 ELSE FrameHeader + call.got[1] - Len(call.got)

\* A length no frame can have: everything up to the write cursor seen is given up.
Absurd(call) == call.got # <<>> /\ call.got[1] > RingBytes - FrameHeader

ReadCell(c) ==
  LET call == Popping(c) IN
  /\ call.pc = "cells" /\ ~Absurd(call) /\ Missing(call) > 0
  /\ Pops(c, [call EXCEPT !.got = Append(@, ring[Cell(call.at, Len(@))])])
  /\ UNCHANGED <<write, read, epoch, ring, prod, reserved, received>>

GiveUp(c) ==
  LET call == Popping(c) IN
  /\ call.pc = "cells" /\ Absurd(call)
  /\ read' = IF read = call.at THEN call.end ELSE read
  /\ Pops(c, Idle)
  /\ UNCHANGED <<write, epoch, ring, prod, reserved, received>>

PopChecksEpoch(c) ==
  LET call == Popping(c) IN
  /\ call.pc = "cells" /\ ~Absurd(call) /\ Missing(call) = 0
  /\ Pops(c, IF epoch # call.epoch THEN Again(c)
             ELSE [pc |-> "take", tries |-> call.tries, at |-> call.at, got |-> call.got])
  /\ UNCHANGED <<write, read, epoch, ring, prod, reserved, received>>

\* compare_exchange on the read cursor.
Won(call) == read = call.at

\* A frame whose checksum fails is stepped over, one whose checksum holds is
\* returned; both by CAS, and a lost CAS starts the loop again.
Take(c) ==
  LET call == Popping(c)
      data == SubSeq(call.got, FrameHeader + 1, Len(call.got))
      sound == compute_checksum(data) = call.got[2]
  IN /\ call.pc = "take"
     /\ read' = IF Won(call) THEN (call.at + Needed(data)) % CursorMod ELSE read
     /\ received' = IF sound /\ Won(call) THEN Append(received, data) ELSE received
     /\ Pops(c, IF sound /\ Won(call) THEN Idle ELSE Again(c))
     /\ UNCHANGED <<write, epoch, ring, prod, reserved>>

RingNext ==
  \/ \E p \in Producers :
       \/ \E b \in Bytes : Push(p, <<b>>)
       \/ PushLoadsWrite(p) \/ PushLoadsRead(p) \/ Reserve(p) \/ WriteCell(p) \/ PushDone(p)
  \/ \E c \in Consumers :
       \/ Pop(c) \/ PopLoadsRead(c) \/ PopLoadsWrite(c) \/ PopLoadsEpoch(c)
       \/ ReadCell(c) \/ GiveUp(c) \/ PopChecksEpoch(c) \/ Take(c)

RingSpec == RingInit /\ [][RingNext]_ringVars

----
(* What the ring claims of itself (shared.rs:26, :55): pops return the frames in the
   order their pushes took their places, none twice and none lost, and the cursors
   enclose exactly the frames still to be popped, whatever tabs interleave (push,
   pop). *)
FramesDelivered ==
  /\ IsPrefix(received, reserved)
  /\ LET waiting == SubSeq(reserved, Len(received) + 1, Len(reserved))
         cells == FoldSeq(LAMBDA data, n : Needed(data) + n, 0, waiting)
     IN Ahead(write, read) = cells /\ cells <= RingBytes

====
