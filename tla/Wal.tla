-------------------------------- MODULE Wal ---------------------------------
(***************************************************************************)
(* The segmented write-ahead log (substrate/crates/wal) and the event      *)
(* store on top of it (substrate/crates/ltdd/src/wal_store.rs).  A record  *)
(* is its sequence number and the event it carries; a segment is visible   *)
(* only with its fsynced header, so headers are not modelled.  Bytes that  *)
(* do not decode (a partial write, zero sectors) are one Torn record.      *)
(***************************************************************************)
EXTENDS Integers, Sequences, SequencesExt

CONSTANTS
    Events,         \* payloads, each shipped at most once
    SegmentSize,    \* records that fill a segment
    MaxCrashes      \* bound on power losses and failed writes and syncs

VARIABLES
    segs,      \* visible segments, oldest first: [no, first, recs, synced]
    named,     \* the directory entry of the last segment is on disk
    stuck,     \* a failed fdatasync left pages of the tail clean and off the disk
    misled,    \* history: an open took for durable what was not on disk
    husk,      \* a half built <name>.waltmp directory
    backup,    \* <dir>.walbak exists
    h,         \* the open handle, or NoHandle
    index,     \* WalStore: replayed events and those shipped since
    pending,   \* WalStore: a ship failed
    receipts,  \* history: events covered by a receipt
    freed,     \* history: events released by the owner
    crashes

walVars ==
    <<segs, named, stuck, misled, husk, backup, h, index, pending, receipts, freed, crashes>>

Torn == [seq |-> 0, event |-> "torn"]

NoHandle == [open |-> FALSE]
Fresh(next) ==
    [open |-> TRUE, next |-> next, last_synced |-> next - 1, dirty |-> FALSE,
     poisoned |-> FALSE, cut |-> "no"]

WalInit ==
    /\ segs = <<>> /\ named = TRUE
    /\ stuck = FALSE /\ misled = FALSE
    /\ husk = FALSE /\ backup = FALSE
    /\ h = NoHandle
    /\ index = <<>> /\ pending = FALSE
    /\ receipts = {} /\ freed = {}
    /\ crashes = 0

Segment(no, first) == [no |-> no, first |-> first, recs |-> <<>>, synced |-> 0]
TailSeg == Last(segs)
WithTail(s) == [segs EXCEPT ![Len(segs)] = s]

\* fdatasync writes dirty pages only: after a failed one the disk keeps its gap.
Synced == IF stuck THEN TailSeg ELSE [TailSeg EXCEPT !.synced = Len(TailSeg.recs)]

\* scan_segment: the whole records before the first that does not decode.
Whole(recs) == SelectInSeq(recs, LAMBDA r : r = Torn)
Scan(recs) == IF Whole(recs) = 0 THEN recs ELSE SubSeq(recs, 1, Whole(recs) - 1)
Cleaned == [TailSeg EXCEPT !.recs = Scan(@)]
Truncated == IF stuck THEN Cleaned ELSE [Cleaned EXCEPT !.synced = Len(Scan(TailSeg.recs))]

\* scan_all.
Replayed == FlattenSeq([i \in 1 .. Len(segs) |-> Scan(segs[i].recs)])
Payloads(recs) == [i \in 1 .. Len(recs) |-> recs[i].event]

\* What open() refuses: a gap in segments or entries, a sealed segment that
\* does not decode.
Contiguous ==
    /\ \A i \in 1 .. Len(segs) - 1 : Torn \notin Range(segs[i].recs)
    /\ \A i \in 1 .. Len(segs) : segs[i].no = segs[1].no + i - 1
    /\ \A i \in 1 .. Len(Replayed) : Replayed[i].seq = Replayed[1].seq + i - 1

Fails == crashes < MaxCrashes /\ crashes' = crashes + 1

\* create: everything is built in a husk that a rename publishes; a husk left
\* by a dead process is removed first.
CreateDies ==
    /\ segs = <<>> /\ ~h.open
    /\ husk' = TRUE
    /\ UNCHANGED <<segs, named, stuck, misled, backup, h, index, pending, receipts, freed, crashes>>

Create ==
    /\ segs = <<>> /\ ~h.open
    /\ husk' = FALSE
    /\ segs' = <<Segment(0, 0)>> /\ named' = TRUE /\ stuck' = FALSE
    /\ h' = Fresh(1)
    /\ index' = <<>> /\ pending' = FALSE
    /\ UNCHANGED <<misled, backup, receipts, freed, crashes>>

\* open: full replay, truncation of the torn suffix, sync_all of the tail.  The
\* directory is not synced, and what was replayed counts as durable.
Open ==
    /\ segs # <<>> /\ ~h.open
    /\ Contiguous
    /\ segs' = WithTail(Truncated)
    /\ h' = Fresh(IF Replayed = <<>> THEN 1 ELSE Last(Replayed).seq + 1)
    /\ index' = Payloads(Replayed) /\ pending' = FALSE
    /\ misled' = (misled \/ stuck \/ ~named)
    /\ UNCHANGED <<named, stuck, husk, backup, receipts, freed, crashes>>

\* sync_all fails, or the process dies before it: the tail is cut all the same.
OpenFails ==
    /\ segs # <<>> /\ ~h.open
    /\ Contiguous
    /\ Fails
    /\ segs' = WithTail(Cleaned)
    /\ stuck' \in {stuck, TRUE}
    /\ UNCHANGED <<named, misled, husk, backup, h, index, pending, receipts, freed>>

\* repair: a copy of every file, then open() and close().
Repair ==
    /\ segs # <<>> /\ ~h.open
    /\ Contiguous /\ ~backup
    /\ backup' = TRUE
    /\ segs' = WithTail(Truncated)
    /\ misled' = (misled \/ stuck \/ ~named)
    /\ UNCHANGED <<named, stuck, husk, h, index, pending, receipts, freed, crashes>>

Usable == h.open /\ ~h.poisoned
Idle == Usable /\ h.cut = "no"

\* ship of one event: append_inner; a full segment goes on to cut.
Ship(e) ==
    LET seg == [TailSeg EXCEPT !.recs = Append(@, [seq |-> h.next, event |-> e])]
        full == Len(seg.recs) >= SegmentSize
    IN /\ Idle /\ ~pending
       /\ \A r \in Range(Replayed) : r.event # e
       /\ e \notin receipts \cup freed
       /\ segs' = WithTail(seg)
       /\ h' = [h EXCEPT !.next = @ + 1, !.dirty = TRUE,
                         !.cut = IF full THEN "sync" ELSE "no"]
       /\ index' = IF full THEN index ELSE Append(index, e)
       /\ UNCHANGED <<named, stuck, misled, husk, backup, pending, receipts, freed, crashes>>

\* write_all fails part way: the handle is poisoned, the store holds the failure.
ShipFails ==
    /\ Idle /\ ~pending
    /\ Fails
    /\ segs' = WithTail([TailSeg EXCEPT !.recs = Append(@, Torn)])
    /\ h' = [h EXCEPT !.poisoned = TRUE]
    /\ pending' = TRUE
    /\ UNCHANGED <<named, stuck, misled, husk, backup, index, receipts, freed>>

\* append refuses up front, a poisoned handle or a record too large: the store
\* holds the failure, the handle is as it was.
ShipRefused ==
    /\ h.open /\ h.cut = "no" /\ ~pending
    /\ pending' = TRUE
    /\ UNCHANGED <<segs, named, stuck, misled, husk, backup, h, index, receipts, freed, crashes>>

\* cut, first half: the old tail is synced.
CutSync ==
    /\ Usable /\ h.cut = "sync"
    /\ segs' = WithTail(Synced)
    /\ h' = [h EXCEPT !.dirty = FALSE, !.last_synced = h.next - 1, !.cut = "rename"]
    /\ UNCHANGED <<named, stuck, misled, husk, backup, index, pending, receipts, freed, crashes>>

\* The new segment, complete under a .tmp name, is renamed ...
CutRename ==
    /\ Usable /\ h.cut = "rename"
    /\ segs' = Append(segs, Segment(TailSeg.no + 1, h.next))
    /\ named' = FALSE /\ stuck' = FALSE
    /\ h' = [h EXCEPT !.cut = "fsync"]
    /\ UNCHANGED <<misled, husk, backup, index, pending, receipts, freed, crashes>>

\* ... and the directory fsynced: append returns and the event is indexed.
CutDone ==
    /\ Usable /\ h.cut = "fsync"
    /\ named' = TRUE
    /\ h' = [h EXCEPT !.cut = "no"]
    /\ index' = Append(index, Last(segs[Len(segs) - 1].recs).event)
    /\ UNCHANGED <<segs, stuck, misled, husk, backup, pending, receipts, freed, crashes>>

\* One of the cut's calls fails: the record stays written, ship reports failure.
CutFails ==
    /\ Usable /\ h.cut # "no"
    /\ Fails
    /\ h' = [h EXCEPT !.poisoned = TRUE, !.cut = "no"]
    /\ pending' = TRUE
    /\ stuck' \in {stuck, stuck \/ h.cut = "sync"}
    /\ UNCHANGED <<segs, named, misled, husk, backup, index, receipts, freed>>

\* sync, externalize: refused while a failure is held.
Sync ==
    /\ Idle /\ ~pending
    /\ segs' = IF h.dirty THEN WithTail(Synced) ELSE segs
    /\ h' = IF h.dirty THEN [h EXCEPT !.dirty = FALSE, !.last_synced = h.next - 1] ELSE h
    /\ receipts' = receipts \cup Range(index)
    /\ UNCHANGED <<named, stuck, misled, husk, backup, index, pending, freed, crashes>>

\* Mutant: the handle stays usable after a failed sync.
SyncFailsUnpoisoned ==
    /\ Idle /\ ~pending /\ h.dirty
    /\ Fails
    /\ stuck' \in {stuck, TRUE}
    /\ UNCHANGED <<segs, named, misled, husk, backup, h, index, pending, receipts, freed>>

\* A failed fdatasync may mark pages clean that never reached the disk.
SyncFails ==
    /\ Idle /\ ~pending /\ h.dirty
    /\ Fails
    /\ h' = [h EXCEPT !.poisoned = TRUE]
    /\ stuck' \in {stuck, TRUE}
    /\ UNCHANGED <<segs, named, misled, husk, backup, index, pending, receipts, freed>>

\* release_older: sealed segments whose successor starts at upto + 1 or before,
\* oldest first, the directory fsynced after each; the process may die, or the
\* call fail, after any of them.
Removable(upto) ==
    {i \in 1 .. Len(segs) - 1 : \A j \in 1 .. i : segs[j + 1].first <= upto + 1}

ReleaseOlder(upto, gone) ==
    LET n == Len(segs)
        all == \A i \in Removable(upto) : i <= gone
        kept == SubSeq(segs, gone + 1, n)
    IN /\ Idle
       /\ gone \in Removable(upto)
       /\ segs' = kept
       /\ freed' = freed \cup {r.event : r \in {q \in Range(Replayed) : q.seq <= upto}}
       /\ named' = TRUE
       /\ h' = h \/ (~all /\ h' = NoHandle)
       /\ UNCHANGED <<stuck, misled, husk, backup, index, pending, receipts, crashes>>

\* Drop: a last sync unless poisoned.
Close ==
    /\ h.open /\ h.cut = "no"
    /\ segs' = IF h.poisoned THEN segs ELSE WithTail(Synced)
    /\ h' = NoHandle
    /\ UNCHANGED <<named, stuck, misled, husk, backup, index, pending, receipts, freed, crashes>>

\* That sync fails, and nobody is told.
CloseFails ==
    /\ Idle /\ h.dirty
    /\ Fails
    /\ stuck' \in {stuck, TRUE}
    /\ h' = NoHandle
    /\ UNCHANGED <<segs, named, misled, husk, backup, index, pending, receipts, freed>>

\* The process dies and the page cache survives.
Kill ==
    /\ h.open
    /\ h' = NoHandle
    /\ UNCHANGED <<segs, named, stuck, misled, husk, backup, index, pending, receipts, freed, crashes>>

\* Power fails: a directory entry that was not synced may be lost with its
\* file, and of a segment's unsynced records any suffix.
Left(s) ==
    UNION {{[s EXCEPT !.recs = SubSeq(@, 1, k) \o debris] :
               debris \in IF k < Len(s.recs) THEN {<<>>, <<Torn>>} ELSE {<<>>}} :
           k \in s.synced .. Len(s.recs)}

PowerLoss ==
    /\ segs # <<>>
    /\ Fails
    /\ \E survives \in {TRUE, named} :
         LET disk == IF survives THEN segs ELSE Front(segs)
         IN \E found \in [1 .. Len(disk) -> UNION {Left(disk[i]) : i \in 1 .. Len(disk)}] :
              /\ \A i \in 1 .. Len(disk) : found[i] \in Left(disk[i])
              /\ segs' = found
    /\ named' = TRUE /\ stuck' = FALSE
    /\ h' = NoHandle
    /\ UNCHANGED <<misled, husk, backup, index, pending, receipts, freed>>

WalNext ==
    \/ CreateDies \/ Create \/ Open \/ OpenFails \/ Repair
    \/ \E e \in Events : Ship(e)
    \/ ShipFails \/ ShipRefused \/ CutSync \/ CutRename \/ CutDone \/ CutFails
    \/ Sync \/ SyncFails
    \/ \E upto \in 0 .. (IF h.open THEN h.next ELSE 0), gone \in 1 .. Len(segs) : ReleaseOlder(upto, gone)
    \/ Close \/ CloseFails \/ Kill \/ PowerLoss

WalSpec == WalInit /\ [][WalNext]_walVars

-----------------------------------------------------------------------------
\* The log as its owner sees it: events a replay returns, those some receipt
\* covers and nobody released.
AbstractLog == Payloads(Replayed)
AbstractAcked == receipts \ freed

Abstract == INSTANCE DurableLog WITH
    Records <- Events, log <- AbstractLog, acked <- AbstractAcked, freed <- freed

\* The segmented log implements the durable log: order, loss of an unsynced
\* suffix only, release of unwanted prefixes only (wal: append, cut, sync,
\* open, release_older; WalStore: ship, sync).  No receipt outlives a failed
\* sync in a handle; a log opened again before the power fails over pages or a
\* name that a failed or missing sync left off the disk is no longer vouched for.
ImplementsLog ==
    Abstract!DlInit /\ [][misled' \/ Abstract!DlNext]_(Abstract!dlVars)
=============================================================================
