---------------------------- MODULE FileJournal ----------------------------
(***************************************************************************)
(* The write-ahead file under an authority (333-transfer/src/journal.rs,   *)
(* mod file), step by step between system calls: open, claim, header,      *)
(* torn-tail truncation, bind, replay, append + fsync, and compaction by   *)
(* rename, run by one or two overlapping processes that are killed at any  *)
(* point, on a file system that loses unsynced data when the power fails.  *)
(*                                                                         *)
(* A file is a sequence of cells: the magic, the identity block, whole     *)
(* frames, and cells that are no frame: "torn" (a short or zero-filled     *)
(* tail) and "bad" (a complete frame with a wrong checksum).  Only lock    *)
(* records and snapshots of locks are kept: the other records are folded   *)
(* in module Authority, and share the frame format.                        *)
(***************************************************************************)
EXTENDS Naturals, SequencesExt

CONSTANTS
    Procs,        \* processes started over this journal, one or overlapping
    Orders,       \* orders presented for a vote: [slot, id]
    MaxInode,     \* bound: files ever created at the journal's path
    Deployments   \* what may be deployed: which processes overlap, whether the
                  \* owner compacts, whether the machine may lose power, and
                  \* whether the journal is new or was created earlier

Inodes == 1..MaxInode
NoProc == "none"

VARIABLES
    deploy,     \* the deployment this behaviour is about
    file,       \* file[i]: contents of inode i as every process reads them
    safe,       \* safe[i]: the part of it that has been synced
    path,       \* inode at the journal's path, 0 if there is none
    safe_path,  \* what the directory on disk is known to hold there
    held,       \* held[i]: the process with the exclusive lock on inode i
    proc,       \* proc[p]: program counter and memory of process p
    acked       \* locks whose append returned Ok

fjVars == <<deploy, file, safe, path, safe_path, held, proc, acked>>
disk == <<file, safe, path, safe_path>>

(***************************************************************************)
(* Frames                                                                  *)
(***************************************************************************)
Magic    == [tag |-> "magic"]
Identity == [tag |-> "identity"]
Torn     == [tag |-> "torn"]
Bad      == [tag |-> "bad"]
Locked(o)   == [tag |-> "locked", order |-> o]
Snapshot(S) == [tag |-> "snapshot", locked |-> S]

IsFrame(c) == c.tag \in {"locked", "snapshot"}

HasMagic(f) == IF f = <<>> THEN FALSE ELSE f[1] = Magic

\* read_body: what follows magic and identity, nothing if they are not there.
read_body(f) == IF Len(f) < 2 THEN <<>> ELSE SubSeq(f, 3, Len(f))

\* scan: leading whole frames; a tear ends the log, anything else is an error.
good_prefix_len(b) ==
    CHOOSE n \in 0..Len(b) :
        /\ \A i \in 1..n : IsFrame(b[i])
        /\ n = Len(b) \/ ~IsFrame(b[n + 1])

Corrupt(b) ==
    LET n == good_prefix_len(b) IN n < Len(b) /\ b[n + 1].tag # "torn"

decode_records(b) == SubSeq(b, 1, good_prefix_len(b))

\* The lock table recover() folds from the records; a snapshot replaces it.
Fold(records) ==
    FoldLeft(LAMBDA S, r : IF r.tag = "snapshot" THEN r.locked
                           ELSE {o \in S : o.slot # r.order.slot} \cup {r.order},
             {}, records)

Recovered(f) == Fold(decode_records(read_body(f)))

(***************************************************************************)
(* Processes                                                               *)
(***************************************************************************)
Idle == [pc |-> "down", existed |-> FALSE, ino |-> 0, new |-> 0,
         locked |-> {}, order |-> {}, poisoned |-> FALSE]

FjInit ==
    /\ deploy \in Deployments
    /\ path = IF deploy.fresh THEN 0 ELSE 1
    /\ safe_path = path
    /\ file = [i \in Inodes |-> IF i = path THEN <<Magic, Identity>> ELSE <<>>]
    /\ safe = file
    /\ held = [i \in Inodes |-> NoProc]
    /\ proc = [p \in Procs |-> Idle]
    /\ acked = {}

At(p, pc) == p \in deploy.procs /\ proc[p].pc = pc
Goto(p, pc) == proc' = [proc EXCEPT ![p].pc = pc]
Exit(p) ==
    /\ proc' = [proc EXCEPT ![p] = Idle]
    /\ held' = [i \in Inodes |-> IF held[i] = p THEN NoProc ELSE held[i]]

\* The lowest inode with no name and no handle; compact's temporary name does
\* not count, it is truncated whenever it is opened.
Unused(i) == i \notin {path, safe_path} /\ \A p \in Procs : i \notin {proc[p].ino, proc[p].new}
Fresh(i) == Unused(i) /\ \A j \in 1..(i - 1) : ~Unused(j)

Write(i, cells) == file' = [file EXCEPT ![i] = @ \o cells]

\* fsync of p's handle, then on to pc.
Sync(p, from, to) ==
    /\ At(p, from)
    /\ safe' = [safe EXCEPT ![proc[p].ino] = file[proc[p].ino]]
    /\ Goto(p, to)
    /\ UNCHANGED <<deploy, file, path, safe_path, held, acked>>

(***************************************************************************)
(* FileJournal::open                                                       *)
(***************************************************************************)
Exists(p) ==
    /\ At(p, "down")
    /\ proc' = [proc EXCEPT ![p].pc = "open", ![p].existed = (path # 0)]
    /\ UNCHANGED <<deploy, disk, held, acked>>

\* O_CREAT.  The name of a file created here is durable with its first fsync.
OpenFile(p) ==
    /\ At(p, "open")
    /\ \/ /\ path # 0
          /\ proc' = [proc EXCEPT ![p].pc = "claim", ![p].ino = path]
          /\ UNCHANGED disk
       \/ /\ path = 0
          /\ \E i \in Inodes :
                /\ Fresh(i)
                /\ path' = i /\ safe_path' = i
                /\ file' = [file EXCEPT ![i] = <<>>]
                /\ safe' = [safe EXCEPT ![i] = <<>>]
                /\ proc' = [proc EXCEPT ![p].pc = "claim", ![p].ino = i]
    /\ UNCHANGED <<deploy, held, acked>>

\* try_lock on the inode that was opened.
Claim(p) ==
    /\ At(p, "claim")
    /\ \/ /\ held[proc[p].ino] = NoProc
          /\ held' = [held EXCEPT ![proc[p].ino] = p]
          /\ Goto(p, IF proc[p].existed THEN "check_magic" ELSE "write_magic")
       \/ held[proc[p].ino] # NoProc /\ Exit(p)
    /\ UNCHANGED <<deploy, disk, acked>>

\* A new file gets its magic, or a part of it before the write fails.
WriteMagic(p) ==
    /\ At(p, "write_magic")
    /\ \/ Write(proc[p].ino, <<Magic>>) /\ Goto(p, "sync_magic") /\ UNCHANGED held
       \/ Write(proc[p].ino, <<Torn>>) /\ Exit(p)
    /\ UNCHANGED <<deploy, safe, path, safe_path, acked>>

\* An existing file is read by name, not through the claimed handle.
CheckMagic(p) ==
    /\ At(p, "check_magic")
    /\ \/ HasMagic(file[path]) /\ Goto(p, "truncate") /\ UNCHANGED held
       \/ ~HasMagic(file[path]) /\ Exit(p)
    /\ UNCHANGED <<deploy, disk, acked>>

\* set_len cuts a file, or extends it with zeros.
Resized(f, n) == IF n <= Len(f) THEN SubSeq(f, 1, n) ELSE Append(f, Torn)

\* truncate_torn_tail: only a tear is cut, corruption is left for replay.
TruncateTornTail(p) ==
    LET body == read_body(file[path])
        tear == ~Corrupt(body) /\ good_prefix_len(body) < Len(body) IN
    /\ At(p, "truncate")
    /\ \/ /\ tear
          /\ file' = [file EXCEPT ![proc[p].ino] =
                         Resized(@, 2 + good_prefix_len(body))]
          /\ Goto(p, "sync_truncate")
       \/ ~tear /\ Goto(p, "bind") /\ UNCHANGED file
    /\ UNCHANGED <<deploy, safe, path, safe_path, held, acked>>

(***************************************************************************)
(* bind and replay, called by Authority::recover                           *)
(***************************************************************************)
Bind(p) ==
    /\ At(p, "bind")
    /\ \/ /\ Len(file[path]) = 1
          /\ \/ Write(proc[p].ino, <<Identity>>) /\ Goto(p, "sync_identity") /\ UNCHANGED held
             \/ Write(proc[p].ino, <<Torn>>) /\ Exit(p)
       \/ /\ Len(file[path]) >= 2 /\ file[path][2] = Identity
          /\ Goto(p, "replay") /\ UNCHANGED <<file, held>>
       \/ /\ Len(file[path]) >= 2 /\ file[path][2] # Identity
          /\ Exit(p) /\ UNCHANGED file
    /\ UNCHANGED <<deploy, safe, path, safe_path, acked>>

Replay(p) ==
    /\ At(p, "replay")
    /\ \/ /\ ~Corrupt(read_body(file[path]))
          /\ proc' = [proc EXCEPT ![p].pc = "ready", ![p].locked = Recovered(file[path])]
          /\ UNCHANGED held
       \/ Corrupt(read_body(file[path])) /\ Exit(p)
    /\ UNCHANGED <<deploy, disk, acked>>

(***************************************************************************)
(* append, on behalf of Authority::handle; a repeated vote writes nothing   *)
(***************************************************************************)
AppendWrite(p, o) ==
    /\ At(p, "ready") /\ ~proc[p].poisoned
    /\ \A l \in proc[p].locked : l.slot # o.slot
    /\ \/ /\ Write(proc[p].ino, <<Locked(o)>>)
          /\ proc' = [proc EXCEPT ![p].pc = "sync_append", ![p].order = {o}]
       \/ /\ Write(proc[p].ino, <<Torn>>)
          /\ proc' = [proc EXCEPT ![p].poisoned = TRUE]
    /\ UNCHANGED <<deploy, safe, path, safe_path, held, acked>>

\* Mutant: Ok without the durability barrier.
AppendSyncBuffered(p) ==
    LET q == proc[p] IN
    /\ At(p, "sync_append")
    /\ acked' = acked \cup q.order
    /\ proc' = [proc EXCEPT ![p].pc = "ready", ![p].order = {},
                            ![p].locked = @ \cup q.order]
    /\ UNCHANGED <<deploy, disk, held>>

\* Ok: the lock is installed and the vote leaves.
AppendSync(p) ==
    LET q == proc[p] IN
    /\ At(p, "sync_append")
    /\ safe' = [safe EXCEPT ![q.ino] = file[q.ino]]
    /\ acked' = acked \cup q.order
    /\ proc' = [proc EXCEPT ![p].pc = "ready", ![p].order = {},
                            ![p].locked = @ \cup q.order]
    /\ UNCHANGED <<deploy, file, path, safe_path, held>>

AppendSyncFails(p) ==
    /\ At(p, "sync_append")
    /\ proc' = [proc EXCEPT ![p].pc = "ready", ![p].order = {}, ![p].poisoned = TRUE]
    /\ UNCHANGED <<deploy, disk, held, acked>>

(***************************************************************************)
(* compact                                                                 *)
(***************************************************************************)
\* The temporary file: truncated, magic, claim and snapshot.
CompactWrite(p) ==
    /\ deploy.compacts /\ At(p, "ready")
    /\ \E i \in Inodes :
          /\ Fresh(i)
          /\ file' = [file EXCEPT ![i] = <<Magic, Identity, Snapshot(proc[p].locked)>>]
          /\ safe' = [safe EXCEPT ![i] = <<>>]
          /\ proc' = [proc EXCEPT ![p].pc = "sync_tmp", ![p].new = i]
    /\ UNCHANGED <<deploy, path, safe_path, held, acked>>

CompactSync(p) ==
    /\ At(p, "sync_tmp")
    /\ safe' = [safe EXCEPT ![proc[p].new] = file[proc[p].new]]
    /\ Goto(p, "rename")
    /\ UNCHANGED <<deploy, file, path, safe_path, held, acked>>

\* The name moves at once; the directory on disk may still hold the old one.
CompactRename(p) ==
    /\ At(p, "rename")
    /\ path' = proc[p].new
    /\ Goto(p, "sync_dir")
    /\ UNCHANGED <<deploy, file, safe, safe_path, held, acked>>

\* Best effort: a failure of this fsync is ignored.
CompactSyncDir(p) ==
    /\ At(p, "sync_dir")
    /\ safe_path' \in {path, safe_path}
    /\ Goto(p, "reopen")
    /\ UNCHANGED <<deploy, file, safe, path, held, acked>>

CompactReopen(p) ==
    /\ At(p, "reopen")
    /\ proc' = [proc EXCEPT ![p].pc = "reclaim", ![p].new = path]
    /\ UNCHANGED <<deploy, disk, held, acked>>

\* The new inode is claimed, then the old handle is dropped with its lock.
CompactReclaim(p) ==
    LET q == proc[p] IN
    /\ At(p, "reclaim")
    /\ \/ /\ held[q.new] = NoProc
          /\ held' = [held EXCEPT ![q.new] = p, ![q.ino] = NoProc]
          /\ proc' = [proc EXCEPT ![p].pc = "ready", ![p].ino = q.new, ![p].new = 0]
       \/ /\ held[q.new] # NoProc
          /\ proc' = [proc EXCEPT ![p].pc = "ready", ![p].new = 0, ![p].poisoned = TRUE]
          /\ UNCHANGED held
    /\ UNCHANGED <<deploy, disk, acked>>

\* An I/O error of any step of compact fail-stops the authority.
CompactFails(p) ==
    /\ At(p, "sync_tmp") \/ At(p, "rename") \/ At(p, "reopen")
    /\ proc' = [proc EXCEPT ![p].pc = "ready", ![p].new = 0, ![p].poisoned = TRUE]
    /\ UNCHANGED <<deploy, disk, held, acked>>

(***************************************************************************)
(* Crashes                                                                 *)
(***************************************************************************)
\* The process dies: the kernel drops its locks, the files stay as written.
Kill(p) ==
    /\ p \in deploy.procs /\ proc[p].pc # "down"
    /\ Exit(p)
    /\ UNCHANGED <<deploy, disk, acked>>

\* What was not synced survives whole, in part, as garbage, or not at all.
AfterPowerCut(i) ==
    {safe[i], file[i]} \cup
    (IF IsStrictPrefix(safe[i], file[i])
     THEN {Append(safe[i], Torn), Append(safe[i], Bad)} ELSE {})

PowerCut ==
    /\ deploy.power
    /\ path' \in {path, safe_path} /\ safe_path' = path'
    /\ file' \in {[i \in Inodes |-> IF i = path' THEN f ELSE <<>>] :
                     f \in IF path' = 0 THEN {<<>>} ELSE AfterPowerCut(path')}
    /\ safe' = file'
    /\ held' = [i \in Inodes |-> NoProc]
    /\ proc' = [p \in Procs |-> Idle]
    /\ UNCHANGED <<deploy, acked>>

FjNext ==
    \/ \E p \in Procs :
        \/ Exists(p) \/ OpenFile(p) \/ Claim(p) \/ WriteMagic(p) \/ CheckMagic(p)
        \/ Sync(p, "sync_magic", "bind")
        \/ TruncateTornTail(p) \/ Sync(p, "sync_truncate", "bind")
        \/ Bind(p) \/ Sync(p, "sync_identity", "replay") \/ Replay(p)
        \/ \E o \in Orders : AppendWrite(p, o)
        \/ AppendSync(p) \/ AppendSyncFails(p)
        \/ CompactWrite(p) \/ CompactSync(p) \/ CompactRename(p)
        \/ CompactSyncDir(p) \/ CompactReopen(p) \/ CompactReclaim(p)
        \/ CompactFails(p) \/ Kill(p)
    \/ PowerCut

FjSpec == FjInit /\ [][FjNext]_fjVars

(***************************************************************************)
(* Properties                                                              *)
(***************************************************************************)
Serving(p) ==
    /\ ~proc[p].poisoned
    /\ proc[p].pc \in {"ready", "sync_append"}

\* The files a crash at this moment may leave at the journal's path.
Survivors ==
    IF deploy.power THEN {safe[i] : i \in {path, safe_path} \ {0}}
                    ELSE {file[i] : i \in {path} \ {0}}

\* A lock whose append returned Ok is recovered from whatever file a crash, a
\* power cut or a compaction cut short leaves (Journal::append's contract).
AckedDurable == \A f \in Survivors : acked \subseteq Recovered(f)

\* No two live authorities serve one journal: overlapping restarts and rolling
\* updates are refused by the lock (FileJournal::claim).
Exclusive == \A p, q \in Procs : Serving(p) /\ Serving(q) => p = q

\* The end of the log has one answer: what a serving authority holds locked is
\* what a replay of the file it appends to would return (truncate_torn_tail).
ReplayAgrees ==
    \A p \in Procs :
        Serving(p) /\ proc[p].pc = "ready" =>
            /\ ~Corrupt(read_body(file[path]))
            /\ proc[p].locked = Recovered(file[path])
=============================================================================
