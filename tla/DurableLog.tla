---------------------------- MODULE DurableLog ------------------------------
(***************************************************************************)
(* What a write-ahead log promises its owner, with no segments, files or   *)
(* handles: records come back in the order they were appended; a failure   *)
(* loses only a suffix, and nothing a receipt covers; a release drops only *)
(* a prefix, and nothing the owner still wants.                            *)
(***************************************************************************)
EXTENDS Integers, Sequences, SequencesExt

CONSTANT Records

VARIABLES
    log,      \* records a replay would return, in order
    acked,    \* wanted records covered by a receipt
    freed     \* records the owner no longer wants

dlVars == <<log, acked, freed>>

DlInit == log = <<>> /\ acked = {} /\ freed = {}

Extend == \E r \in Records \ Range(log) :
    log' = Append(log, r) /\ UNCHANGED <<acked, freed>>

Acknowledge == \E m \in SUBSET Range(log) :
    acked' = acked \cup m /\ UNCHANGED <<log, freed>>

Lose == \E k \in 0 .. Len(log) :
    /\ acked \cap Range(SubSeq(log, k + 1, Len(log))) = {}
    /\ log' = SubSeq(log, 1, k)
    /\ UNCHANGED <<acked, freed>>

Release == \E m \in SUBSET Range(log), k \in 0 .. Len(log) :
    /\ freed' = freed \cup m
    /\ Range(SubSeq(log, 1, k)) \subseteq freed'
    /\ log' = SubSeq(log, k + 1, Len(log))
    /\ acked' = acked \ freed'

DlNext == Extend \/ Acknowledge \/ Lose \/ Release

DlSpec == DlInit /\ [][DlNext]_dlVars
=============================================================================
