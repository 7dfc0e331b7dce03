----------------------------- MODULE WalProofs ------------------------------
(***************************************************************************)
(* What TLAPS proves of module Wal: the segmented log implements the       *)
(* durable log, for every set of events, every segment size and every      *)
(* number of power losses, failed writes and failed syncs, until an open   *)
(* takes for durable what was not on disk.                                 *)
(***************************************************************************)
EXTENDS Wal, FoldProofs, SequenceTheorems, TLAPS

(***************************************************************************)
(* Flattening a sequence of sequences                                      *)
(***************************************************************************)
IsFlat(g, qs) ==
    g = [i \in 1 .. Len(qs) |-> IF i = 1 THEN qs[i] ELSE g[i - 1] \o qs[i]]

LEMMA FlatExists ==
    ASSUME NEW R, NEW qs \in Seq(Seq(R))
    PROVE  \E g : IsFlat(g, qs)
<1> DEFINE k == Len(qs)
           Upto(m) == {i \in 1 .. k : i <= m}
           Table(g, m) == g = [i \in Upto(m) |-> IF i = 1 THEN qs[i] ELSE g[i - 1] \o qs[i]]
           N == {m \in Nat : \E g : Table(g, m)}
<1>0. k \in Nat
  OBVIOUS
<1> HIDE DEF k
<1>1. 0 \in N
  <2>1. Table([i \in Upto(0) |-> qs[i]], 0)
    OBVIOUS
  <2> HIDE DEF Table
  <2> QED
    BY <2>1
<1>2. ASSUME NEW m \in N PROVE m + 1 \in N
  <2>1. PICK g : Table(g, m)
    BY <1>2
  <2> DEFINE h2 == [i \in Upto(m + 1) |-> IF i = 1 THEN qs[i] ELSE g[i - 1] \o qs[i]]
  <2>2. ASSUME NEW i \in Upto(m) PROVE h2[i] = g[i]
    <3>1. i \in Upto(m + 1)
      BY <1>0
    <3>2. g[i] = IF i = 1 THEN qs[i] ELSE g[i - 1] \o qs[i]
      BY <2>1
    <3> QED
      BY <3>1, <3>2
  <2>3. ASSUME NEW i \in Upto(m + 1), i # 1 PROVE i - 1 \in Upto(m)
    BY <1>0, <2>3
  <2>4. h2 = [i \in Upto(m + 1) |-> IF i = 1 THEN qs[i] ELSE h2[i - 1] \o qs[i]]
    <3> HIDE DEF Upto
    <3> QED BY <2>2, <2>3
  <2>5. Table(h2, m + 1)
    BY <2>4
  <2>6. \E x : Table(x, m + 1)
    <3> HIDE DEF Table, h2
    <3> QED BY <2>5
  <2>7. m + 1 \in Nat
    OBVIOUS
  <2> HIDE DEF Table
  <2> QED
    BY <2>6, <2>7
<1>3. N = Nat
  <2> HIDE DEF N
  <2>1. N \in SUBSET Nat
    BY DEF N
  <2> QED BY <1>1, <1>2, <2>1, SetInduction
<1>4. k \in N
  BY <1>0, <1>3
<1>5. Upto(k) = 1 .. k
  BY <1>0
<1> QED
  BY <1>4, <1>5 DEF IsFlat, k

\* The table of the flattened prefixes.
Flat(qs) == CHOOSE g : IsFlat(g, qs)

LEMMA FlattenIsFlat ==
    ASSUME NEW R, NEW qs \in Seq(Seq(R))
    PROVE  /\ qs = <<>> => FlattenSeq(qs) = <<>>
           /\ qs # <<>> => FlattenSeq(qs) = Flat(qs)[Len(qs)]
           /\ \A i \in 1 .. Len(qs) :
                 Flat(qs)[i] = IF i = 1 THEN qs[i] ELSE Flat(qs)[i - 1] \o qs[i]
<1>1. IsFlat(Flat(qs), qs)
  BY FlatExists DEF Flat
<1>2. \A i \in 1 .. Len(qs) :
         Flat(qs)[i] = IF i = 1 THEN qs[i] ELSE Flat(qs)[i - 1] \o qs[i]
  <2> DEFINE g == Flat(qs)
  <2>1. g = [i \in 1 .. Len(qs) |-> IF i = 1 THEN qs[i] ELSE g[i - 1] \o qs[i]]
    BY <1>1 DEF IsFlat
  <2> HIDE DEF g
  <2>2. \A i \in 1 .. Len(qs) : g[i] = IF i = 1 THEN qs[i] ELSE g[i - 1] \o qs[i]
    BY <2>1
  <2> QED
    BY <2>2 DEF g
<1>3. qs = <<>> => FlattenSeq(qs) = <<>>
  BY DEF FlattenSeq
<1>4. qs # <<>> => Len(qs) # 0
  OBVIOUS
<1>5. qs # <<>> => FlattenSeq(qs) = Flat(qs)[Len(qs)]
  BY <1>4, Zenon DEF FlattenSeq, Flat, IsFlat
<1> QED
  BY <1>2, <1>3, <1>5

LEMMA FlatType ==
    ASSUME NEW R, NEW qs \in Seq(Seq(R))
    PROVE  /\ \A i \in 1 .. Len(qs) : Flat(qs)[i] \in Seq(R)
           /\ FlattenSeq(qs) \in Seq(R)
<1> DEFINE g == Flat(qs)
           k == Len(qs)
           T == {i \in 1 .. k : g[i] \in Seq(R)}
<1>1. /\ k \in Nat /\ \A i \in 1 .. k : qs[i] \in Seq(R)
      /\ \A i \in 1 .. k : g[i] = IF i = 1 THEN qs[i] ELSE g[i - 1] \o qs[i]
      /\ qs # <<>> => k > 0
  BY FlattenIsFlat
<1> HIDE DEF g, k
<1>2. k > 0 => 1 \in T
  BY <1>1
<1>3. ASSUME NEW i \in T, i < k PROVE i + 1 \in T
  <2>1. /\ i + 1 \in 1 .. k /\ i + 1 # 1 /\ (i + 1) - 1 = i
        /\ g[i] \in Seq(R) /\ qs[i + 1] \in Seq(R)
    BY <1>1, <1>3
  <2>2. g[i + 1] = g[i] \o qs[i + 1]
    BY <1>1, <2>1
  <2>3. g[i] \o qs[i + 1] \in Seq(R)
    BY <2>1, ConcatProperties
  <2> QED
    BY <2>1, <2>2, <2>3
<1>4. T = 1 .. k
  <2> HIDE DEF T
  <2>1. T \in SUBSET (1 .. k)
    BY DEF T
  <2> QED
    BY <1>1, <1>2, <1>3, <2>1, IntervalInduction
<1>5. \A i \in 1 .. k : g[i] \in Seq(R)
  BY <1>4
<1>6. FlattenSeq(qs) \in Seq(R)
  <2>1. CASE qs = <<>>
    <3>1. FlattenSeq(qs) = <<>>
      BY <2>1, FlattenIsFlat
    <3> QED
      BY <3>1
  <2>2. CASE qs # <<>>
    <3>1. FlattenSeq(qs) = g[k]
      BY <2>2, FlattenIsFlat DEF g, k
    <3> QED
      BY <1>1, <1>5, <2>2, <3>1
  <2> QED
    BY <2>1, <2>2
<1> QED
  BY <1>5, <1>6 DEF g, k

\* Sequences with a common prefix flatten to a common prefix.
LEMMA FlatAgree ==
    ASSUME NEW R, NEW ps \in Seq(Seq(R)), NEW qs \in Seq(Seq(R)), NEW k \in Nat,
           k <= Len(ps), k <= Len(qs), \A i \in 1 .. k : ps[i] = qs[i]
    PROVE  \A i \in 1 .. k : Flat(ps)[i] = Flat(qs)[i]
<1> DEFINE T == {i \in 1 .. k : Flat(ps)[i] = Flat(qs)[i]}
<1>1. /\ Len(ps) \in Nat /\ Len(qs) \in Nat
      /\ \A i \in 1 .. k : i \in 1 .. Len(ps) /\ i \in 1 .. Len(qs)
  OBVIOUS
<1>2. \A i \in 1 .. k :
        /\ Flat(ps)[i] = IF i = 1 THEN ps[i] ELSE Flat(ps)[i - 1] \o ps[i]
        /\ Flat(qs)[i] = IF i = 1 THEN qs[i] ELSE Flat(qs)[i - 1] \o qs[i]
  BY <1>1, FlattenIsFlat
<1>3. k > 0 => 1 \in T
  BY <1>2
<1>4. ASSUME NEW i \in T, i < k PROVE i + 1 \in T
  <2>1. i + 1 \in 1 .. k /\ i + 1 # 1 /\ (i + 1) - 1 = i /\ Flat(ps)[i] = Flat(qs)[i]
    BY <1>4
  <2>2. Flat(ps)[i + 1] = Flat(ps)[i] \o ps[i + 1]
    BY <1>2, <2>1
  <2>3. Flat(qs)[i + 1] = Flat(qs)[i] \o qs[i + 1]
    BY <1>2, <2>1
  <2>4. ps[i + 1] = qs[i + 1]
    BY <2>1
  <2> QED
    BY <2>1, <2>2, <2>3, <2>4
<1>5. T = 1 .. k
  <2> HIDE DEF T
  <2>1. T \in SUBSET (1 .. k)
    BY DEF T
  <2> QED
    BY <1>3, <1>4, <2>1, IntervalInduction
<1> QED
  BY <1>5

\* The last sequence comes last.
LEMMA FlattenLast ==
    ASSUME NEW R, NEW qs \in Seq(Seq(R)), NEW q \in Seq(R)
    PROVE  FlattenSeq(Append(qs, q)) = FlattenSeq(qs) \o q
<1> DEFINE ps == Append(qs, q)
           k == Len(qs)
<1>1. /\ ps \in Seq(Seq(R)) /\ Len(ps) = k + 1 /\ k \in Nat /\ ps # <<>>
      /\ \A i \in 1 .. k : ps[i] = qs[i]
      /\ ps[k + 1] = q /\ (qs = <<>> <=> k = 0)
  <2> DEFINE Q == Seq(R)
  <2>1. qs \in Seq(Q) /\ q \in Q
    OBVIOUS
  <2> HIDE DEF Q
  <2>2. /\ ps \in Seq(Q) /\ Len(ps) = k + 1 /\ k \in Nat /\ ps # <<>>
        /\ \A i \in 1 .. k : ps[i] = qs[i]
        /\ ps[k + 1] = q /\ (qs = <<>> <=> k = 0)
    BY <2>1
  <2> QED
    BY <2>2 DEF Q
<1> HIDE DEF ps, k
<1>2. FlattenSeq(ps) = Flat(ps)[k + 1]
  BY <1>1, FlattenIsFlat
<1>3. Flat(ps)[k + 1] = IF k + 1 = 1 THEN ps[k + 1] ELSE Flat(ps)[(k + 1) - 1] \o ps[k + 1]
  <2>1. k + 1 \in 1 .. Len(ps)
    BY <1>1
  <2> QED
    BY <1>1, <2>1, FlattenIsFlat
<1>4. CASE k = 0
  <2>1. FlattenSeq(qs) = <<>>
    BY <1>1, <1>4, FlattenIsFlat
  <2>2. FlattenSeq(ps) = q
    BY <1>1, <1>2, <1>3, <1>4
  <2> QED
    BY <2>1, <2>2, ConcatEmptySeq DEF ps
<1>5. CASE k # 0
  <2>1. k \in 1 .. k /\ (k + 1) - 1 = k /\ k + 1 # 1 /\ qs # <<>>
    BY <1>1, <1>5
  <2>2. Flat(ps)[k] = Flat(qs)[k]
    <3>1. k <= Len(ps) /\ k <= Len(qs)
      BY <1>1 DEF k
    <3>2. \A i \in 1 .. k : Flat(ps)[i] = Flat(qs)[i]
      BY <1>1, <3>1, FlatAgree
    <3> QED
      BY <2>1, <3>2
  <2>3. FlattenSeq(qs) = Flat(qs)[k]
    BY <2>1, FlattenIsFlat DEF k
  <2>4. FlattenSeq(ps) = Flat(ps)[k] \o q
    BY <1>1, <1>2, <1>3, <2>1
  <2> QED
    BY <2>2, <2>3, <2>4 DEF ps
<1> QED
  BY <1>4, <1>5

\* Induction over a set of sequences.
LEMMA SeqInduction ==
    ASSUME NEW S, NEW T \in SUBSET Seq(S), <<>> \in T,
           \A s \in T, e \in S : Append(s, e) \in T
    PROVE  T = Seq(S)
<1> DEFINE N == {m \in Nat : \A s \in Seq(S) : Len(s) = m => s \in T}
<1>1. 0 \in N
  <2>1. ASSUME NEW s \in Seq(S), Len(s) = 0 PROVE s \in T
    <3>1. s = <<>>
      BY <2>1, EmptySeq
    <3> QED
      BY <3>1
  <2> QED
    BY <2>1
<1>2. ASSUME NEW m \in N PROVE m + 1 \in N
  <2>1. ASSUME NEW s \in Seq(S), Len(s) = m + 1 PROVE s \in T
    <3>1. s # <<>>
      BY <2>1
    <3>2. PICK r \in Seq(S), e \in S : s = Append(r, e)
      BY <3>1, SequenceEmptyOrAppend
    <3>3. Len(r) = m
      BY <2>1, <3>2, AppendProperties
    <3>4. r \in T
      BY <3>3
    <3> QED
      BY <3>2, <3>4
  <2> QED
    BY <2>1
<1>3. N = Nat
  <2>1. N \in SUBSET Nat
    OBVIOUS
  <2> HIDE DEF N
  <2> QED BY <1>1, <1>2, <2>1, SetInduction
<1>4. ASSUME NEW s \in Seq(S) PROVE s \in T
  <2>1. Len(s) \in N
    <3> HIDE DEF N
    <3> QED BY <1>3
  <2> QED
    BY <2>1
<1> QED
  BY <1>4

LEMMA FlattenConcat ==
    ASSUME NEW R, NEW ps \in Seq(Seq(R)), NEW rs \in Seq(Seq(R))
    PROVE  FlattenSeq(ps \o rs) = FlattenSeq(ps) \o FlattenSeq(rs)
<1> DEFINE Q == Seq(R)
           T == {ss \in Seq(Q) : FlattenSeq(ps \o ss) = FlattenSeq(ps) \o FlattenSeq(ss)}
<1>0. <<>> \in Seq(Q)
  OBVIOUS
<1>1. <<>> \in T
  <2>1. ps \o <<>> = ps
    BY ConcatEmptySeq
  <2>2. FlattenSeq(<<>>) = <<>>
    BY <1>0, FlattenIsFlat
  <2>3. FlattenSeq(ps) \in Seq(R)
    BY FlatType
  <2>4. FlattenSeq(ps) \o <<>> = FlattenSeq(ps)
    BY <2>3, ConcatEmptySeq
  <2> QED
    BY <1>0, <2>1, <2>2, <2>4
<1>2. ASSUME NEW ss \in T, NEW q \in Q PROVE Append(ss, q) \in T
  <2>0. ss \in Seq(Seq(R)) /\ q \in Seq(R) /\ Append(ss, q) \in Seq(Q)
        /\ FlattenSeq(ps \o ss) = FlattenSeq(ps) \o FlattenSeq(ss)
    <3>1. ss \in Seq(Q)
      OBVIOUS
    <3>2. Append(ss, q) \in Seq(Q)
      BY <3>1, AppendProperties
    <3> QED
      BY <3>1, <3>2
  <2>1. ps \o Append(ss, q) = Append(ps \o ss, q)
    <3> HIDE DEF Q
    <3>1. ps \in Seq(Q) /\ ss \in Seq(Q) /\ q \in Q
      BY <2>0 DEF Q
    <3> QED
      BY <3>1
  <2>2. ps \o ss \in Seq(Seq(R))
    BY <2>0, ConcatProperties
  <2>3. FlattenSeq(Append(ps \o ss, q)) = FlattenSeq(ps \o ss) \o q
    BY <2>0, <2>2, FlattenLast
  <2>4. FlattenSeq(Append(ss, q)) = FlattenSeq(ss) \o q
    BY <2>0, FlattenLast
  <2>5. FlattenSeq(ps) \in Seq(R) /\ FlattenSeq(ss) \in Seq(R)
    BY <2>0, FlatType
  <2>6. (FlattenSeq(ps) \o FlattenSeq(ss)) \o q = FlattenSeq(ps) \o (FlattenSeq(ss) \o q)
    <3> DEFINE a == FlattenSeq(ps)
               b == FlattenSeq(ss)
    <3> HIDE DEF a, b
    <3>1. a \in Seq(R) /\ b \in Seq(R) /\ q \in Seq(R)
      BY <2>0, <2>5 DEF a, b
    <3>2. (a \o b) \o q = a \o (b \o q)
      BY <3>1, ConcatAssociative
    <3> QED
      BY <3>2 DEF a, b
  <2> QED
    BY <2>0, <2>1, <2>3, <2>4, <2>6
<1>3. T = Seq(Q)
  <2>1. T \in SUBSET Seq(Q)
    OBVIOUS
  <2> HIDE DEF T, Q
  <2> QED BY <1>1, <1>2, <2>1, SeqInduction
<1> QED
  BY <1>3

LEMMA FlattenRange ==
    ASSUME NEW R, NEW qs \in Seq(Seq(R))
    PROVE  Range(FlattenSeq(qs)) = UNION {Range(qs[j]) : j \in 1 .. Len(qs)}
<1> DEFINE Q == Seq(R)
           T == {ss \in Seq(Q) :
                   Range(FlattenSeq(ss)) = UNION {Range(ss[j]) : j \in 1 .. Len(ss)}}
<1>0. <<>> \in Seq(Q)
  OBVIOUS
<1>1. <<>> \in T
  <2>1. FlattenSeq(<<>>) = <<>>
    BY <1>0, FlattenIsFlat
  <2>2. Range(<<>>) = {}
    BY DEF Range
  <2>3. {Range(<<>>[j]) : j \in 1 .. Len(<<>>)} = {}
    BY EmptySeq
  <2> QED
    BY <1>0, <2>1, <2>2, <2>3
<1>2. ASSUME NEW ss \in T, NEW q \in Q PROVE Append(ss, q) \in T
  <2> DEFINE as == Append(ss, q)
             k == Len(ss)
  <2>0. ss \in Seq(Q) /\ Range(FlattenSeq(ss)) = UNION {Range(ss[j]) : j \in 1 .. k}
    OBVIOUS
  <2>1. /\ as \in Seq(Q) /\ Len(as) = k + 1 /\ k \in Nat /\ as[k + 1] = q
        /\ \A j \in 1 .. k : as[j] = ss[j]
    <3> HIDE DEF Q
    <3> QED BY <2>0
  <2>2. FlattenSeq(as) = FlattenSeq(ss) \o q /\ FlattenSeq(ss) \in Seq(R)
    BY <2>0, FlattenLast, FlatType
  <2>3. Range(FlattenSeq(as)) = Range(FlattenSeq(ss)) \cup Range(q)
    BY <2>2, RangeConcatenation
  <2> HIDE DEF as, k
  <2>4. ASSUME NEW x PROVE x \in Range(FlattenSeq(as)) <=> \E j \in 1 .. Len(as) : x \in Range(as[j])
    <3>1. CASE x \in Range(q)
      <4>1. k + 1 \in 1 .. Len(as)
        BY <2>1
      <4> QED
        BY <2>1, <2>3, <3>1, <4>1
    <3>2. CASE x \notin Range(q)
      <4>1. x \in Range(FlattenSeq(as)) <=> \E j \in 1 .. k : x \in Range(ss[j])
        BY <2>0, <2>3, <3>2
      <4>2. \A j \in 1 .. Len(as) : j \in 1 .. k \/ j = k + 1
        BY <2>1
      <4>3. \A j \in 1 .. k : j \in 1 .. Len(as)
        BY <2>1
      <4> QED
        BY <2>1, <3>2, <4>1, <4>2, <4>3
    <3> QED
      BY <3>1, <3>2
  <2>5. Range(FlattenSeq(as)) = UNION {Range(as[j]) : j \in 1 .. Len(as)}
    BY <2>4
  <2> QED
    BY <2>1, <2>5 DEF as
<1>3. T = Seq(Q)
  <2>1. T \in SUBSET Seq(Q)
    OBVIOUS
  <2> HIDE DEF T, Q
  <2> QED BY <1>1, <1>2, <2>1, SeqInduction
<1> QED
  BY <1>3

(***************************************************************************)
(* What scan_segment keeps of a segment                                    *)
(***************************************************************************)
Recs == [seq : Nat, event : Events]
Bytes == Recs \cup {Torn}

Clean(recs) == \A j \in 1 .. Len(recs) : recs[j] # Torn

\* Only the last record may be torn.
TornLast(recs) == \A j \in 1 .. Len(recs) : recs[j] = Torn => j = Len(recs)

LEMMA WholeDef ==
    ASSUME NEW recs
    PROVE  Whole(recs) = LET I == {i \in 1 .. Len(recs) : recs[i] = Torn}
                         IN IF I # {} THEN Min(I) ELSE 0
  BY DEF Whole, SelectInSeq

LEMMA ScanClean ==
    ASSUME NEW recs \in Seq(Bytes), Clean(recs)
    PROVE  Scan(recs) = recs
<1>1. Whole(recs) = 0
  BY WholeDef DEF Clean
<1> QED
  BY <1>1 DEF Scan

LEMMA CleanType ==
    ASSUME NEW recs \in Seq(Bytes), Clean(recs)
    PROVE  recs \in Seq(Recs)
<1>1. \A j \in 1 .. Len(recs) : recs[j] \in Recs
  <2>1. ASSUME NEW j \in 1 .. Len(recs) PROVE recs[j] \in Recs
    <3>1. recs[j] \in Bytes
      BY ElementOfSeq
    <3> QED
      BY <3>1 DEF Bytes, Clean
  <2> QED
    BY <2>1
<1>2. /\ Len(recs) \in Nat /\ recs = [j \in 1 .. Len(recs) |-> recs[j]]
  BY LenProperties
<1>3. recs \in [1 .. Len(recs) -> Recs]
  BY <1>1, <1>2
<1> QED
  BY <1>2, <1>3, SeqDef

LEMMA ScanTorn ==
    ASSUME NEW recs \in Seq(Bytes), Clean(recs)
    PROVE  Scan(Append(recs, Torn)) = recs
<1> DEFINE r == Append(recs, Torn)
           k == Len(recs)
           I == {i \in 1 .. Len(r) : r[i] = Torn}
<1>0. Torn \in Bytes
  BY DEF Bytes
<1>1. /\ r \in Seq(Bytes) /\ Len(r) = k + 1 /\ k \in Nat /\ r[k + 1] = Torn
      /\ \A j \in 1 .. k : r[j] = recs[j]
  BY <1>0, AppendProperties
<1>2. I = {k + 1}
  <2> HIDE DEF r
  <2>1. \A j \in 1 .. k : r[j] # Torn
    BY <1>1 DEF Clean
  <2> HIDE DEF k
  <2> QED BY <1>1, <2>1
<1>3. Min({k + 1}) = k + 1
  <2> HIDE DEF k
  <2> QED BY <1>1 DEF Min
<1>4. Whole(r) = k + 1
  <2> HIDE DEF r, k
  <2> QED BY <1>2, <1>3, WholeDef
<1>5. Scan(r) = SubSeq(r, 1, k)
  <2> HIDE DEF r, k
  <2> QED BY <1>1, <1>4 DEF Scan
<1>6. SubSeq(r, 1, k) = recs
  BY <1>0, <1>1
<1> QED
  BY <1>5, <1>6

LEMMA ScanParts ==
    ASSUME NEW recs \in Seq(Bytes), TornLast(recs)
    PROVE  /\ Scan(recs) \in Seq(Recs) /\ Scan(recs) \in Seq(Bytes) /\ Clean(Scan(recs))
           /\ recs = Scan(recs) \/ recs = Append(Scan(recs), Torn)
<1>1. CASE Clean(recs)
  BY <1>1, ScanClean, CleanType
<1>2. CASE ~Clean(recs)
  <2>1. recs # <<>>
    BY <1>2, EmptySeq DEF Clean
  <2>2. PICK r \in Seq(Bytes), x \in Bytes : recs = Append(r, x)
    BY <2>1, SequenceEmptyOrAppend
  <2>3. /\ Len(recs) = Len(r) + 1 /\ Len(r) \in Nat /\ recs[Len(r) + 1] = x
        /\ \A j \in 1 .. Len(r) : recs[j] = r[j]
    BY <2>2, AppendProperties
  <2>4. Clean(r)
    BY <2>3 DEF Clean, TornLast
  <2>5. x = Torn
    BY <1>2, <2>3, <2>4 DEF Clean
  <2>6. Scan(recs) = r
    BY <2>2, <2>4, <2>5, ScanTorn
  <2> QED
    BY <2>2, <2>4, <2>5, <2>6, CleanType
<1> QED
  BY <1>1, <1>2

(***************************************************************************)
(* Segments and what a replay of them returns                              *)
(***************************************************************************)
Segs == [no : Nat, first : Nat, recs : Seq(Bytes), synced : Nat]

Scans(ss) == [i \in 1 .. Len(ss) |-> Scan(ss[i].recs)]
Body(ss) == FlattenSeq(Scans(ss))

Scannable(ss) == \A i \in 1 .. Len(ss) : TornLast(ss[i].recs)

LEMMA ReplayedBody == Replayed = Body(segs)
  BY DEF Replayed, Body, Scans

LEMMA ScansType ==
    ASSUME NEW ss \in Seq(Segs), Scannable(ss)
    PROVE  /\ Scans(ss) \in Seq(Seq(Recs)) /\ Len(Scans(ss)) = Len(ss)
           /\ \A i \in 1 .. Len(ss) : Scans(ss)[i] = Scan(ss[i].recs)
           /\ Body(ss) \in Seq(Recs)
<1>1. Len(ss) \in Nat
  OBVIOUS
<1>2. ASSUME NEW i \in 1 .. Len(ss) PROVE Scan(ss[i].recs) \in Seq(Recs)
  <2>1. ss[i] \in Segs
    BY ElementOfSeq
  <2>2. ss[i].recs \in Seq(Bytes)
    BY <2>1 DEF Segs
  <2> QED
    BY <2>2, ScanParts DEF Scannable
<1>3. Scans(ss) \in [1 .. Len(ss) -> Seq(Recs)]
  BY <1>2 DEF Scans
<1>4. Scans(ss) \in Seq(Seq(Recs))
  BY <1>1, <1>3, SeqDef
<1>5. Len(Scans(ss)) = Len(ss)
  <2>1. DOMAIN Scans(ss) = 1 .. Len(ss) /\ DOMAIN Scans(ss) = 1 .. Len(Scans(ss))
        /\ Len(Scans(ss)) \in Nat
    BY <1>3, <1>4, LenProperties
  <2> DEFINE a == Len(ss)
             b == Len(Scans(ss))
  <2>2. 1 .. a = 1 .. b /\ a \in Nat /\ b \in Nat
    BY <1>1, <2>1
  <2> HIDE DEF a, b
  <2>3. a = b
    BY <2>2
  <2> QED
    BY <2>3 DEF a, b
<1> QED
  BY <1>4, <1>5, FlatType DEF Body, Scans

LEMMA BodyLast ==
    ASSUME NEW ss \in Seq(Segs), NEW s \in Segs, Scannable(ss), TornLast(s.recs)
    PROVE  /\ Body(Append(ss, s)) = Body(ss) \o Scan(s.recs)
           /\ Scannable(Append(ss, s))
<1> DEFINE as == Append(ss, s)
<1>1. /\ as \in Seq(Segs) /\ Len(as) = Len(ss) + 1 /\ as[Len(ss) + 1] = s
      /\ \A i \in 1 .. Len(ss) : as[i] = ss[i]
      /\ Len(ss) \in Nat
  BY AppendProperties
<1> HIDE DEF as
<1>2. Scannable(as)
  <2>1. ASSUME NEW i \in 1 .. Len(as) PROVE TornLast(as[i].recs)
    <3>1. i \in 1 .. Len(ss) \/ i = Len(ss) + 1
      BY <1>1
    <3> QED
      BY <1>1, <3>1 DEF Scannable
  <2> QED
    BY <2>1 DEF Scannable
<1>3. Scan(s.recs) \in Seq(Recs)
  BY ScanParts DEF Segs
<1>4. Scans(as) = Append(Scans(ss), Scan(s.recs))
  <2>1. /\ Scans(as) \in Seq(Seq(Recs)) /\ Len(Scans(as)) = Len(ss) + 1
        /\ \A i \in 1 .. Len(as) : Scans(as)[i] = Scan(as[i].recs)
    BY <1>1, <1>2, ScansType
  <2>2. /\ Scans(ss) \in Seq(Seq(Recs)) /\ Len(Scans(ss)) = Len(ss)
        /\ \A i \in 1 .. Len(ss) : Scans(ss)[i] = Scan(ss[i].recs)
    BY ScansType
  <2> DEFINE x == Append(Scans(ss), Scan(s.recs))
  <2>3. /\ x \in Seq(Seq(Recs)) /\ Len(x) = Len(ss) + 1 /\ x[Len(ss) + 1] = Scan(s.recs)
        /\ \A i \in 1 .. Len(ss) : x[i] = Scans(ss)[i]
    BY <1>3, <2>2, AppendProperties
  <2> HIDE DEF x
  <2>4. ASSUME NEW i \in 1 .. Len(ss) + 1 PROVE Scans(as)[i] = x[i]
    <3>1. CASE i = Len(ss) + 1
      BY <1>1, <2>1, <2>3, <3>1
    <3>2. CASE i \in 1 .. Len(ss)
      <4>1. i \in 1 .. Len(as)
        BY <1>1, <3>2
      <4>2. Scans(as)[i] = Scan(as[i].recs)
        BY <2>1, <4>1
      <4>3. as[i] = ss[i]
        BY <1>1, <3>2
      <4>4. Scans(ss)[i] = Scan(ss[i].recs)
        BY <2>2, <3>2
      <4>5. x[i] = Scans(ss)[i]
        BY <2>3, <3>2
      <4> QED
        BY <4>2, <4>3, <4>4, <4>5
    <3>3. i = Len(ss) + 1 \/ i \in 1 .. Len(ss)
      BY <1>1
    <3> QED
      BY <3>1, <3>2, <3>3
  <2>5. Scans(as) = x
    <3>1. Len(Scans(as)) = Len(x) /\ \A i \in 1 .. Len(Scans(as)) : Scans(as)[i] = x[i]
      BY <2>1, <2>3, <2>4
    <3> DEFINE u == Scans(as)
    <3> HIDE DEF u
    <3>2. u \in Seq(Seq(Recs)) /\ Len(u) = Len(x) /\ \A i \in 1 .. Len(u) : u[i] = x[i]
      BY <2>1, <3>1 DEF u
    <3>3. u = x
      BY <2>3, <3>2, SeqEqual
    <3> QED
      BY <3>3 DEF u
  <2> QED
    BY <2>5 DEF x
<1>5. Scans(ss) \in Seq(Seq(Recs))
  BY ScansType
<1> QED
  BY <1>2, <1>3, <1>4, <1>5, FlattenLast DEF Body, as

LEMMA BodyConcat ==
    ASSUME NEW ps \in Seq(Segs), NEW rs \in Seq(Segs), Scannable(ps), Scannable(rs)
    PROVE  Body(ps \o rs) = Body(ps) \o Body(rs)
<1> DEFINE cs == ps \o rs
<1>1. /\ cs \in Seq(Segs) /\ Len(cs) = Len(ps) + Len(rs) /\ Len(ps) \in Nat /\ Len(rs) \in Nat
      /\ \A i \in 1 .. Len(ps) + Len(rs) : cs[i] = IF i <= Len(ps) THEN ps[i] ELSE rs[i - Len(ps)]
  BY ConcatProperties
<1> HIDE DEF cs
<1>2. Scannable(cs)
  <2>1. ASSUME NEW i \in 1 .. Len(cs) PROVE TornLast(cs[i].recs)
    <3>1. CASE i <= Len(ps)
      BY <1>1, <3>1 DEF Scannable
    <3>2. CASE ~(i <= Len(ps))
      <4>1. i - Len(ps) \in 1 .. Len(rs)
        BY <1>1, <3>2
      <4> QED
        BY <1>1, <3>2, <4>1 DEF Scannable
    <3> QED
      BY <3>1, <3>2
  <2> QED
    BY <2>1 DEF Scannable
<1>3. /\ Scans(ps) \in Seq(Seq(Recs)) /\ Len(Scans(ps)) = Len(ps)
      /\ \A i \in 1 .. Len(ps) : Scans(ps)[i] = Scan(ps[i].recs)
  BY ScansType
<1>4. /\ Scans(rs) \in Seq(Seq(Recs)) /\ Len(Scans(rs)) = Len(rs)
      /\ \A i \in 1 .. Len(rs) : Scans(rs)[i] = Scan(rs[i].recs)
  BY ScansType
<1>5. /\ Scans(cs) \in Seq(Seq(Recs)) /\ Len(Scans(cs)) = Len(cs)
      /\ \A i \in 1 .. Len(cs) : Scans(cs)[i] = Scan(cs[i].recs)
  BY <1>1, <1>2, ScansType
<1> DEFINE x == Scans(ps) \o Scans(rs)
<1>6. /\ x \in Seq(Seq(Recs)) /\ Len(x) = Len(cs)
      /\ \A i \in 1 .. Len(ps) + Len(rs) :
            x[i] = IF i <= Len(ps) THEN Scans(ps)[i] ELSE Scans(rs)[i - Len(ps)]
  <2> DEFINE u == Scans(ps)
             v == Scans(rs)
  <2> HIDE DEF u, v
  <2>1. u \in Seq(Seq(Recs)) /\ v \in Seq(Seq(Recs)) /\ Len(u) = Len(ps) /\ Len(v) = Len(rs)
    BY <1>3, <1>4 DEF u, v
  <2>2. /\ u \o v \in Seq(Seq(Recs)) /\ Len(u \o v) = Len(u) + Len(v)
        /\ \A i \in 1 .. Len(u) + Len(v) : (u \o v)[i] = IF i <= Len(u) THEN u[i] ELSE v[i - Len(u)]
    BY <2>1, ConcatProperties
  <2> QED
    BY <1>1, <2>1, <2>2 DEF u, v
<1> HIDE DEF x
<1>7. ASSUME NEW i \in 1 .. Len(cs) PROVE Scans(cs)[i] = x[i]
  <2>1. CASE i <= Len(ps)
    <3>1. i \in 1 .. Len(ps) /\ i \in 1 .. Len(ps) + Len(rs)
      BY <1>1, <2>1
    <3> QED
      BY <1>1, <1>3, <1>5, <1>6, <2>1, <3>1
  <2>2. CASE ~(i <= Len(ps))
    <3>1. i - Len(ps) \in 1 .. Len(rs)
      BY <1>1, <2>2
    <3> QED
      BY <1>1, <1>4, <1>5, <1>6, <2>2, <3>1
  <2> QED
    BY <2>1, <2>2
<1>8. Scans(cs) = x
  BY <1>5, <1>6, <1>7, SeqEqual
<1> QED
  BY <1>3, <1>4, <1>8, FlattenConcat DEF Body, x, cs

LEMMA BodyRange ==
    ASSUME NEW ss \in Seq(Segs), Scannable(ss), NEW r
    PROVE  r \in Range(Body(ss)) <=> \E i \in 1 .. Len(ss) : r \in Range(Scan(ss[i].recs))
<1>1. /\ Scans(ss) \in Seq(Seq(Recs)) /\ Len(Scans(ss)) = Len(ss)
      /\ \A i \in 1 .. Len(ss) : Scans(ss)[i] = Scan(ss[i].recs)
  BY ScansType
<1>2. Range(Body(ss)) = UNION {Range(Scans(ss)[j]) : j \in 1 .. Len(Scans(ss))}
  BY <1>1, FlattenRange DEF Body
<1> QED
  BY <1>1, <1>2

(***************************************************************************)
(* The events of a sequence of records                                     *)
(***************************************************************************)
LEMMA PayloadsType ==
    ASSUME NEW a \in Seq(Recs)
    PROVE  /\ Payloads(a) \in Seq(Events) /\ Len(Payloads(a)) = Len(a)
           /\ \A i \in 1 .. Len(a) : Payloads(a)[i] = a[i].event
           /\ Range(Payloads(a)) = {r.event : r \in Range(a)}
<1>1. Len(a) \in Nat /\ \A i \in 1 .. Len(a) : a[i] \in Recs
  BY ElementOfSeq
<1>2. Payloads(a) \in [1 .. Len(a) -> Events]
  BY <1>1 DEF Payloads, Recs
<1>3. Payloads(a) \in Seq(Events)
  BY <1>1, <1>2, SeqDef
<1>4. Len(Payloads(a)) = Len(a)
  <2> DEFINE p == Payloads(a)
             k == Len(a)
  <2>1. p \in Seq(Events) /\ DOMAIN p = 1 .. k /\ k \in Nat
    BY <1>1, <1>2, <1>3
  <2> HIDE DEF p, k
  <2>2. Len(p) = k
    BY <2>1
  <2> QED
    BY <2>2 DEF p, k
<1>5. \A i \in 1 .. Len(a) : Payloads(a)[i] = a[i].event
  BY DEF Payloads
<1>6. Range(Payloads(a)) = {r.event : r \in Range(a)}
  <2>1. Range(a) = {a[i] : i \in 1 .. Len(a)}
    BY RangeEquality
  <2>2. Range(Payloads(a)) = {Payloads(a)[i] : i \in 1 .. Len(a)}
    BY <1>3, <1>4, RangeEquality
  <2> QED
    BY <1>5, <2>1, <2>2
<1> QED
  BY <1>3, <1>4, <1>5, <1>6

LEMMA PayloadsConcat ==
    ASSUME NEW a \in Seq(Recs), NEW b \in Seq(Recs)
    PROVE  Payloads(a \o b) = Payloads(a) \o Payloads(b)
<1> DEFINE c == a \o b
           x == Payloads(a) \o Payloads(b)
<1>1. /\ c \in Seq(Recs) /\ Len(c) = Len(a) + Len(b) /\ Len(a) \in Nat /\ Len(b) \in Nat
      /\ \A i \in 1 .. Len(a) + Len(b) : c[i] = IF i <= Len(a) THEN a[i] ELSE b[i - Len(a)]
  BY ConcatProperties
<1>2. /\ Payloads(a) \in Seq(Events) /\ Len(Payloads(a)) = Len(a)
      /\ \A i \in 1 .. Len(a) : Payloads(a)[i] = a[i].event
  BY PayloadsType
<1>3. /\ Payloads(b) \in Seq(Events) /\ Len(Payloads(b)) = Len(b)
      /\ \A i \in 1 .. Len(b) : Payloads(b)[i] = b[i].event
  BY PayloadsType
<1> HIDE DEF c
<1>4. /\ Payloads(c) \in Seq(Events) /\ Len(Payloads(c)) = Len(c)
      /\ \A i \in 1 .. Len(c) : Payloads(c)[i] = c[i].event
  BY <1>1, PayloadsType
<1>5. /\ x \in Seq(Events) /\ Len(x) = Len(a) + Len(b)
      /\ \A i \in 1 .. Len(a) + Len(b) :
            x[i] = IF i <= Len(a) THEN Payloads(a)[i] ELSE Payloads(b)[i - Len(a)]
  <2> DEFINE u == Payloads(a)
             v == Payloads(b)
  <2> HIDE DEF u, v
  <2>1. u \in Seq(Events) /\ v \in Seq(Events) /\ Len(u) = Len(a) /\ Len(v) = Len(b)
    BY <1>2, <1>3 DEF u, v
  <2>2. /\ u \o v \in Seq(Events) /\ Len(u \o v) = Len(u) + Len(v)
        /\ \A i \in 1 .. Len(u) + Len(v) : (u \o v)[i] = IF i <= Len(u) THEN u[i] ELSE v[i - Len(u)]
    BY <2>1, ConcatProperties
  <2> QED
    BY <2>1, <2>2 DEF u, v
<1> HIDE DEF x
<1>6. ASSUME NEW i \in 1 .. Len(c) PROVE Payloads(c)[i] = x[i]
  <2>1. CASE i <= Len(a)
    BY <1>1, <1>2, <1>4, <1>5, <2>1
  <2>2. CASE ~(i <= Len(a))
    <3>1. i - Len(a) \in 1 .. Len(b)
      BY <1>1, <2>2
    <3> QED
      BY <1>1, <1>3, <1>4, <1>5, <2>2, <3>1
  <2> QED
    BY <2>1, <2>2
<1>7. Payloads(c) = x
  BY <1>1, <1>4, <1>5, <1>6, SeqEqual
<1> QED
  BY <1>7 DEF c, x

LEMMA PayloadsAppend ==
    ASSUME NEW a \in Seq(Recs), NEW r \in Recs
    PROVE  Payloads(Append(a, r)) = Append(Payloads(a), r.event)
<1>1. <<r>> \in Seq(Recs) /\ Append(a, r) = a \o <<r>>
  BY AppendIsConcat
<1>2. Payloads(<<r>>) = <<r.event>>
  BY DEF Payloads
<1>3. Payloads(a) \in Seq(Events) /\ r.event \in Events
  BY PayloadsType DEF Recs
<1>4. Append(Payloads(a), r.event) = Payloads(a) \o <<r.event>>
  BY <1>3, AppendIsConcat
<1> QED
  BY <1>1, <1>2, <1>4, PayloadsConcat

(***************************************************************************)
(* The segments on disk.  A sealed segment is whole, synced, and ends      *)
(* before its successor starts; of the last one, what is not synced is not *)
(* covered by a receipt (A: the events covered and still wanted).          *)
(***************************************************************************)
SealedSeg(s, f) ==
    /\ Clean(s.recs)
    /\ s.synced = Len(s.recs)
    /\ \A j \in 1 .. Len(s.recs) : s.recs[j].seq < f

Sealed(ss) == \A i \in 1 .. Len(ss) - 1 : SealedSeg(ss[i], ss[i + 1].first)

TailOK(t, A) ==
    /\ TornLast(t.recs)
    /\ t.synced <= Len(t.recs)
    /\ \A j \in 1 .. t.synced : t.recs[j] # Torn
    /\ \A j \in t.synced + 1 .. Len(t.recs) : t.recs[j] # Torn => t.recs[j].event \notin A

StoreOK(ss, A) ==
    /\ ss \in Seq(Segs)
    /\ Sealed(ss)
    /\ ss # <<>> => TailOK(ss[Len(ss)], A)

LEMMA TailFacts ==
    ASSUME NEW fr \in Seq(Segs), NEW t \in Segs
    PROVE  /\ Append(fr, t) \in Seq(Segs) /\ Append(fr, t) # <<>>
           /\ Len(Append(fr, t)) = Len(fr) + 1 /\ Len(fr) \in Nat
           /\ Append(fr, t)[Len(fr) + 1] = t /\ Append(fr, t)[Len(Append(fr, t))] = t
           /\ \A i \in 1 .. Len(fr) : Append(fr, t)[i] = fr[i]
           /\ Last(Append(fr, t)) = t
           /\ Front(Append(fr, t)) = fr
           /\ \A u \in Segs : [Append(fr, t) EXCEPT ![Len(Append(fr, t))] = u] = Append(fr, u)
<1>1. /\ Append(fr, t) \in Seq(Segs) /\ Append(fr, t) # <<>>
      /\ Len(Append(fr, t)) = Len(fr) + 1 /\ Len(fr) \in Nat
      /\ Append(fr, t)[Len(fr) + 1] = t
      /\ \A i \in 1 .. Len(fr) : Append(fr, t)[i] = fr[i]
  BY AppendProperties
<1>2. Last(Append(fr, t)) = t
  BY <1>1 DEF Last
<1>3. Front(Append(fr, t)) = fr
  BY <1>1 DEF Front
<1>4. ASSUME NEW u \in Segs
      PROVE  [Append(fr, t) EXCEPT ![Len(Append(fr, t))] = u] = Append(fr, u)
  <2> DEFINE a == Append(fr, t)
             b == [a EXCEPT ![Len(a)] = u]
             c == Append(fr, u)
  <2>1. /\ c \in Seq(Segs) /\ Len(c) = Len(fr) + 1 /\ c[Len(fr) + 1] = u
        /\ \A i \in 1 .. Len(fr) : c[i] = fr[i]
    BY AppendProperties
  <2>2. /\ a \in Seq(Segs) /\ Len(a) = Len(fr) + 1 /\ Len(fr) \in Nat
        /\ \A i \in 1 .. Len(fr) : a[i] = fr[i]
    BY <1>1
  <2> HIDE DEF a, c
  <2>3. /\ b \in Seq(Segs) /\ Len(b) = Len(a)
        /\ \A j \in 1 .. Len(a) : b[j] = IF j = Len(a) THEN u ELSE a[j]
    BY <2>2, ExceptSeq
  <2> HIDE DEF b
  <2>4. ASSUME NEW j \in 1 .. Len(b) PROVE b[j] = c[j]
    <3>1. j = Len(fr) + 1 \/ j \in 1 .. Len(fr)
      BY <2>2, <2>3
    <3> QED
      BY <2>1, <2>2, <2>3, <3>1
  <2>5. b = c
    BY <2>1, <2>2, <2>3, <2>4, SeqEqual
  <2> QED
    BY <2>5 DEF a, b, c
<1> QED
  BY <1>1, <1>2, <1>3, <1>4

LEMMA StoreSplit ==
    ASSUME NEW ss, NEW A, StoreOK(ss, A), ss # <<>>
    PROVE  \E fr \in Seq(Segs), t \in Segs : ss = Append(fr, t)
  BY SequenceEmptyOrAppend DEF StoreOK

LEMMA SealedIsTail ==
    ASSUME NEW s \in Segs, NEW f, SealedSeg(s, f), NEW A
    PROVE  TailOK(s, A)
<1>1. s.recs \in Seq(Bytes) /\ s.synced \in Nat
  BY DEF Segs
<1>2. s.synced = Len(s.recs) /\ Clean(s.recs) /\ Len(s.recs) \in Nat
  BY <1>1 DEF SealedSeg
<1> QED
  BY <1>1, <1>2 DEF TailOK, Clean, TornLast

LEMMA StoreScannable ==
    ASSUME NEW ss, NEW A, StoreOK(ss, A)
    PROVE  Scannable(ss)
<1>1. ss \in Seq(Segs) /\ Len(ss) \in Nat
  BY DEF StoreOK
<1>2. ASSUME NEW i \in 1 .. Len(ss) PROVE TornLast(ss[i].recs)
  <2>1. ss[i] \in Segs
    BY <1>1, ElementOfSeq
  <2>2. CASE i = Len(ss)
    <3>1. ss # <<>>
      BY <1>1
    <3> QED
      BY <2>2, <3>1 DEF StoreOK, TailOK
  <2>3. CASE i # Len(ss)
    <3>1. i \in 1 .. Len(ss) - 1
      BY <1>1, <2>3
    <3>2. SealedSeg(ss[i], ss[i + 1].first)
      BY <3>1 DEF StoreOK, Sealed
    <3> QED
      BY <3>2 DEF SealedSeg, Clean, TornLast
  <2> QED
    BY <2>2, <2>3
<1> QED
  BY <1>2 DEF Scannable

LEMMA ScannableFront ==
    ASSUME NEW fr \in Seq(Segs), NEW t \in Segs, Scannable(Append(fr, t))
    PROVE  Scannable(fr) /\ TornLast(t.recs)
<1>1. /\ Len(Append(fr, t)) = Len(fr) + 1 /\ Len(fr) \in Nat /\ Append(fr, t)[Len(fr) + 1] = t
      /\ \A i \in 1 .. Len(fr) : Append(fr, t)[i] = fr[i]
  BY TailFacts
<1> QED
  BY <1>1 DEF Scannable

LEMMA StoreBody ==
    ASSUME NEW fr \in Seq(Segs), NEW t \in Segs, NEW A, StoreOK(Append(fr, t), A)
    PROVE  /\ Body(Append(fr, t)) = Body(fr) \o Scan(t.recs)
           /\ Body(fr) \in Seq(Recs) /\ Scan(t.recs) \in Seq(Recs)
           /\ Scannable(fr)
           /\ TailOK(t, A)
<1>1. Scannable(fr) /\ TornLast(t.recs)
  BY StoreScannable, ScannableFront
<1>2. t.recs \in Seq(Bytes)
  BY DEF Segs
<1>3. TailOK(t, A)
  BY TailFacts DEF StoreOK
<1> QED
  BY <1>1, <1>2, <1>3, BodyLast, ScansType, ScanParts

\* The tail is replaced by a segment that starts at the same entry.
LEMMA ReplaceTail ==
    ASSUME NEW fr \in Seq(Segs), NEW t \in Segs, NEW u \in Segs, NEW A, NEW B,
           StoreOK(Append(fr, t), A), u.first = t.first, TailOK(u, B)
    PROVE  StoreOK(Append(fr, u), B)
<1> DEFINE a == Append(fr, t)
           b == Append(fr, u)
<1>1. /\ Len(a) = Len(fr) + 1 /\ Len(fr) \in Nat /\ a[Len(fr) + 1] = t
      /\ \A i \in 1 .. Len(fr) : a[i] = fr[i]
  BY TailFacts
<1>2. /\ b \in Seq(Segs) /\ Len(b) = Len(fr) + 1 /\ b[Len(fr) + 1] = u /\ b[Len(b)] = u
      /\ \A i \in 1 .. Len(fr) : b[i] = fr[i]
  BY TailFacts
<1>3. Sealed(a)
  BY DEF StoreOK
<1> HIDE DEF a, b
<1>4. ASSUME NEW i \in 1 .. Len(b) - 1 PROVE SealedSeg(b[i], b[i + 1].first)
  <2>1. i \in 1 .. Len(a) - 1 /\ i \in 1 .. Len(fr)
        /\ (i + 1 = Len(fr) + 1 \/ i + 1 \in 1 .. Len(fr))
    BY <1>1, <1>2
  <2>2. SealedSeg(a[i], a[i + 1].first)
    BY <1>3, <2>1 DEF Sealed
  <2>3. b[i] = a[i]
    BY <1>1, <1>2, <2>1
  <2>4. b[i + 1].first = a[i + 1].first
    BY <1>1, <1>2, <2>1
  <2> QED
    BY <2>2, <2>3, <2>4
<1>5. StoreOK(b, B)
  BY <1>2, <1>4 DEF StoreOK, Sealed
<1> QED
  BY <1>5 DEF b

\* A segment is added behind a tail that has become a sealed one.
LEMMA AddTail ==
    ASSUME NEW fr \in Seq(Segs), NEW t \in Segs, NEW u \in Segs, NEW A,
           StoreOK(Append(fr, t), A), SealedSeg(t, u.first), TailOK(u, A)
    PROVE  StoreOK(Append(Append(fr, t), u), A)
<1> DEFINE a == Append(fr, t)
           b == Append(a, u)
<1>1. /\ a \in Seq(Segs) /\ Len(a) = Len(fr) + 1 /\ Len(fr) \in Nat /\ a[Len(a)] = t
  BY TailFacts
<1>2. Sealed(a)
  BY DEF StoreOK
<1> HIDE DEF a
<1>3. /\ b \in Seq(Segs) /\ Len(b) = Len(a) + 1 /\ b[Len(a) + 1] = u /\ b[Len(b)] = u
      /\ \A i \in 1 .. Len(a) : b[i] = a[i]
  BY <1>1, TailFacts
<1> HIDE DEF b
<1>4. ASSUME NEW i \in 1 .. Len(b) - 1 PROVE SealedSeg(b[i], b[i + 1].first)
  <2>1. i \in 1 .. Len(a)
    BY <1>1, <1>3
  <2>2. CASE i = Len(a)
    <3>1. b[i] = t /\ b[i + 1] = u
      BY <1>1, <1>3, <2>1, <2>2
    <3> QED
      BY <3>1
  <2>3. CASE i # Len(a)
    <3>1. i \in 1 .. Len(a) - 1 /\ i + 1 \in 1 .. Len(a)
      BY <1>1, <2>1, <2>3
    <3>2. b[i] = a[i] /\ b[i + 1] = a[i + 1]
      BY <1>3, <2>1, <3>1
    <3> QED
      BY <1>2, <3>1, <3>2 DEF Sealed
  <2> QED
    BY <2>2, <2>3
<1>5. StoreOK(b, A)
  BY <1>3, <1>4 DEF StoreOK, Sealed
<1> QED
  BY <1>5 DEF a, b

\* Without its last segment the store ends in a sealed one.
LEMMA StoreFront ==
    ASSUME NEW fr \in Seq(Segs), NEW t \in Segs, NEW A, StoreOK(Append(fr, t), A),
           fr # <<>>
    PROVE  /\ StoreOK(fr, A)
           /\ SealedSeg(fr[Len(fr)], t.first)
<1> DEFINE a == Append(fr, t)
<1>1. /\ Len(a) = Len(fr) + 1 /\ Len(fr) \in Nat \ {0} /\ a[Len(fr) + 1] = t
      /\ \A i \in 1 .. Len(fr) : a[i] = fr[i]
  BY TailFacts, EmptySeq
<1>2. Sealed(a)
  BY DEF StoreOK
<1> HIDE DEF a
<1>3. ASSUME NEW i \in 1 .. Len(fr) - 1 PROVE SealedSeg(fr[i], fr[i + 1].first)
  <2>1. i \in 1 .. Len(a) - 1 /\ i \in 1 .. Len(fr) /\ i + 1 \in 1 .. Len(fr)
    BY <1>1
  <2>2. a[i] = fr[i] /\ a[i + 1] = fr[i + 1]
    BY <1>1, <2>1
  <2> QED
    BY <1>2, <2>1, <2>2 DEF Sealed
<1>4. SealedSeg(fr[Len(fr)], t.first)
  <2> DEFINE k == Len(fr)
  <2>1. k \in 1 .. Len(a) - 1 /\ a[k] = fr[k] /\ a[k + 1] = t
    BY <1>1
  <2> HIDE DEF k
  <2>2. SealedSeg(a[k], a[k + 1].first)
    BY <1>2, <2>1 DEF Sealed
  <2> QED
    BY <2>1, <2>2 DEF k
<1>5. fr[Len(fr)] \in Segs
  BY <1>1, ElementOfSeq
<1>6. TailOK(fr[Len(fr)], A)
  BY <1>4, <1>5, SealedIsTail
<1> QED
  BY <1>3, <1>4, <1>6 DEF StoreOK, Sealed

\* What remains of the store when its oldest segments are removed.
LEMMA DropOldest ==
    ASSUME NEW ss, NEW A, NEW B, StoreOK(ss, A), B \subseteq A,
           NEW g \in 1 .. Len(ss) - 1
    PROVE  /\ StoreOK(SubSeq(ss, g + 1, Len(ss)), B)
           /\ SubSeq(ss, g + 1, Len(ss)) # <<>>
           /\ SubSeq(ss, g + 1, Len(ss))[Len(ss) - g] = ss[Len(ss)]
           /\ Len(SubSeq(ss, g + 1, Len(ss))) = Len(ss) - g
           /\ Scannable(SubSeq(ss, 1, g)) /\ SubSeq(ss, 1, g) \in Seq(Segs)
           /\ Len(SubSeq(ss, 1, g)) = g
           /\ \A i \in 1 .. g : SubSeq(ss, 1, g)[i] = ss[i]
           /\ ss = SubSeq(ss, 1, g) \o SubSeq(ss, g + 1, Len(ss))
<1> DEFINE n == Len(ss)
           b == SubSeq(ss, g + 1, n)
           c == SubSeq(ss, 1, g)
<1>1. ss \in Seq(Segs) /\ n \in Nat /\ g \in Nat /\ g < n /\ 1 <= g /\ g \in Int /\ n \in Int
  BY DEF StoreOK
<1>2. \A i \in 1 .. n : ss[i] \in Segs
  BY <1>1, ElementOfSeq
<1>3. /\ b \in Seq(Segs) /\ Len(b) = n - g
      /\ \A i \in 1 .. n - g : b[i] = ss[g + i]
  <2>1. \A i \in g + 1 .. n : ss[i] \in Segs
    BY <1>1, <1>2
  <2> HIDE DEF n
  <2>2. /\ b \in Seq(Segs) /\ Len(b) = IF g + 1 <= n THEN n - (g + 1) + 1 ELSE 0
        /\ \A i \in 1 .. n - (g + 1) + 1 : b[i] = ss[(g + 1) + i - 1]
    BY <1>1, <2>1, SubSeqProperties
  <2> QED
    BY <1>1, <2>2
<1>4. /\ c \in Seq(Segs) /\ Len(c) = g
      /\ \A i \in 1 .. g : c[i] = ss[i]
  <2>1. \A i \in 1 .. g : ss[i] \in Segs
    BY <1>1, <1>2
  <2>2. /\ c \in Seq(Segs) /\ Len(c) = IF 1 <= g THEN g - 1 + 1 ELSE 0
        /\ \A i \in 1 .. g - 1 + 1 : c[i] = ss[1 + i - 1]
    BY <1>1, <2>1, SubSeqProperties
  <2> QED
    BY <1>1, <2>2
<1>5. Sealed(ss) /\ TailOK(ss[n], A) /\ Scannable(ss)
  <2>1. Scannable(ss)
    BY StoreScannable
  <2>2. ss # <<>>
    BY <1>1, EmptySeq
  <2> QED
    BY <2>1, <2>2 DEF StoreOK
<1>6. ss = c \o b
  <2>1. SubSeq(ss, 1, n) = ss
    BY <1>1, SubSeqFull
  <2>2. 1 \in 1 .. n + 1 /\ g \in 1 - 1 .. n /\ n \in g .. n
    BY <1>1
  <2> QED
    BY <1>1, <2>1, <2>2, ConcatAdjacentSubSeq
<1> HIDE DEF n, b, c
<1>7. b[n - g] = ss[n]
  BY <1>1, <1>3
<1>8. ASSUME NEW i \in 1 .. Len(b) - 1 PROVE SealedSeg(b[i], b[i + 1].first)
  <2>1. g + i \in 1 .. n - 1 /\ i \in 1 .. n - g /\ i + 1 \in 1 .. n - g /\ g + (i + 1) = (g + i) + 1
    BY <1>1, <1>3
  <2>2. b[i] = ss[g + i] /\ b[i + 1] = ss[(g + i) + 1]
    BY <1>3, <2>1
  <2> QED
    BY <1>5, <2>1, <2>2 DEF Sealed, n
<1>9. TailOK(ss[n], B)
  BY <1>5 DEF TailOK
<1>10. StoreOK(b, B) /\ b # <<>>
  BY <1>1, <1>3, <1>7, <1>8, <1>9 DEF StoreOK, Sealed
<1>11. Scannable(c)
  BY <1>1, <1>4, <1>5 DEF Scannable, n
<1> QED
  BY <1>3, <1>4, <1>6, <1>7, <1>10, <1>11 DEF n, b, c

(***************************************************************************)
(* The invariant.  A log that is written to is whole up to its tail's end; *)
(* one whose segment is being cut keeps what the cut has reached.          *)
(***************************************************************************)
Handles ==
    [open : {TRUE}, next : Nat \ {0}, last_synced : Int, dirty : BOOLEAN,
     poisoned : BOOLEAN, cut : {"no", "sync", "rename", "fsync"}]

WritableTail(t, hh) ==
    /\ Clean(t.recs)
    /\ \A j \in 1 .. Len(t.recs) : t.recs[j].seq < hh.next
    /\ ~hh.dirty => t.synced = Len(t.recs)
    /\ hh.cut \in {"rename", "fsync"} => ~hh.dirty
    /\ hh.cut \in {"sync", "rename"} => t.recs # <<>>

Cutting(ss, hh) ==
    hh.cut = "fsync" => /\ Len(ss) > 1
                        /\ ss[Len(ss) - 1].recs # <<>>
                        /\ ss[Len(ss)].recs = <<>>

OpenOK(ss, hh, ix, F) ==
    hh.open => /\ ss # <<>>
               /\ Range(ix) \ F \subseteq Range(Payloads(Body(ss)))
               /\ ~hh.poisoned => WritableTail(ss[Len(ss)], hh) /\ Cutting(ss, hh)

\* A segment whose name may be lost is empty, and its handle still at the cut.
NamedOK(ss, nm, hh) ==
    ~nm => /\ Len(ss) > 1 /\ ss[Len(ss)].recs = <<>>
           /\ hh.open => hh.poisoned \/ hh.cut = "fsync"

\* A handle whose sync failed is poisoned.
StuckOK(st, hh) == st /\ hh.open => hh.poisoned

WalInv ==
    /\ StoreOK(segs, receipts \ freed)
    /\ h \in Handles \cup {NoHandle}
    /\ index \in Seq(Events)
    /\ named \in BOOLEAN
    /\ OpenOK(segs, h, index, freed)
    /\ NamedOK(segs, named, h)
    /\ StuckOK(stuck, h)

(***************************************************************************)
(* What a step of the log means for the durable log                        *)
(***************************************************************************)
Refines == [Abstract!DlNext]_(Abstract!dlVars)

LEMMA StutterStep ==
    ASSUME Payloads(Body(segs')) = Payloads(Body(segs)), receipts' = receipts, freed' = freed
    PROVE  Refines
<1>1. AbstractLog' = AbstractLog /\ AbstractAcked' = AbstractAcked
  BY DEF AbstractLog, AbstractAcked, Replayed, Body, Scans
<1> QED
  BY <1>1 DEF Refines, Abstract!dlVars

LEMMA AbstractRange ==
    ASSUME NEW f
    PROVE  Abstract!Range(f) = Range(f)
  BY DEF Abstract!Range, Range

LEMMA ExtendStep ==
    ASSUME NEW e \in Events, e \notin Range(Payloads(Body(segs))),
           Payloads(Body(segs')) = Append(Payloads(Body(segs)), e),
           receipts' = receipts, freed' = freed
    PROVE  Refines
<1>1. AbstractLog' = Append(AbstractLog, e) /\ AbstractAcked' = AbstractAcked
      /\ e \notin Abstract!Range(AbstractLog)
  BY AbstractRange DEF AbstractLog, AbstractAcked, Replayed, Body, Scans
<1>2. Abstract!Extend
  BY <1>1 DEF Abstract!Extend
<1> QED
  BY <1>2 DEF Refines, Abstract!DlNext

LEMMA AcknowledgeStep ==
    ASSUME NEW m, m \ freed \subseteq Range(Payloads(Body(segs))),
           Payloads(Body(segs')) = Payloads(Body(segs)),
           receipts' = receipts \cup m, freed' = freed
    PROVE  Refines
<1>1. AbstractLog' = AbstractLog /\ AbstractAcked' = AbstractAcked \cup (m \ freed)
      /\ m \ freed \in SUBSET Abstract!Range(AbstractLog)
  BY AbstractRange DEF AbstractLog, AbstractAcked, Replayed, Body, Scans
<1>2. Abstract!Acknowledge
  BY <1>1 DEF Abstract!Acknowledge
<1> QED
  BY <1>2 DEF Refines, Abstract!DlNext

\* A sequence split into a prefix and the rest.
LEMMA SplitParts ==
    ASSUME NEW S, NEW p \in Seq(S), NEW q \in Seq(S)
    PROVE  /\ Len(p) \in 0 .. Len(p \o q)
           /\ SubSeq(p \o q, 1, Len(p)) = p
           /\ SubSeq(p \o q, Len(p) + 1, Len(p \o q)) = q
<1> DEFINE c == p \o q
           k == Len(p)
           n == Len(q)
<1>1. /\ c \in Seq(S) /\ Len(c) = k + n /\ k \in Nat /\ n \in Nat
      /\ \A i \in 1 .. k + n : c[i] = IF i <= k THEN p[i] ELSE q[i - k]
  BY ConcatProperties
<1> HIDE DEF c
<1>2. \A i \in 1 .. k + n : c[i] \in S
  BY <1>1, ElementOfSeq
<1>3. SubSeq(c, 1, k) = p
  <2>1. /\ SubSeq(c, 1, k) \in Seq(S) /\ Len(SubSeq(c, 1, k)) = k
        /\ \A i \in 1 .. k : SubSeq(c, 1, k)[i] = c[i]
    BY <1>1, <1>2, SubSeqProperties
  <2> DEFINE x == SubSeq(c, 1, k)
  <2> HIDE DEF x
  <2>2. x \in Seq(S) /\ Len(x) = Len(p) /\ \A i \in 1 .. Len(x) : x[i] = p[i]
    BY <1>1, <2>1 DEF x
  <2> QED
    BY <2>2, SeqEqual DEF x
<1>4. SubSeq(c, k + 1, k + n) = q
  <2> HIDE DEF k, n
  <2>1. /\ SubSeq(c, k + 1, k + n) \in Seq(S) /\ Len(SubSeq(c, k + 1, k + n)) = n
        /\ \A i \in 1 .. n : SubSeq(c, k + 1, k + n)[i] = c[k + i]
    <3>1. \A i \in k + 1 .. k + n : c[i] \in S
      BY <1>1, <1>2
    <3>2. /\ SubSeq(c, k + 1, k + n) \in Seq(S)
          /\ Len(SubSeq(c, k + 1, k + n)) = IF k + 1 <= k + n THEN (k + n) - (k + 1) + 1 ELSE 0
          /\ \A i \in 1 .. (k + n) - (k + 1) + 1 : SubSeq(c, k + 1, k + n)[i] = c[(k + 1) + i - 1]
      BY <1>1, <3>1, SubSeqProperties
    <3>3. (k + n) - (k + 1) + 1 = n /\ \A i \in 1 .. n : (k + 1) + i - 1 = k + i
      BY <1>1
    <3> QED
      BY <1>1, <3>2, <3>3
  <2> DEFINE x == SubSeq(c, k + 1, k + n)
  <2> HIDE DEF x
  <2>2. x \in Seq(S) /\ Len(x) = n /\ \A i \in 1 .. n : x[i] = q[i]
    <3>1. ASSUME NEW i \in 1 .. n PROVE x[i] = q[i]
      <4>1. k + i \in 1 .. k + n /\ ~(k + i <= k) /\ (k + i) - k = i
        BY <1>1
      <4>2. x[i] = c[k + i] /\ c[k + i] = q[(k + i) - k]
        BY <1>1, <2>1, <4>1 DEF x
      <4> QED
        BY <4>1, <4>2
    <3> QED
      BY <2>1, <3>1 DEF x
  <2>3. x = q
    BY <2>2, SeqEqual DEF n
  <2> QED
    BY <2>3 DEF x
<1> QED
  BY <1>1, <1>3, <1>4 DEF c

LEMMA LoseStep ==
    ASSUME NEW p \in Seq(Events), NEW q \in Seq(Events),
           Payloads(Body(segs)) = p \o q, Payloads(Body(segs')) = p,
           Range(q) \cap (receipts \ freed) = {},
           receipts' = receipts, freed' = freed
    PROVE  Refines
<1> DEFINE k == Len(p)
<1>1. AbstractLog = p \o q /\ AbstractLog' = p /\ AbstractAcked' = AbstractAcked
  BY DEF AbstractLog, AbstractAcked, Replayed, Body, Scans
<1>2. /\ k \in 0 .. Len(AbstractLog) /\ SubSeq(AbstractLog, 1, k) = p
      /\ SubSeq(AbstractLog, k + 1, Len(AbstractLog)) = q
  BY <1>1, SplitParts
<1>3. AbstractAcked \cap Abstract!Range(q) = {}
  BY AbstractRange DEF AbstractAcked
<1> HIDE DEF k
<1>4. Abstract!Lose
  BY <1>1, <1>2, <1>3 DEF Abstract!Lose
<1> QED
  BY <1>4 DEF Refines, Abstract!DlNext

LEMMA ReleaseStep ==
    ASSUME NEW p \in Seq(Events), NEW q \in Seq(Events), NEW m,
           Payloads(Body(segs)) = p \o q, Payloads(Body(segs')) = q,
           m \subseteq Range(Payloads(Body(segs))), Range(p) \subseteq freed \cup m,
           receipts' = receipts, freed' = freed \cup m
    PROVE  Refines
<1> DEFINE k == Len(p)
<1>1. /\ AbstractLog = p \o q /\ AbstractLog' = q
      /\ AbstractAcked' = AbstractAcked \ freed'
  BY DEF AbstractLog, AbstractAcked, Replayed, Body, Scans
<1>2. /\ k \in 0 .. Len(AbstractLog) /\ SubSeq(AbstractLog, 1, k) = p
      /\ SubSeq(AbstractLog, k + 1, Len(AbstractLog)) = q
  BY <1>1, SplitParts
<1>3. m \in SUBSET Abstract!Range(AbstractLog) /\ Abstract!Range(p) \subseteq freed'
  BY AbstractRange DEF AbstractLog, Replayed, Body, Scans
<1> HIDE DEF k
<1>4. Abstract!Release
  BY <1>1, <1>2, <1>3 DEF Abstract!Release
<1> QED
  BY <1>4 DEF Refines, Abstract!DlNext

(***************************************************************************)
(* The actions                                                             *)
(***************************************************************************)
LEMMA InvNext ==
    ASSUME StoreOK(segs', receipts' \ freed'), h' \in Handles \cup {NoHandle},
           index' \in Seq(Events), named' \in BOOLEAN,
           OpenOK(segs', h', index', freed'), NamedOK(segs', named', h'), StuckOK(stuck', h')
    PROVE  WalInv'
  BY DEF WalInv

LEMMA RangeAppend ==
    ASSUME NEW S, NEW a \in Seq(S), NEW e \in S
    PROVE  Range(Append(a, e)) = Range(a) \cup {e}
<1>1. Append(a, e) = a \o <<e>> /\ <<e>> \in Seq(S)
  BY AppendIsConcat
<1>2. Range(a \o <<e>>) = Range(a) \cup Range(<<e>>)
  BY <1>1, RangeConcatenation
<1>3. Range(<<e>>) = {e}
  BY DEF Range
<1> QED
  BY <1>1, <1>2, <1>3

\* The segments before the tail and the tail.
Parts(fr, t) ==
    /\ segs = Append(fr, t)
    /\ StoreOK(Append(fr, t), receipts \ freed)
    /\ TailSeg = t
    /\ \A u \in Segs : WithTail(u) = Append(fr, u)
    /\ segs[Len(segs)] = t
    /\ Len(segs) = Len(fr) + 1 /\ Len(fr) \in Nat
    /\ \A i \in 1 .. Len(fr) : segs[i] = fr[i]

TailLog(fr, t) ==
    /\ Body(segs) = Body(fr) \o Scan(t.recs)
    /\ Body(fr) \in Seq(Recs) /\ Scan(t.recs) \in Seq(Recs)
    /\ Scannable(fr)
    /\ TailOK(t, receipts \ freed)

LEMMA HasParts ==
    ASSUME WalInv, segs # <<>>
    PROVE  \E fr \in Seq(Segs), t \in Segs : Parts(fr, t) /\ TailLog(fr, t)
<1>1. StoreOK(segs, receipts \ freed)
  BY DEF WalInv
<1>2. PICK fr \in Seq(Segs), t \in Segs : segs = Append(fr, t)
  BY <1>1, StoreSplit
<1>3. Parts(fr, t)
  <2>1. /\ Last(Append(fr, t)) = t
        /\ \A u \in Segs : [Append(fr, t) EXCEPT ![Len(Append(fr, t))] = u] = Append(fr, u)
        /\ Append(fr, t)[Len(Append(fr, t))] = t
        /\ Len(Append(fr, t)) = Len(fr) + 1 /\ Len(fr) \in Nat
        /\ \A i \in 1 .. Len(fr) : Append(fr, t)[i] = fr[i]
    BY TailFacts
  <2> QED
    BY <1>1, <1>2, <2>1 DEF Parts, TailSeg, WithTail
<1>4. TailLog(fr, t)
  BY <1>1, <1>2, StoreBody DEF TailLog
<1> QED
  BY <1>3, <1>4

\* The store after the tail was replaced.
LEMMA NewTail ==
    ASSUME NEW fr \in Seq(Segs), NEW t \in Segs, Parts(fr, t), TailLog(fr, t),
           NEW u \in Segs, NEW A, u.first = t.first, TailOK(u, A), segs' = WithTail(u)
    PROVE  /\ segs' = Append(fr, u) /\ StoreOK(segs', A) /\ segs' # <<>>
           /\ segs'[Len(segs')] = u
           /\ Len(segs') = Len(fr) + 1
           /\ Body(segs') = Body(fr) \o Scan(u.recs) /\ Scan(u.recs) \in Seq(Recs)
<1>1. segs' = Append(fr, u)
  BY DEF Parts
<1>2. StoreOK(Append(fr, u), A)
  BY ReplaceTail DEF Parts
<1>3. /\ Append(fr, u) # <<>> /\ Append(fr, u)[Len(Append(fr, u))] = u
      /\ Len(Append(fr, u)) = Len(fr) + 1
  BY TailFacts
<1>4. Body(Append(fr, u)) = Body(fr) \o Scan(u.recs) /\ Scan(u.recs) \in Seq(Recs)
  BY <1>2, StoreBody
<1> QED
  BY <1>1, <1>2, <1>3, <1>4

LEMMA WholeTail ==
    ASSUME NEW t \in Segs, Clean(t.recs), t.synced = Len(t.recs), NEW A
    PROVE  TailOK(t, A)
<1>1. t.recs \in Seq(Bytes) /\ t.synced \in Nat /\ Len(t.recs) \in Nat
  BY DEF Segs
<1> QED
  BY <1>1 DEF TailOK, Clean, TornLast

LEMMA SyncedTail ==
    ASSUME NEW t \in Segs, Clean(t.recs), NEW u, u = [t EXCEPT !.synced = Len(t.recs)]
    PROVE  /\ u \in Segs /\ u.first = t.first /\ u.no = t.no /\ u.recs = t.recs
           /\ u.synced = Len(u.recs)
           /\ \A A : TailOK(u, A)
<1>1. t.recs \in Seq(Bytes) /\ Len(t.recs) \in Nat
  BY DEF Segs
<1>2. u \in Segs /\ u.first = t.first /\ u.no = t.no /\ u.recs = t.recs /\ u.synced = Len(u.recs)
  BY <1>1 DEF Segs
<1> QED
  BY <1>2, WholeTail

LEMMA UsableFacts ==
    ASSUME WalInv, h.open
    PROVE  /\ h \in Handles /\ segs # <<>>
           /\ Range(index) \ freed \subseteq Range(Payloads(Body(segs)))
           /\ ~h.poisoned => WritableTail(segs[Len(segs)], h) /\ Cutting(segs, h)
<1>1. h # NoHandle
  BY DEF NoHandle
<1> QED
  BY <1>1 DEF WalInv, OpenOK

LEMMA ClosedFacts ==
    ASSUME NEW ss, NEW ix, NEW F
    PROVE  /\ OpenOK(ss, NoHandle, ix, F) /\ NamedOK(ss, TRUE, NoHandle)
           /\ \A st : StuckOK(st, NoHandle)
  BY DEF OpenOK, NamedOK, StuckOK, NoHandle

LEMMA CreateDiesStep ==
    ASSUME WalInv, CreateDies
    PROVE  WalInv' /\ Refines
<1>1. WalInv'
  BY DEF WalInv, CreateDies
<1> QED
  BY <1>1, StutterStep DEF CreateDies

LEMMA ShipRefusedStep ==
    ASSUME WalInv, ShipRefused
    PROVE  WalInv' /\ Refines
<1>1. WalInv'
  BY DEF WalInv, ShipRefused
<1> QED
  BY <1>1, StutterStep DEF ShipRefused

\* A process that is gone leaves the store as it was.
LEMMA DeadStep ==
    ASSUME WalInv, UNCHANGED <<segs, named, index, receipts, freed>>, h' = NoHandle
    PROVE  WalInv' /\ Refines
<1>1. NamedOK(segs', named', h')
  BY DEF WalInv, NamedOK, NoHandle
<1>2. WalInv'
  BY <1>1, ClosedFacts, InvNext DEF WalInv
<1> QED
  BY <1>2, StutterStep

LEMMA KillStep ==
    ASSUME WalInv, Kill
    PROVE  WalInv' /\ Refines
  BY DeadStep DEF Kill

LEMMA CloseFailsStep ==
    ASSUME WalInv, CloseFails
    PROVE  WalInv' /\ Refines
  BY DeadStep DEF CloseFails

\* A handle that is poisoned keeps only what the store may replay.
LEMMA PoisonedStep ==
    ASSUME WalInv, h.open, UNCHANGED <<segs, named, index, receipts, freed>>,
           h' \in Handles, h'.poisoned
    PROVE  WalInv' /\ Refines
<1>1. OpenOK(segs', h', index', freed')
  BY UsableFacts DEF OpenOK
<1>2. NamedOK(segs', named', h') /\ StuckOK(stuck', h')
  BY DEF WalInv, NamedOK, StuckOK
<1>3. WalInv'
  BY <1>1, <1>2, InvNext DEF WalInv
<1> QED
  BY <1>3, StutterStep

LEMMA CutFailsStep ==
    ASSUME WalInv, CutFails
    PROVE  WalInv' /\ Refines
<1>1. h \in Handles /\ h.open
  BY UsableFacts DEF CutFails, Usable
<1>2. h' \in Handles /\ h'.poisoned
  BY <1>1 DEF CutFails, Handles
<1> QED
  BY <1>1, <1>2, PoisonedStep DEF CutFails

LEMMA SyncFailsStep ==
    ASSUME WalInv, SyncFails
    PROVE  WalInv' /\ Refines
<1>1. h \in Handles /\ h.open
  BY UsableFacts DEF SyncFails, Idle, Usable
<1>2. h' \in Handles /\ h'.poisoned
  BY <1>1 DEF SyncFails, Handles
<1> QED
  BY <1>1, <1>2, PoisonedStep DEF SyncFails

\* Drop syncs the tail unless the handle is poisoned.
LEMMA CloseStep ==
    ASSUME WalInv, Close
    PROVE  WalInv' /\ Refines
<1>1. h.open /\ h' = NoHandle /\ segs # <<>>
  BY UsableFacts DEF Close
<1>2. CASE h.poisoned
  BY <1>2, DeadStep DEF Close
<1>3. CASE ~h.poisoned
  <2>0. named /\ ~stuck
    BY <1>1, <1>3 DEF Close, WalInv, NamedOK, StuckOK
  <2>1. PICK fr \in Seq(Segs), t \in Segs : Parts(fr, t) /\ TailLog(fr, t)
    BY <1>1, HasParts
  <2>2. Clean(t.recs)
    BY <1>1, <1>3, <2>1, UsableFacts DEF Parts, WritableTail
  <2> DEFINE u == [t EXCEPT !.synced = Len(t.recs)]
  <2>3. /\ u \in Segs /\ u.first = t.first /\ u.recs = t.recs
        /\ TailOK(u, receipts \ freed)
    BY <2>2, SyncedTail
  <2>4. segs' = WithTail(u)
    BY <1>3, <2>0, <2>1 DEF Close, Synced, Parts
  <2> HIDE DEF u
  <2>5. StoreOK(segs', receipts \ freed) /\ Body(segs') = Body(segs)
    BY <2>1, <2>3, <2>4, NewTail DEF TailLog
  <2>6. WalInv'
    BY <1>1, <2>0, <2>5, ClosedFacts, InvNext DEF WalInv, Close
  <2> QED
    BY <2>5, <2>6, StutterStep DEF Close
<1> QED
  BY <1>2, <1>3

LEMMA SyncedHandle ==
    ASSUME NEW hh \in Handles, NEW c \in {"no", "sync", "rename", "fsync"}
    PROVE  /\ [hh EXCEPT !.dirty = FALSE, !.last_synced = hh.next - 1] \in Handles
           /\ [hh EXCEPT !.dirty = FALSE, !.last_synced = hh.next - 1].next = hh.next
           /\ [hh EXCEPT !.dirty = FALSE, !.last_synced = hh.next - 1].cut = hh.cut
           /\ [hh EXCEPT !.dirty = FALSE, !.last_synced = hh.next - 1, !.cut = c] \in Handles
           /\ [hh EXCEPT !.dirty = FALSE, !.last_synced = hh.next - 1, !.cut = c].next = hh.next
           /\ [hh EXCEPT !.dirty = FALSE, !.last_synced = hh.next - 1, !.cut = c].dirty = FALSE
           /\ [hh EXCEPT !.dirty = FALSE, !.last_synced = hh.next - 1, !.cut = c].cut = c
<1> DEFINE k == hh.next - 1
<1>1. k \in Int
  BY DEF Handles
<1> HIDE DEF k
<1>2. /\ [hh EXCEPT !.dirty = FALSE, !.last_synced = k] \in Handles
      /\ [hh EXCEPT !.dirty = FALSE, !.last_synced = k].next = hh.next
      /\ [hh EXCEPT !.dirty = FALSE, !.last_synced = k].cut = hh.cut
  BY <1>1 DEF Handles
<1>3. /\ [hh EXCEPT !.dirty = FALSE, !.last_synced = k, !.cut = c] \in Handles
      /\ [hh EXCEPT !.dirty = FALSE, !.last_synced = k, !.cut = c].next = hh.next
      /\ [hh EXCEPT !.dirty = FALSE, !.last_synced = k, !.cut = c].dirty = FALSE
      /\ [hh EXCEPT !.dirty = FALSE, !.last_synced = k, !.cut = c].cut = c
  BY <1>1 DEF Handles
<1> QED
  BY <1>2, <1>3 DEF k

LEMMA CutSyncStep ==
    ASSUME WalInv, CutSync
    PROVE  WalInv' /\ Refines
<1>1. h.open /\ ~h.poisoned /\ h.cut = "sync"
  BY DEF CutSync, Usable
<1>2. /\ h \in Handles /\ segs # <<>>
      /\ Range(index) \ freed \subseteq Range(Payloads(Body(segs)))
      /\ WritableTail(segs[Len(segs)], h)
  BY <1>1, UsableFacts
<1>3. PICK fr \in Seq(Segs), t \in Segs : Parts(fr, t) /\ TailLog(fr, t)
  BY <1>2, HasParts
<1>4. WritableTail(t, h)
  BY <1>2, <1>3 DEF Parts
<1> DEFINE u == [t EXCEPT !.synced = Len(t.recs)]
<1>5. /\ u \in Segs /\ u.first = t.first /\ u.recs = t.recs /\ u.synced = Len(u.recs)
      /\ TailOK(u, receipts \ freed)
  BY <1>4, SyncedTail DEF WritableTail
<1>a. named /\ ~stuck
  BY <1>1 DEF WalInv, NamedOK, StuckOK
<1>6. segs' = WithTail(u)
  BY <1>3, <1>a DEF CutSync, Synced, Parts
<1> HIDE DEF u
<1>7. /\ StoreOK(segs', receipts \ freed) /\ Body(segs') = Body(segs) /\ segs' # <<>>
      /\ segs'[Len(segs')] = u
  <2>1. /\ StoreOK(segs', receipts \ freed) /\ segs' # <<>> /\ segs'[Len(segs')] = u
        /\ Body(segs') = Body(fr) \o Scan(u.recs)
    BY <1>3, <1>5, <1>6, NewTail, Zenon
  <2> QED
    BY <1>3, <1>5, <2>1 DEF TailLog
<1>8. h' \in Handles /\ h'.next = h.next /\ h'.dirty = FALSE /\ h'.cut = "rename"
  BY <1>2, SyncedHandle DEF CutSync
<1>9. WritableTail(u, h') /\ Cutting(segs', h')
  BY <1>1, <1>4, <1>5, <1>8 DEF WritableTail, Cutting
<1>10. OpenOK(segs', h', index', freed')
  BY <1>2, <1>7, <1>9 DEF OpenOK, CutSync
<1>12. WalInv'
  BY <1>7, <1>8, <1>10, <1>a, InvNext DEF WalInv, CutSync, NamedOK, StuckOK
<1> QED
  BY <1>7, <1>12, StutterStep DEF CutSync

LEMMA CutRenameStep ==
    ASSUME WalInv, CutRename
    PROVE  WalInv' /\ Refines
<1>1. h.open /\ ~h.poisoned /\ h.cut = "rename"
  BY DEF CutRename, Usable
<1>2. /\ h \in Handles /\ segs # <<>>
      /\ Range(index) \ freed \subseteq Range(Payloads(Body(segs)))
      /\ WritableTail(segs[Len(segs)], h)
  BY <1>1, UsableFacts
<1>3. PICK fr \in Seq(Segs), t \in Segs : Parts(fr, t) /\ TailLog(fr, t)
  BY <1>2, HasParts
<1>4. WritableTail(t, h) /\ ~h.dirty /\ t.recs # <<>>
  BY <1>1, <1>2, <1>3 DEF Parts, WritableTail
<1> DEFINE u == Segment(t.no + 1, h.next)
<1>5. /\ u \in Segs /\ u.first = h.next /\ u.recs = <<>> /\ u.synced = 0
  <2>1. t.no \in Nat /\ h.next \in Nat
    BY <1>2 DEF Segs, Handles
  <2>2. <<>> \in Seq(Bytes)
    OBVIOUS
  <2> QED
    BY <2>1, <2>2 DEF Segment, Segs
<1>6. segs' = Append(segs, u)
  BY <1>3 DEF CutRename, Parts
<1> HIDE DEF u
<1>7. Clean(u.recs) /\ Len(u.recs) = 0
  BY <1>5 DEF Clean
<1>8. TailOK(u, receipts \ freed)
  BY <1>5, <1>7, WholeTail
<1>9. SealedSeg(t, u.first)
  BY <1>4, <1>5 DEF SealedSeg, WritableTail
<1>10. segs \in Seq(Segs) /\ Len(segs) \in Nat /\ Len(segs) > 0
  BY <1>3 DEF WalInv, StoreOK, Parts
<1>11. StoreOK(segs', receipts \ freed)
  <2>1. StoreOK(Append(Append(fr, t), u), receipts \ freed)
    BY <1>3, <1>5, <1>8, <1>9, AddTail DEF Parts
  <2> QED
    BY <1>3, <1>6, <2>1 DEF Parts
<1>12. Body(segs') = Body(segs)
  <2>1. Body(Append(segs, u)) = Body(segs) \o Scan(u.recs) /\ Body(segs) \in Seq(Recs)
    BY <1>5, <1>6, <1>10, <1>11, StoreBody
  <2>2. Scan(u.recs) = <<>>
    BY <1>5, <1>7, ScanClean DEF Segs
  <2>3. Body(segs) \o <<>> = Body(segs)
    BY <2>1, ConcatEmptySeq
  <2> QED
    BY <1>6, <2>1, <2>2, <2>3
<1>13. /\ segs' # <<>> /\ Len(segs') = Len(segs) + 1 /\ segs'[Len(segs')] = u
       /\ segs'[Len(segs') - 1] = t
  <2>1. /\ segs' # <<>> /\ Len(segs') = Len(segs) + 1 /\ segs'[Len(segs')] = u
        /\ \A i \in 1 .. Len(segs) : segs'[i] = segs[i]
    BY <1>5, <1>6, <1>10, TailFacts
  <2>2. Len(segs') - 1 = Len(segs) /\ Len(segs) \in 1 .. Len(segs)
    BY <1>10, <2>1
  <2>3. segs'[Len(segs)] = segs[Len(segs)]
    BY <2>1, <2>2
  <2> QED
    BY <1>3, <2>1, <2>2, <2>3 DEF Parts
<1>14. h' \in Handles /\ h'.next = h.next /\ h'.dirty = h.dirty /\ h'.cut = "fsync"
       /\ h'.open /\ ~h'.poisoned
  BY <1>1, <1>2 DEF CutRename, Handles
<1>15. WritableTail(u, h')
  BY <1>4, <1>5, <1>7, <1>14 DEF WritableTail
<1>16. Cutting(segs', h')
  BY <1>4, <1>5, <1>10, <1>13 DEF Cutting
<1>17. OpenOK(segs', h', index', freed')
  BY <1>2, <1>12, <1>13, <1>15, <1>16 DEF OpenOK, CutRename
<1>18. NamedOK(segs', named', h') /\ StuckOK(stuck', h')
  BY <1>14, <1>16 DEF NamedOK, Cutting, StuckOK, CutRename
<1>19. WalInv'
  BY <1>11, <1>14, <1>17, <1>18, InvNext DEF WalInv, CutRename
<1> QED
  BY <1>12, <1>19, StutterStep DEF CutRename

LEMMA CutDoneStep ==
    ASSUME WalInv, CutDone
    PROVE  WalInv' /\ Refines
<1>1. h.open /\ ~h.poisoned /\ h.cut = "fsync"
  BY DEF CutDone, Usable
<1>2. /\ h \in Handles /\ segs # <<>>
      /\ Range(index) \ freed \subseteq Range(Payloads(Body(segs)))
      /\ WritableTail(segs[Len(segs)], h) /\ Cutting(segs, h)
  BY <1>1, UsableFacts
<1>3. StoreOK(segs, receipts \ freed) /\ segs \in Seq(Segs) /\ index \in Seq(Events)
  BY DEF WalInv, StoreOK
<1> DEFINE n == Len(segs)
           s == segs[n - 1]
           r == Last(s.recs)
<1>4. n \in Nat /\ n > 1 /\ n - 1 \in 1 .. n /\ n - 1 \in 1 .. n - 1 /\ s.recs # <<>>
  BY <1>1, <1>2, <1>3 DEF Cutting
<1>5. s \in Segs /\ SealedSeg(s, segs[(n - 1) + 1].first)
  <2>1. s \in Segs
    BY <1>3, <1>4, ElementOfSeq
  <2> QED
    BY <1>3, <1>4, <2>1 DEF StoreOK, Sealed
<1>6. Clean(s.recs) /\ s.recs \in Seq(Bytes)
  BY <1>5 DEF SealedSeg, Segs
<1>7. s.recs \in Seq(Recs) /\ Scan(s.recs) = s.recs
  BY <1>6, ScanClean, CleanType
<1>8. r \in Range(s.recs) /\ r \in Recs
  <2> DEFINE q == s.recs
  <2> HIDE DEF q, s
  <2>1. q \in Seq(Recs) /\ q # <<>>
    BY <1>4, <1>7 DEF q
  <2>2. Len(q) \in 1 .. Len(q) /\ q[Len(q)] \in Recs
    BY <2>1
  <2>3. Range(q) = {q[i] : i \in 1 .. Len(q)}
    BY <2>1, RangeEquality
  <2> QED
    BY <2>2, <2>3 DEF q, Last
<1>9. r \in Range(Body(segs))
  <2>1. Scannable(segs)
    BY <1>3, StoreScannable
  <2>2. r \in Range(Scan(segs[n - 1].recs))
    BY <1>7, <1>8
  <2> HIDE DEF r
  <2> QED
    BY <1>3, <1>4, <2>1, <2>2, BodyRange
<1>10. r.event \in Range(Payloads(Body(segs))) /\ r.event \in Events
  <2>1. Body(segs) \in Seq(Recs)
    BY <1>3, StoreScannable, ScansType
  <2>2. Range(Payloads(Body(segs))) = {x.event : x \in Range(Body(segs))}
    BY <2>1, PayloadsType
  <2> HIDE DEF r
  <2> QED
    BY <1>8, <1>9, <2>2 DEF Recs
<1>11. index' = Append(index, r.event)
  BY DEF CutDone
<1> HIDE DEF r
<1>12. index' \in Seq(Events) /\ Range(index') = Range(index) \cup {r.event}
  BY <1>3, <1>10, <1>11, RangeAppend, AppendProperties
<1>13. h' \in Handles /\ h'.next = h.next /\ h'.dirty = h.dirty /\ h'.cut = "no"
  BY <1>2 DEF CutDone, Handles
<1>14. segs' = segs /\ freed' = freed /\ receipts' = receipts /\ named' = TRUE
  BY DEF CutDone
<1>15. WritableTail(segs'[Len(segs')], h') /\ Cutting(segs', h')
  BY <1>1, <1>2, <1>13, <1>14 DEF WritableTail, Cutting
<1>16. OpenOK(segs', h', index', freed')
  BY <1>2, <1>10, <1>12, <1>14, <1>15 DEF OpenOK
<1>17. NamedOK(segs', named', h') /\ StuckOK(stuck', h')
  BY <1>1, <1>14 DEF NamedOK, StuckOK, WalInv, CutDone
<1>18. WalInv'
  BY <1>3, <1>12, <1>13, <1>14, <1>16, <1>17, InvNext
<1> QED
  BY <1>14, <1>18, StutterStep

LEMMA SyncStep ==
    ASSUME WalInv, Sync
    PROVE  WalInv' /\ Refines
<1>1. h.open /\ ~h.poisoned /\ h.cut = "no"
  BY DEF Sync, Idle, Usable
<1>2. /\ h \in Handles /\ segs # <<>>
      /\ Range(index) \ freed \subseteq Range(Payloads(Body(segs)))
      /\ WritableTail(segs[Len(segs)], h)
  BY <1>1, UsableFacts
<1>3. PICK fr \in Seq(Segs), t \in Segs : Parts(fr, t) /\ TailLog(fr, t)
  BY <1>2, HasParts
<1>4. WritableTail(t, h)
  BY <1>2, <1>3 DEF Parts
<1> DEFINE u == IF h.dirty THEN [t EXCEPT !.synced = Len(t.recs)] ELSE t
           A == receipts' \ freed'
<1>5. /\ u \in Segs /\ u.first = t.first /\ u.recs = t.recs /\ u.synced = Len(u.recs)
      /\ TailOK(u, A)
  <2> HIDE DEF A
  <2>1. CASE h.dirty
    BY <1>4, <2>1, SyncedTail DEF WritableTail
  <2>2. CASE ~h.dirty
    BY <1>4, <2>2, WholeTail DEF WritableTail
  <2> QED
    BY <2>1, <2>2
<1>a. named /\ ~stuck
  BY <1>1 DEF WalInv, NamedOK, StuckOK
<1>6. segs' = WithTail(u)
  <2>1. CASE h.dirty
    BY <1>3, <1>a, <2>1 DEF Sync, Synced, Parts
  <2>2. CASE ~h.dirty
    BY <1>3, <2>2 DEF Sync, Parts
  <2> QED
    BY <2>1, <2>2
<1> HIDE DEF u, A
<1>7. /\ StoreOK(segs', A) /\ Body(segs') = Body(segs) /\ segs' # <<>>
      /\ segs'[Len(segs')] = u
  <2>1. /\ StoreOK(segs', A) /\ segs' # <<>> /\ segs'[Len(segs')] = u
        /\ Body(segs') = Body(fr) \o Scan(u.recs)
    BY <1>3, <1>5, <1>6, NewTail, Zenon
  <2> QED
    BY <1>3, <1>5, <2>1 DEF TailLog
<1>8. h' \in Handles /\ h'.next = h.next /\ h'.cut = "no"
  <2>1. CASE h.dirty
    BY <1>1, <1>2, <2>1, SyncedHandle DEF Sync
  <2>2. CASE ~h.dirty
    BY <1>1, <1>2, <2>2 DEF Sync
  <2> QED
    BY <2>1, <2>2
<1>9. WritableTail(u, h') /\ Cutting(segs', h')
  BY <1>4, <1>5, <1>8 DEF WritableTail, Cutting
<1>10. OpenOK(segs', h', index', freed')
  BY <1>2, <1>7, <1>9 DEF OpenOK, Sync
<1>12. WalInv'
  BY <1>7, <1>8, <1>10, <1>a, InvNext DEF WalInv, Sync, NamedOK, StuckOK, A
<1> QED
  BY <1>2, <1>7, <1>12, AcknowledgeStep DEF Sync

LEMMA ShipFailsStep ==
    ASSUME WalInv, ShipFails
    PROVE  WalInv' /\ Refines
<1>1. h.open /\ ~h.poisoned /\ h.cut = "no"
  BY DEF ShipFails, Idle, Usable
<1>2. /\ h \in Handles /\ segs # <<>>
      /\ Range(index) \ freed \subseteq Range(Payloads(Body(segs)))
      /\ WritableTail(segs[Len(segs)], h)
  BY <1>1, UsableFacts
<1>3. PICK fr \in Seq(Segs), t \in Segs : Parts(fr, t) /\ TailLog(fr, t)
  BY <1>2, HasParts
<1>4. Clean(t.recs) /\ t.recs \in Seq(Bytes) /\ Torn \in Bytes /\ t.synced \in Nat
  BY <1>2, <1>3 DEF Parts, WritableTail, Segs, Bytes
<1> DEFINE v == Append(t.recs, Torn)
           u == [t EXCEPT !.recs = v]
<1>5. /\ v \in Seq(Bytes) /\ Len(v) = Len(t.recs) + 1 /\ Len(t.recs) \in Nat
      /\ \A i \in 1 .. Len(t.recs) : v[i] = t.recs[i]
      /\ v[Len(t.recs) + 1] = Torn
  BY <1>4, AppendProperties
<1>6. Scan(v) = t.recs
  BY <1>4, ScanTorn
<1>7. segs' = WithTail(u)
  BY <1>3 DEF ShipFails, Parts
<1> HIDE DEF v
<1>8. u \in Segs /\ u.first = t.first /\ u.recs = v /\ u.synced = t.synced
  BY <1>5 DEF Segs
<1> HIDE DEF u
<1>9. TailOK(u, receipts \ freed)
  <2>1. TailOK(t, receipts \ freed)
    BY <1>3 DEF TailLog
  <2>2. TornLast(v)
    <3>1. ASSUME NEW j \in 1 .. Len(v), v[j] = Torn PROVE j = Len(v)
      <4>1. j \in 1 .. Len(t.recs) \/ j = Len(v)
        BY <1>5
      <4> QED
        BY <1>4, <1>5, <3>1, <4>1 DEF Clean
    <3> QED
      BY <3>1 DEF TornLast
  <2>3. t.synced <= Len(v) /\ \A j \in 1 .. t.synced : v[j] # Torn
    <3>1. t.synced <= Len(t.recs) /\ \A j \in 1 .. t.synced : t.recs[j] # Torn
      BY <2>1 DEF TailOK
    <3>2. \A j \in 1 .. t.synced : j \in 1 .. Len(t.recs)
      BY <1>4, <1>5, <3>1
    <3>3. t.synced <= Len(v)
      BY <1>4, <1>5, <3>1
    <3> QED
      BY <1>5, <3>1, <3>2, <3>3
  <2>4. ASSUME NEW j \in t.synced + 1 .. Len(v), v[j] # Torn
        PROVE  v[j].event \notin receipts \ freed
    <3>1. j \in t.synced + 1 .. Len(t.recs) /\ j \in 1 .. Len(t.recs)
      BY <1>4, <1>5, <2>4
    <3>2. v[j] = t.recs[j]
      BY <1>5, <3>1
    <3> QED
      BY <2>1, <2>4, <3>1, <3>2 DEF TailOK
  <2> QED
    BY <1>8, <2>2, <2>3, <2>4 DEF TailOK
<1>10. /\ StoreOK(segs', receipts \ freed) /\ segs' # <<>>
       /\ Body(segs') = Body(fr) \o Scan(u.recs)
  BY <1>3, <1>7, <1>8, <1>9, NewTail
<1>11. Body(segs') = Body(segs)
  <2>1. Scan(t.recs) = t.recs
    BY <1>4, ScanClean
  <2> QED
    BY <1>3, <1>6, <1>8, <1>10, <2>1 DEF TailLog
<1>12. h' \in Handles /\ h'.poisoned
  BY <1>2 DEF ShipFails, Handles
<1>13. OpenOK(segs', h', index', freed')
  BY <1>2, <1>10, <1>11, <1>12 DEF OpenOK, ShipFails
<1>14. named
  BY <1>1 DEF WalInv, NamedOK
<1>15. WalInv'
  BY <1>10, <1>12, <1>13, <1>14, InvNext DEF WalInv, ShipFails, NamedOK, StuckOK
<1> QED
  BY <1>11, <1>15, StutterStep DEF ShipFails

LEMMA ShipStep ==
    ASSUME WalInv, NEW e \in Events, Ship(e)
    PROVE  WalInv' /\ Refines
<1>1. h.open /\ ~h.poisoned /\ h.cut = "no"
  BY DEF Ship, Idle, Usable
<1>2. /\ h \in Handles /\ segs # <<>>
      /\ Range(index) \ freed \subseteq Range(Payloads(Body(segs)))
      /\ WritableTail(segs[Len(segs)], h)
  BY <1>1, UsableFacts
<1>3. PICK fr \in Seq(Segs), t \in Segs : Parts(fr, t) /\ TailLog(fr, t)
  BY <1>2, HasParts
<1>4. /\ WritableTail(t, h) /\ Clean(t.recs) /\ t.recs \in Seq(Bytes) /\ t.synced \in Nat
      /\ h.next \in Nat \ {0}
  BY <1>2, <1>3 DEF Parts, WritableTail, Segs, Handles
<1> DEFINE r == [seq |-> h.next, event |-> e]
<1>5. r \in Recs /\ r # Torn /\ r \in Bytes /\ r.seq = h.next /\ r.event = e
  BY <1>4 DEF Recs, Bytes, Torn
<1> DEFINE v == Append(t.recs, r)
           u == [t EXCEPT !.recs = v]
<1>6. segs' = WithTail(u)
  BY <1>3 DEF Ship, Parts
<1> HIDE DEF r
<1>7. /\ v \in Seq(Bytes) /\ Len(v) = Len(t.recs) + 1 /\ Len(t.recs) \in Nat /\ v # <<>>
      /\ \A i \in 1 .. Len(t.recs) : v[i] = t.recs[i]
      /\ v[Len(t.recs) + 1] = r
  BY <1>4, <1>5, AppendProperties
<1> HIDE DEF v
<1>8. \A j \in 1 .. Len(v) : j \in 1 .. Len(t.recs) \/ j = Len(t.recs) + 1
  BY <1>7
<1>9. Clean(v)
  BY <1>4, <1>5, <1>7, <1>8 DEF Clean
<1>10. u \in Segs /\ u.first = t.first /\ u.recs = v /\ u.synced = t.synced
  BY <1>7 DEF Segs
<1> HIDE DEF u
<1>11. e \notin receipts \cup freed
  BY DEF Ship
<1>12. TailOK(u, receipts \ freed)
  <2>1. TailOK(t, receipts \ freed)
    BY <1>3 DEF TailLog
  <2>2. TornLast(v)
    BY <1>9 DEF TornLast, Clean
  <2>3. t.synced <= Len(t.recs)
    BY <2>1 DEF TailOK
  <2>4. t.synced <= Len(v) /\ \A j \in 1 .. t.synced : v[j] # Torn
    <3>1. t.synced <= Len(v) /\ \A j \in 1 .. t.synced : j \in 1 .. Len(v)
      BY <1>4, <1>7, <2>3
    <3> QED
      BY <1>9, <3>1 DEF Clean
  <2>5. ASSUME NEW j \in t.synced + 1 .. Len(v)
        PROVE  v[j].event \notin receipts \ freed
    <3>1. CASE j = Len(t.recs) + 1
      BY <1>5, <1>7, <1>11, <3>1
    <3>2. CASE j # Len(t.recs) + 1
      <4>1. j \in t.synced + 1 .. Len(t.recs) /\ j \in 1 .. Len(t.recs)
        BY <1>4, <1>7, <3>2
      <4>2. v[j] = t.recs[j] /\ t.recs[j] # Torn
        BY <1>4, <1>7, <4>1 DEF Clean
      <4> QED
        BY <2>1, <4>1, <4>2 DEF TailOK
    <3> QED
      BY <3>1, <3>2
  <2> QED
    BY <1>10, <2>2, <2>4, <2>5 DEF TailOK
<1>13. /\ StoreOK(segs', receipts \ freed) /\ segs' # <<>> /\ segs'[Len(segs')] = u
       /\ Body(segs') = Body(fr) \o Scan(u.recs)
  BY <1>3, <1>6, <1>10, <1>12, NewTail
<1>14. Body(segs') = Append(Body(segs), r) /\ Body(segs) \in Seq(Recs)
  <2> DEFINE b == Body(fr)
             q == t.recs
  <2>1. Scan(t.recs) = t.recs /\ Scan(v) = v /\ t.recs \in Seq(Recs)
    BY <1>4, <1>7, <1>9, ScanClean, CleanType
  <2>2. b \in Seq(Recs) /\ Body(segs) = b \o q /\ Body(segs') = b \o v
    BY <1>3, <1>10, <1>13, <2>1 DEF TailLog
  <2>3. v = Append(q, r) /\ q \in Seq(Recs)
    BY <2>1 DEF v
  <2> HIDE DEF b, q
  <2>4. b \o Append(q, r) = Append(b \o q, r) /\ b \o q \in Seq(Recs)
    BY <1>5, <2>2, <2>3
  <2> QED
    BY <2>2, <2>3, <2>4
<1>15. Payloads(Body(segs')) = Append(Payloads(Body(segs)), e)
  BY <1>5, <1>14, PayloadsAppend
<1>16. /\ Payloads(Body(segs)) \in Seq(Events)
       /\ Range(Payloads(Body(segs))) = {x.event : x \in Range(Body(segs))}
  BY <1>14, PayloadsType
<1>17. e \notin Range(Payloads(Body(segs)))
  BY <1>16, ReplayedBody DEF Ship
<1>18. Range(Payloads(Body(segs'))) = Range(Payloads(Body(segs))) \cup {e}
  BY <1>15, <1>16, RangeAppend
<1>19. index' \in Seq(Events) /\ Range(index') \subseteq Range(index) \cup {e}
  <2>1. index \in Seq(Events) /\ (index' = index \/ index' = Append(index, e))
    BY DEF WalInv, Ship
  <2>2. Append(index, e) \in Seq(Events) /\ Range(Append(index, e)) = Range(index) \cup {e}
    BY <2>1, RangeAppend, AppendProperties
  <2> QED
    BY <2>1, <2>2
<1>20. /\ h' \in Handles /\ h'.next = h.next + 1 /\ h'.dirty = TRUE
       /\ h'.cut \in {"sync", "no"}
  <2> DEFINE c == IF Len(v) >= SegmentSize THEN "sync" ELSE "no"
             k == h.next + 1
  <2>1. h' = [h EXCEPT !.next = k, !.dirty = TRUE, !.cut = c]
    <3>1. TailSeg = t /\ [t EXCEPT !.recs = Append(t.recs, r)].recs = Append(t.recs, r)
      BY <1>3 DEF Parts, Segs
    <3> QED
      BY <3>1 DEF Ship, v, r
  <2>2. k \in Nat \ {0} /\ c \in {"sync", "no"}
    BY <1>4
  <2> HIDE DEF c, k
  <2>3. h' \in Handles /\ h'.next = k /\ h'.dirty = TRUE /\ h'.cut = c
    BY <1>2, <2>1, <2>2 DEF Handles
  <2> QED
    BY <2>2, <2>3 DEF k
<1>21. WritableTail(u, h')
  <2>1. ASSUME NEW j \in 1 .. Len(v) PROVE v[j].seq < h'.next
    <3>1. CASE j = Len(t.recs) + 1
      BY <1>4, <1>5, <1>7, <1>20, <3>1
    <3>2. CASE j \in 1 .. Len(t.recs)
      <4>1. v[j] = t.recs[j] /\ t.recs[j].seq < h.next
        BY <1>4, <1>7, <3>2 DEF WritableTail
      <4>2. t.recs[j] \in Recs
        BY <1>4, <3>2, CleanType, ElementOfSeq
      <4>3. t.recs[j].seq \in Nat
        BY <4>2 DEF Recs
      <4> QED
        BY <1>4, <1>20, <4>1, <4>3
    <3> QED
      BY <1>8, <3>1, <3>2
  <2> QED
    BY <1>7, <1>9, <1>10, <1>20, <2>1 DEF WritableTail
<1>22. Cutting(segs', h')
  BY <1>20 DEF Cutting
<1>23. receipts' = receipts /\ freed' = freed /\ named' = named /\ stuck' = stuck
  BY DEF Ship
<1>24. OpenOK(segs', h', index', freed')
  BY <1>2, <1>13, <1>18, <1>19, <1>21, <1>22, <1>23 DEF OpenOK
<1>25. named /\ named \in BOOLEAN /\ ~stuck
  BY <1>1 DEF WalInv, NamedOK, StuckOK
<1>26. WalInv'
  BY <1>13, <1>19, <1>20, <1>23, <1>24, <1>25, InvNext DEF NamedOK, StuckOK
<1> QED
  BY <1>15, <1>17, <1>23, <1>26, ExtendStep

LEMMA EmptyBody ==
    ASSUME NEW no \in Nat, NEW f \in Nat
    PROVE  /\ Segment(no, f) \in Segs /\ Segment(no, f).recs = <<>>
           /\ \A A : StoreOK(<<Segment(no, f)>>, A)
           /\ Body(<<Segment(no, f)>>) = <<>> /\ Body(<<>>) = <<>>
           /\ Clean(Segment(no, f).recs) /\ Segment(no, f).synced = 0
<1> DEFINE u == Segment(no, f)
<1>1. u \in Segs /\ u.recs = <<>> /\ u.synced = 0 /\ Len(u.recs) = 0 /\ Clean(u.recs)
  <2>1. <<>> \in Seq(Bytes)
    OBVIOUS
  <2> QED
    BY <2>1 DEF Segment, Segs, Clean
<1> HIDE DEF u
<1>2. /\ <<u>> \in Seq(Segs) /\ Len(<<u>>) = 1 /\ <<u>>[1] = u /\ <<u>> # <<>>
      /\ <<u>> = Append(<<>>, u) /\ <<>> \in Seq(Segs)
  BY <1>1
<1>3. ASSUME NEW A PROVE StoreOK(<<u>>, A)
  <2>1. TailOK(u, A)
    BY <1>1, WholeTail
  <2> QED
    BY <1>2, <2>1 DEF StoreOK, Sealed
<1>4. Body(<<>>) = <<>>
  <2>1. Scans(<<>>) = <<>>
    BY DEF Scans
  <2>2. <<>> \in Seq(Seq(Recs))
    OBVIOUS
  <2> QED
    BY <2>1, <2>2, FlattenIsFlat DEF Body
<1>5. Body(<<u>>) = <<>>
  <2>1. Scan(u.recs) = <<>>
    BY <1>1, ScanClean DEF Segs
  <2>2. StoreOK(Append(<<>>, u), {})
    BY <1>2, <1>3
  <2>3. Body(Append(<<>>, u)) = Body(<<>>) \o Scan(u.recs)
    BY <1>1, <1>2, <2>2, StoreBody
  <2>4. <<>> \o <<>> = <<>>
    OBVIOUS
  <2> QED
    BY <1>2, <1>4, <2>1, <2>3, <2>4
<1> QED
  BY <1>1, <1>3, <1>4, <1>5 DEF u

LEMMA FreshType ==
    ASSUME NEW k \in Nat \ {0}
    PROVE  /\ Fresh(k) \in Handles /\ Fresh(k).next = k /\ Fresh(k).dirty = FALSE
           /\ Fresh(k).cut = "no"
  BY DEF Fresh, Handles

LEMMA CreateStep ==
    ASSUME WalInv, Create
    PROVE  WalInv' /\ Refines
<1> DEFINE u == Segment(0, 0)
<1>1. /\ segs = <<>> /\ segs' = <<u>> /\ named' = TRUE /\ h' = Fresh(1)
      /\ index' = <<>> /\ receipts' = receipts /\ freed' = freed
  BY DEF Create
<1>2. /\ u \in Segs /\ u.recs = <<>> /\ StoreOK(<<u>>, receipts \ freed)
      /\ Body(<<u>>) = <<>> /\ Body(<<>>) = <<>> /\ Clean(u.recs) /\ u.synced = 0
  BY EmptyBody
<1> HIDE DEF u
<1>3. h' \in Handles /\ h'.dirty = FALSE /\ h'.cut = "no"
  <2>1. 1 \in Nat \ {0}
    OBVIOUS
  <2>2. Fresh(1) \in Handles /\ Fresh(1).dirty = FALSE /\ Fresh(1).cut = "no"
    BY <2>1, FreshType
  <2> QED
    BY <1>1, <2>2
<1>4. segs' # <<>> /\ segs'[Len(segs')] = u
  BY <1>1
<1>5. WritableTail(u, h') /\ Cutting(segs', h')
  BY <1>2, <1>3 DEF WritableTail, Cutting
<1>6. Range(index') = {} /\ index' \in Seq(Events)
  BY <1>1 DEF Range
<1>7. OpenOK(segs', h', index', freed')
  BY <1>4, <1>5, <1>6 DEF OpenOK
<1>8. WalInv'
  BY <1>1, <1>2, <1>3, <1>6, <1>7, InvNext DEF NamedOK, StuckOK, Create
<1> QED
  BY <1>1, <1>2, <1>8, StutterStep

\* open: the tail without its torn suffix, synced.
LEMMA TruncatedTail ==
    ASSUME NEW t \in Segs, NEW A, TailOK(t, A), NEW u,
           u = [t EXCEPT !.recs = Scan(t.recs), !.synced = Len(Scan(t.recs))]
    PROVE  /\ u \in Segs /\ u.first = t.first /\ u.recs = Scan(t.recs)
           /\ u.synced = Len(u.recs) /\ Clean(u.recs)
           /\ TailOK(u, A) /\ Scan(u.recs) = Scan(t.recs)
<1> DEFINE v == Scan(t.recs)
<1>1. v \in Seq(Bytes) /\ v \in Seq(Recs) /\ Clean(v)
  BY ScanParts DEF TailOK, Segs
<1>2. Len(v) \in Nat
  BY <1>1
<1>3. Scan(v) = v
  BY <1>1, ScanClean
<1> HIDE DEF v
<1>4. u \in Segs /\ u.first = t.first /\ u.recs = v /\ u.synced = Len(v)
  <2>1. u = [t EXCEPT !.recs = v, !.synced = Len(v)]
    BY DEF v
  <2> QED
    BY <1>1, <1>2, <2>1 DEF Segs
<1>5. TailOK(u, A)
  BY <1>1, <1>4, WholeTail
<1> QED
  BY <1>1, <1>3, <1>4, <1>5 DEF v

LEMMA TruncateStore ==
    ASSUME WalInv, segs # <<>>, ~stuck, segs' = WithTail(Truncated)
    PROVE  /\ StoreOK(segs', receipts \ freed) /\ segs' # <<>>
           /\ Body(segs') = Body(segs) /\ Body(segs) \in Seq(Recs)
           /\ \E u \in Segs : /\ segs'[Len(segs')] = u /\ u.synced = Len(u.recs)
                              /\ Clean(u.recs) /\ u.recs \in Seq(Recs)
                              /\ Range(u.recs) \subseteq Range(Body(segs))
<1>1. PICK fr \in Seq(Segs), t \in Segs : Parts(fr, t) /\ TailLog(fr, t)
  BY HasParts
<1> DEFINE u == [t EXCEPT !.recs = Scan(t.recs), !.synced = Len(Scan(t.recs))]
<1>2. /\ u \in Segs /\ u.first = t.first /\ u.recs = Scan(t.recs)
      /\ u.synced = Len(u.recs) /\ Clean(u.recs)
      /\ TailOK(u, receipts \ freed) /\ Scan(u.recs) = Scan(t.recs)
  <2>1. TailOK(t, receipts \ freed)
    BY <1>1 DEF TailLog
  <2> QED
    BY <2>1, TruncatedTail, Zenon
<1>3. segs' = WithTail(u)
  <2>1. [[t EXCEPT !.recs = Scan(t.recs)] EXCEPT !.synced = Len(Scan(t.recs))] = u
    BY DEF Segs
  <2> QED
    BY <1>1, <2>1 DEF Truncated, Cleaned, Parts
<1> HIDE DEF u
<1>4. /\ StoreOK(segs', receipts \ freed) /\ segs' # <<>> /\ segs'[Len(segs')] = u
      /\ Body(segs') = Body(fr) \o Scan(u.recs)
  BY <1>1, <1>2, <1>3, NewTail
<1>5. Body(segs') = Body(segs)
  BY <1>1, <1>2, <1>4 DEF TailLog
<1>6. u.recs \in Seq(Recs) /\ Body(segs) \in Seq(Recs) /\ Range(u.recs) \subseteq Range(Body(segs))
  <2> DEFINE b == Body(fr)
             q == Scan(t.recs)
  <2> HIDE DEF b, q
  <2>1. b \in Seq(Recs) /\ q \in Seq(Recs) /\ Body(segs) = b \o q /\ u.recs = q
    BY <1>1, <1>2 DEF TailLog, b, q
  <2>2. b \o q \in Seq(Recs) /\ Range(b \o q) = Range(b) \cup Range(q)
    BY <2>1, ConcatProperties, RangeConcatenation
  <2> QED
    BY <2>1, <2>2
<1> QED
  BY <1>2, <1>4, <1>5, <1>6

\* open that fails: the tail without its torn suffix, as far synced as before.
LEMMA OpenFailsStep ==
    ASSUME WalInv, OpenFails
    PROVE  WalInv' /\ Refines
<1>1. PICK fr \in Seq(Segs), t \in Segs : Parts(fr, t) /\ TailLog(fr, t)
  BY HasParts DEF OpenFails
<1> DEFINE v == Scan(t.recs)
           u == [t EXCEPT !.recs = v]
           A == receipts \ freed
<1>2. TailOK(t, A) /\ t.recs \in Seq(Bytes) /\ t.synced \in Nat
  BY <1>1 DEF TailLog, Segs
<1>3. v \in Seq(Bytes) /\ v \in Seq(Recs) /\ Clean(v) /\ Scan(v) = v
  <2>1. v \in Seq(Bytes) /\ v \in Seq(Recs) /\ Clean(v)
    BY <1>2, ScanParts DEF TailOK
  <2> QED
    BY <2>1, ScanClean
<1>4. t.synced <= Len(v) /\ Len(v) <= Len(t.recs) /\ \A j \in 1 .. Len(v) : v[j] = t.recs[j]
  <2>0. t.recs = v \/ t.recs = Append(v, Torn)
    BY <1>2, ScanParts DEF TailOK
  <2> HIDE DEF v
  <2>1. CASE t.recs = v
    BY <1>2, <2>1 DEF TailOK
  <2>2. CASE t.recs = Append(v, Torn)
    <3>1. /\ Len(v) \in Nat /\ Len(t.recs) = Len(v) + 1 /\ t.recs[Len(v) + 1] = Torn
          /\ \A j \in 1 .. Len(v) : v[j] = t.recs[j]
      <4>1. Torn \in Bytes
        BY DEF Bytes
      <4> QED
        BY <1>3, <2>2, <4>1, AppendProperties
    <3>2. t.synced <= Len(t.recs) /\ \A j \in 1 .. t.synced : t.recs[j] # Torn
      BY <1>2 DEF TailOK
    <3> QED
      BY <1>2, <3>1, <3>2
  <2> QED
    BY <2>0, <2>1, <2>2
<1> HIDE DEF v, A
<1>5. u \in Segs /\ u.first = t.first /\ u.recs = v /\ u.synced = t.synced
  BY <1>3 DEF Segs
<1>6. TailOK(u, A)
  BY <1>2, <1>3, <1>4, <1>5 DEF TailOK, Clean, TornLast
<1>7. segs' = WithTail(u)
  BY <1>1 DEF OpenFails, Cleaned, Parts, v
<1> HIDE DEF u
<1>8. /\ StoreOK(segs', A) /\ Body(segs') = Body(fr) \o Scan(u.recs)
      /\ segs'[Len(segs')] = u /\ Len(segs') = Len(segs)
  BY <1>1, <1>5, <1>6, <1>7, NewTail DEF Parts
<1>9. Body(segs') = Body(segs)
  BY <1>1, <1>3, <1>5, <1>8 DEF TailLog, v
<1>10. ~h.open /\ h' = h /\ index' = index /\ named' = named /\ receipts' = receipts /\ freed' = freed
  BY DEF OpenFails
<1>11. NamedOK(segs', named', h')
  <2>1. t.recs = <<>> => v = <<>>
    BY <1>2, <1>4, <1>3
  <2>2. segs[Len(segs)] = t
    BY <1>1 DEF Parts
  <2> QED
    BY <1>5, <1>8, <1>10, <2>1, <2>2 DEF WalInv, NamedOK
<1>12. WalInv'
  BY <1>8, <1>10, <1>11, InvNext DEF WalInv, OpenOK, StuckOK, A
<1> QED
  BY <1>9, <1>10, <1>12, StutterStep

LEMMA RepairStep ==
    ASSUME WalInv, Repair, ~misled'
    PROVE  WalInv' /\ Refines
<1>0. named /\ ~stuck
  BY DEF Repair
<1>1. StoreOK(segs', receipts \ freed) /\ Body(segs') = Body(segs)
  BY <1>0, TruncateStore DEF Repair
<1>2. OpenOK(segs', h', index', freed')
  BY DEF OpenOK, Repair
<1>3. WalInv'
  BY <1>0, <1>1, <1>2, InvNext DEF WalInv, Repair, NamedOK, StuckOK
<1> QED
  BY <1>1, <1>3, StutterStep DEF Repair

LEMMA OpenStep ==
    ASSUME WalInv, Open, ~misled'
    PROVE  WalInv' /\ Refines
<1>0. named /\ ~stuck
  BY DEF Open
<1>1. /\ StoreOK(segs', receipts \ freed) /\ segs' # <<>>
      /\ Body(segs') = Body(segs) /\ Body(segs) \in Seq(Recs)
      /\ \E u \in Segs : /\ segs'[Len(segs')] = u /\ u.synced = Len(u.recs)
                         /\ Clean(u.recs) /\ u.recs \in Seq(Recs)
                         /\ Range(u.recs) \subseteq Range(Body(segs))
  BY <1>0, TruncateStore DEF Open
<1>2. PICK u \in Segs : /\ segs'[Len(segs')] = u /\ u.synced = Len(u.recs)
                        /\ Clean(u.recs) /\ u.recs \in Seq(Recs)
                        /\ Range(u.recs) \subseteq Range(Body(segs))
  BY <1>1
<1> DEFINE b == Body(segs)
           k == IF b = <<>> THEN 1 ELSE Last(b).seq + 1
<1>3. /\ h' = Fresh(k) /\ index' = Payloads(b) /\ named' = named
      /\ receipts' = receipts /\ freed' = freed /\ stuck' = stuck
  BY ReplayedBody DEF Open
<1>4. \A i \in 1 .. Len(b) : b[i].seq = b[1].seq + i - 1
  BY ReplayedBody DEF Open, Contiguous
<1> HIDE DEF b
<1>5. b \in Seq(Recs)
  BY <1>1 DEF b
<1>6. k \in Nat \ {0} /\ \A x \in Range(b) : x.seq < k
  <2>1. CASE b = <<>>
    <3>1. Range(b) = {}
      BY <2>1 DEF Range
    <3> QED
      BY <2>1, <3>1
  <2>2. CASE b # <<>>
    <3> DEFINE n == Len(b)
    <3>1. n \in Nat /\ n >= 1 /\ 1 \in 1 .. n /\ n \in 1 .. n
      BY <1>5, <2>2
    <3>2. b[1] \in Recs /\ b[n] \in Recs /\ Last(b) = b[n]
      BY <1>5, <3>1, ElementOfSeq DEF Last
    <3>3. b[1].seq \in Nat /\ b[n].seq \in Nat /\ b[n].seq = b[1].seq + n - 1
      BY <1>4, <3>1, <3>2 DEF Recs
    <3>4. k = b[n].seq + 1
      BY <2>2, <3>2
    <3>5. ASSUME NEW x \in Range(b) PROVE x.seq < k
      <4>1. PICK i \in 1 .. n : x = b[i]
        BY <1>5, RangeEquality
      <4>2. x.seq = b[1].seq + i - 1
        BY <1>4, <4>1
      <4> HIDE DEF n, k
      <4> QED
        BY <3>1, <3>3, <3>4, <4>1, <4>2
    <3> QED
      BY <3>3, <3>4, <3>5
  <2> QED
    BY <2>1, <2>2
<1> HIDE DEF k
<1>7. h' \in Handles /\ h'.next = k /\ h'.dirty = FALSE /\ h'.cut = "no"
  BY <1>3, <1>6, FreshType
<1>8. WritableTail(u, h') /\ Cutting(segs', h')
  <2>1. ASSUME NEW j \in 1 .. Len(u.recs) PROVE u.recs[j].seq < k
    <3>1. u.recs[j] \in Range(u.recs)
      BY <1>2, RangeEquality
    <3> QED
      BY <1>2, <1>6, <3>1 DEF b
  <2> QED
    BY <1>2, <1>7, <2>1 DEF WritableTail, Cutting
<1>9. index' \in Seq(Events) /\ Range(index') = Range(Payloads(Body(segs')))
  BY <1>1, <1>3, <1>5, PayloadsType DEF b
<1>10. OpenOK(segs', h', index', freed')
  BY <1>1, <1>2, <1>8, <1>9 DEF OpenOK
<1>12. WalInv'
  BY <1>0, <1>1, <1>3, <1>7, <1>9, <1>10, InvNext DEF WalInv, NamedOK, StuckOK
<1> QED
  BY <1>1, <1>3, <1>12, StutterStep

Debris(t, k) == IF k < Len(t.recs) THEN {<<>>, <<Torn>>} ELSE {<<>>}
Remains(t, k, debris) == [t EXCEPT !.recs = SubSeq(t.recs, 1, k) \o debris]

\* u is the tail t without some of its last records, none of them covered by a receipt.
Shortened(u, t, A) ==
    /\ u \in Segs /\ u.first = t.first /\ TailOK(u, A)
    /\ \E q \in Seq(Recs) : /\ Scan(t.recs) = Scan(u.recs) \o q
                            /\ \A x \in Range(q) : x.event \notin A

\* What a power loss leaves of a tail: a prefix that holds everything synced.
LEMMA LostTail ==
    ASSUME NEW t \in Segs, NEW A, TailOK(t, A), NEW k \in t.synced .. Len(t.recs),
           NEW debris \in Debris(t, k)
    PROVE  Shortened(Remains(t, k, debris), t, A)
<1> DEFINE u == Remains(t, k, debris)
<1> DEFINE a == t.recs
           n == Len(a)
           p == SubSeq(a, 1, k)
           w == p \o debris
           v == Scan(a)
<1>1. a \in Seq(Bytes) /\ n \in Nat /\ t.synced \in Nat /\ TornLast(a) /\ t.synced <= n
  BY DEF Segs, TailOK
<1>2. k \in Nat /\ t.synced <= k /\ k <= n
  BY <1>1
<1>3. /\ v \in Seq(Recs) /\ Clean(v) /\ v \in Seq(Bytes)
      /\ a = v \/ a = Append(v, Torn)
  BY <1>1, ScanParts
<1>4. \A j \in 1 .. t.synced : a[j] # Torn
  BY DEF TailOK
<1>5. \A j \in t.synced + 1 .. n : a[j] # Torn => a[j].event \notin A
  BY DEF TailOK
<1>6. u = [t EXCEPT !.recs = w]
  BY DEF Remains
<1> HIDE DEF u
<1>7. debris \in IF k < n THEN {<<>>, <<Torn>>} ELSE {<<>>}
  BY DEF Debris
<1>8. Torn \in Bytes
  BY DEF Bytes
<1>9. /\ p \in Seq(Bytes) /\ Len(p) = k
      /\ \A i \in 1 .. k : p[i] = a[i]
  <2>1. \A i \in 1 .. k : a[i] \in Bytes
    <3>1. \A i \in 1 .. n : a[i] \in Bytes
      BY <1>1, ElementOfSeq
    <3> QED
      BY <1>1, <1>2, <3>1
  <2> HIDE DEF a
  <2>2. /\ p \in Seq(Bytes) /\ Len(p) = IF 1 <= k THEN k - 1 + 1 ELSE 0
        /\ \A i \in 1 .. k - 1 + 1 : p[i] = a[1 + i - 1]
    BY <1>2, <2>1, SubSeqProperties
  <2> QED
    BY <1>2, <2>2
<1>10. CASE k = n
  <2>1. p = a
    BY <1>1, <1>10, SubSeqFull
  <2>2. debris = <<>> /\ w = a
    <3>1. debris = <<>>
      BY <1>1, <1>7, <1>10
    <3> QED
      BY <1>1, <2>1, <3>1, ConcatEmptySeq
  <2>3. u \in Segs /\ u.first = t.first /\ u.recs = t.recs /\ u.synced = t.synced
    BY <1>6, <2>2 DEF Segs
  <2>4. TailOK(u, A)
    BY <2>3 DEF TailOK
  <2>5. <<>> \in Seq(Recs) /\ v \o <<>> = v /\ Range(<<>>) = {}
    BY <1>3, ConcatEmptySeq DEF Range
  <2> QED
    BY <2>3, <2>4, <2>5 DEF Shortened, u
<1>11. CASE k < n
  <2>1. Clean(p)
    <3>1. ASSUME NEW j \in 1 .. Len(p) PROVE p[j] # Torn
      <4>1. j \in 1 .. k /\ j \in 1 .. n /\ j # n
        BY <1>1, <1>2, <1>9, <1>11
      <4> QED
        BY <1>1, <1>9, <4>1 DEF TornLast
    <3> QED
      BY <3>1 DEF Clean
  <2>2. p \in Seq(Recs) /\ Scan(p) = p
    BY <1>9, <2>1, ScanClean, CleanType
  <2>3. w = p \/ w = Append(p, Torn)
    <3> HIDE DEF p
    <3>1. debris = <<>> \/ debris = <<Torn>>
      BY <1>7, <1>11
    <3>2. p \o <<>> = p
      BY <1>9, ConcatEmptySeq
    <3>3. p \o <<Torn>> = Append(p, Torn)
      BY <1>8, <1>9, AppendIsConcat
    <3> QED
      BY <3>1, <3>2, <3>3
  <2>4. w \in Seq(Bytes) /\ Scan(w) = p /\ TornLast(w)
        /\ k <= Len(w) /\ (\A j \in 1 .. k : w[j] = a[j])
        /\ (\A j \in 1 .. Len(w) : j > k => w[j] = Torn)
    <3> HIDE DEF p, w, a
    <3>1. CASE w = p
      BY <1>2, <1>9, <2>1, <2>2, <3>1 DEF Clean, TornLast
    <3>2. CASE w = Append(p, Torn)
      <4>1. /\ w \in Seq(Bytes) /\ Len(w) = k + 1 /\ w[k + 1] = Torn
            /\ \A i \in 1 .. k : w[i] = p[i]
        BY <1>8, <1>9, <3>2, AppendProperties
      <4>2. Scan(w) = p
        BY <1>9, <2>1, <3>2, ScanTorn
      <4>3. \A j \in 1 .. Len(w) : j \in 1 .. k \/ j = k + 1
        BY <1>2, <4>1
      <4>4. \A j \in 1 .. k : w[j] # Torn
        BY <1>9, <2>1, <4>1 DEF Clean
      <4>5. TornLast(w)
        BY <4>1, <4>3, <4>4 DEF TornLast
      <4> QED
        BY <1>2, <1>9, <4>1, <4>2, <4>3, <4>5
    <3> QED
      BY <2>3, <3>1, <3>2
  <2>5. u \in Segs /\ u.first = t.first /\ u.recs = w /\ u.synced = t.synced
    <3> HIDE DEF w
    <3> QED BY <1>6, <2>4 DEF Segs
  <2>6. TailOK(u, A)
    <3> HIDE DEF w, a, n, p
    <3>0. Len(w) \in Nat
      BY <2>4
    <3>1. t.synced <= Len(w)
      BY <1>1, <1>2, <2>4, <3>0
    <3>2. \A j \in 1 .. t.synced : w[j] # Torn
      <4>1. \A j \in 1 .. t.synced : j \in 1 .. k
        BY <1>1, <1>2
      <4> QED
        BY <1>4, <2>4, <4>1
    <3>3. ASSUME NEW j \in t.synced + 1 .. Len(w), w[j] # Torn PROVE w[j].event \notin A
      <4>1. j \in 1 .. Len(w) /\ j \in Nat
        BY <1>1, <3>0
      <4>2. ~(j > k)
        BY <2>4, <3>3, <4>1
      <4>3. j \in 1 .. k /\ j \in t.synced + 1 .. n
        BY <1>1, <1>2, <4>1, <4>2
      <4>4. w[j] = a[j]
        BY <2>4, <4>3
      <4> QED
        BY <1>5, <3>3, <4>3, <4>4
    <3> QED
      BY <2>4, <2>5, <3>1, <3>2, <3>3 DEF TailOK
  <2> DEFINE q == SubSeq(v, k + 1, Len(v))
             m == Len(v)
  <2>7. m \in Nat /\ k <= m /\ m <= n /\ \A j \in 1 .. m : v[j] = a[j]
    <3> HIDE DEF v, a
    <3>1. CASE a = v
      BY <1>3, <1>2, <3>1
    <3>2. CASE a = Append(v, Torn)
      <4>1. n = m + 1 /\ m \in Nat /\ \A j \in 1 .. m : a[j] = v[j]
        BY <1>3, <1>8, <3>2, AppendProperties
      <4> QED
        BY <1>2, <1>11, <4>1
    <3> QED
      BY <1>3, <3>1, <3>2
  <2> HIDE DEF v, a, n, p, w
  <2>8. v = SubSeq(v, 1, k) \o q
    <3>1. 1 \in 1 .. Len(v) + 1 /\ k \in 1 - 1 .. Len(v) /\ Len(v) \in k .. Len(v)
      BY <1>2, <2>7
    <3>2. SubSeq(v, 1, Len(v)) = v
      BY <1>3, SubSeqFull
    <3> QED
      BY <1>3, <3>1, <3>2, ConcatAdjacentSubSeq
  <2>9. SubSeq(v, 1, k) = p
    <3>1. \A i \in 1 .. m : v[i] \in Recs
      BY <1>3, ElementOfSeq
    <3>2. \A i \in 1 .. k : v[i] \in Recs /\ i \in 1 .. m
      BY <1>2, <2>7, <3>1
    <3> DEFINE z == SubSeq(v, 1, k)
    <3>3. /\ z \in Seq(Recs) /\ Len(z) = k
          /\ \A i \in 1 .. k : z[i] = v[i]
      <4>1. /\ z \in Seq(Recs) /\ Len(z) = IF 1 <= k THEN k - 1 + 1 ELSE 0
            /\ \A i \in 1 .. k - 1 + 1 : z[i] = v[1 + i - 1]
        BY <1>2, <3>2, SubSeqProperties
      <4> QED
        BY <1>2, <4>1
    <3> HIDE DEF z
    <3>4. \A i \in 1 .. Len(z) : z[i] = p[i]
      BY <1>9, <2>7, <3>2, <3>3
    <3>5. z = p
      BY <1>9, <2>2, <3>3, <3>4, SeqEqual
    <3> QED
      BY <3>5 DEF z
  <2>10. q \in Seq(Recs) /\ \A x \in Range(q) : x.event \notin A
    <3> HIDE DEF m
    <3>1. \A i \in k + 1 .. m : v[i] \in Recs /\ i \in 1 .. m /\ i \in t.synced + 1 .. n
      <4>1. \A i \in 1 .. m : v[i] \in Recs
        BY <1>3, ElementOfSeq DEF m
      <4> QED
        BY <1>1, <1>2, <2>7, <4>1
    <3>2. /\ q \in Seq(Recs) /\ Len(q) = IF k + 1 <= m THEN m - (k + 1) + 1 ELSE 0
          /\ \A i \in 1 .. m - (k + 1) + 1 : q[i] = v[(k + 1) + i - 1]
      <4>1. q = SubSeq(v, k + 1, m)
        BY DEF m
      <4>2. k + 1 \in Int /\ m \in Int
        BY <1>2, <2>7
      <4> HIDE DEF q
      <4> QED
        BY <3>1, <4>1, <4>2, SubSeqProperties
    <3> HIDE DEF q
    <3>3. ASSUME NEW x \in Range(q) PROVE x.event \notin A
      <4>1. PICK i \in 1 .. Len(q) : x = q[i]
        BY <3>2, RangeEquality
      <4>2. i \in 1 .. m - (k + 1) + 1 /\ (k + 1) + i - 1 \in k + 1 .. m
        BY <1>2, <2>7, <3>2
      <4> DEFINE j == (k + 1) + i - 1
      <4>3. j \in k + 1 .. m /\ x = v[j]
        BY <3>2, <4>1, <4>2
      <4> HIDE DEF j
      <4>4. j \in 1 .. m /\ j \in t.synced + 1 .. n
        BY <3>1, <4>3
      <4>5. v[j] = a[j] /\ v[j] # Torn
        BY <1>3, <2>7, <4>4 DEF Clean, m
      <4> QED
        BY <1>5, <4>3, <4>4, <4>5
    <3> QED
      BY <3>2, <3>3
  <2>11. Scan(t.recs) = Scan(u.recs) \o q
    <3>1. Scan(u.recs) = p
      BY <2>4, <2>5
    <3>2. v = p \o q
      BY <2>8, <2>9
    <3> QED
      BY <3>1, <3>2 DEF v, a
  <2> HIDE DEF q
  <2> QED
    BY <2>5, <2>6, <2>10, <2>11 DEF Shortened, u
<1>12. k = n \/ k < n
  BY <1>1, <1>2
<1> QED
  BY <1>10, <1>11, <1>12

LEMMA LeftParts ==
    ASSUME NEW s, NEW u \in Left(s)
    PROVE  \E k \in s.synced .. Len(s.recs) : \E debris \in Debris(s, k) : u = Remains(s, k, debris)
  BY DEF Left, Debris, Remains

\* A power loss takes nothing from a synced segment ...
LEMMA LeftWhole ==
    ASSUME NEW s \in Segs, s.synced = Len(s.recs), NEW u \in Left(s)
    PROVE  u = s
<1>k. PICK k \in s.synced .. Len(s.recs) : \E debris \in Debris(s, k) : u = Remains(s, k, debris)
  BY LeftParts
<1>1. PICK debris \in Debris(s, k) : u = Remains(s, k, debris)
  BY <1>k
<1>2. s.recs \in Seq(Bytes)
  BY DEF Segs
<1>3. Len(s.recs) \in Nat
  BY <1>2
<1>4. k = Len(s.recs)
  BY <1>3
<1>5. debris = <<>>
  BY <1>3, <1>4 DEF Debris
<1>6. SubSeq(s.recs, 1, k) \o debris = s.recs
  BY <1>2, <1>4, <1>5, SubSeqFull, ConcatEmptySeq
<1>7. [s EXCEPT !.recs = s.recs] = s
  BY DEF Segs
<1> QED
  BY <1>1, <1>6, <1>7 DEF Remains

\* ... so it takes from the last one only.
LEMMA FoundTail ==
    ASSUME NEW ss \in Seq(Segs), ss # <<>>, Sealed(ss),
           NEW found \in [1 .. Len(ss) -> UNION {Left(ss[i]) : i \in 1 .. Len(ss)}],
           \A i \in 1 .. Len(ss) : found[i] \in Left(ss[i])
    PROVE  found = [ss EXCEPT ![Len(ss)] = found[Len(ss)]]
<1>1. /\ Len(ss) \in Nat /\ Len(ss) \in 1 .. Len(ss) /\ DOMAIN ss = 1 .. Len(ss)
      /\ ss = [i \in 1 .. Len(ss) |-> ss[i]]
  OBVIOUS
<1>2. ASSUME NEW i \in 1 .. Len(ss), i # Len(ss) PROVE found[i] = ss[i]
  <2>1. i \in 1 .. Len(ss) - 1 /\ ss[i] \in Segs
    BY <1>1, <1>2, ElementOfSeq
  <2>2. ss[i].synced = Len(ss[i].recs)
    BY <2>1 DEF Sealed, SealedSeg
  <2> QED
    BY <2>1, <2>2, LeftWhole
<1>3. found = [i \in 1 .. Len(ss) |-> found[i]]
  OBVIOUS
<1> DEFINE X == [ss EXCEPT ![Len(ss)] = found[Len(ss)]]
<1>4. X = [i \in 1 .. Len(ss) |-> IF i = Len(ss) THEN found[Len(ss)] ELSE ss[i]]
  BY <1>1
<1>5. \A i \in 1 .. Len(ss) : found[i] = IF i = Len(ss) THEN found[Len(ss)] ELSE ss[i]
  BY <1>2
<1> QED
  BY <1>3, <1>4, <1>5

LEMMA PowerLossStep ==
    ASSUME WalInv, PowerLoss
    PROVE  WalInv' /\ Refines
<1> DEFINE Disk(survives) == IF survives THEN segs ELSE Front(segs)
           Leaves(ss) == \E found \in [1 .. Len(ss) -> UNION {Left(ss[i]) : i \in 1 .. Len(ss)}] :
                            /\ \A i \in 1 .. Len(ss) : found[i] \in Left(ss[i])
                            /\ segs' = found
<1>1. /\ segs # <<>> /\ named' = TRUE /\ h' = NoHandle /\ index' = index
      /\ receipts' = receipts /\ freed' = freed
      /\ \E survives \in {TRUE, named} : Leaves(Disk(survives))
  BY DEF PowerLoss
<1>2. PICK survives \in {TRUE, named} : Leaves(Disk(survives))
  BY <1>1
<1>a. ASSUME NEW ss \in Seq(Segs), ss # <<>>, Sealed(ss), Leaves(ss)
      PROVE  \E u \in Left(ss[Len(ss)]) : segs' = [ss EXCEPT ![Len(ss)] = u]
  <2>1. PICK found \in [1 .. Len(ss) -> UNION {Left(ss[i]) : i \in 1 .. Len(ss)}] :
                            /\ \A i \in 1 .. Len(ss) : found[i] \in Left(ss[i])
                            /\ segs' = found
    BY <1>a
  <2>2. found = [ss EXCEPT ![Len(ss)] = found[Len(ss)]]
    BY <1>a, <2>1, FoundTail
  <2>3. Len(ss) \in 1 .. Len(ss)
    BY <1>a
  <2> QED
    BY <2>1, <2>2, <2>3
<1> HIDE DEF Leaves
<1>3. PICK fr \in Seq(Segs), t \in Segs : Parts(fr, t) /\ TailLog(fr, t)
  BY <1>1, HasParts
<1> DEFINE A == receipts \ freed
<1>4. StoreOK(segs', A) => WalInv'
  BY <1>1, ClosedFacts, InvNext DEF WalInv
<1>5. /\ segs = Append(fr, t) /\ Last(segs) = t /\ Front(segs) = fr /\ segs[Len(segs)] = t
  BY <1>3, TailFacts DEF Parts
<1>6. CASE survives
  <2>0. StoreOK(segs, A)
    BY DEF WalInv
  <2>1. PICK l \in Left(t) : segs' = [segs EXCEPT ![Len(segs)] = l]
    BY <1>1, <1>2, <1>5, <1>6, <1>a, <2>0 DEF StoreOK
  <2>k. PICK k \in t.synced .. Len(t.recs) : \E debris \in Debris(t, k) : l = Remains(t, k, debris)
    BY LeftParts
  <2>2. PICK debris \in Debris(t, k) : l = Remains(t, k, debris)
    BY <2>k
  <2> DEFINE u == Remains(t, k, debris)
  <2>3. segs' = WithTail(u)
    BY <1>5, <2>1, <2>2 DEF WithTail
  <2>4. TailOK(t, A)
    BY <1>3 DEF TailLog
  <2> HIDE DEF A
  <2>a. Shortened(u, t, A)
    BY <2>4, LostTail
  <2> HIDE DEF u
  <2>5. /\ u \in Segs /\ u.first = t.first /\ TailOK(u, A)
        /\ \E q \in Seq(Recs) : /\ Scan(t.recs) = Scan(u.recs) \o q
                                /\ \A x \in Range(q) : x.event \notin A
    BY <2>a DEF Shortened
  <2>6. PICK q \in Seq(Recs) : /\ Scan(t.recs) = Scan(u.recs) \o q
                               /\ \A x \in Range(q) : x.event \notin A
    BY <2>5
  <2>7. /\ StoreOK(segs', A) /\ Body(segs') = Body(fr) \o Scan(u.recs)
        /\ Scan(u.recs) \in Seq(Recs)
    BY <1>3, <2>3, <2>5, NewTail
  <2> DEFINE b == Body(fr)
             p == Scan(u.recs)
  <2>8. b \in Seq(Recs) /\ p \in Seq(Recs) /\ Body(segs) = b \o (p \o q) /\ Body(segs') = b \o p
    BY <1>3, <2>6, <2>7 DEF TailLog
  <2> HIDE DEF b, p
  <2>9. (b \o p) \o q = b \o (p \o q) /\ b \o p \in Seq(Recs)
    <3>1. b \in Seq(Recs) /\ p \in Seq(Recs) /\ q \in Seq(Recs)
      BY <2>8
    <3>2. (b \o p) \o q = b \o (p \o q)
      BY <3>1, ConcatAssociative
    <3>3. b \o p \in Seq(Recs)
      BY <3>1, ConcatProperties
    <3> QED
      BY <3>2, <3>3
  <2>10. Payloads(Body(segs)) = Payloads(Body(segs')) \o Payloads(q)
    BY <2>8, <2>9, PayloadsConcat, ZenonT(30)
  <2>11. /\ Payloads(Body(segs')) \in Seq(Events) /\ Payloads(q) \in Seq(Events)
         /\ Range(Payloads(q)) = {x.event : x \in Range(q)}
    BY <2>8, <2>9, PayloadsType
  <2>12. Range(Payloads(q)) \cap A = {}
    BY <2>6, <2>11
  <2>13. Refines
    <3> DEFINE x == Payloads(Body(segs'))
               y == Payloads(q)
    <3>1. /\ x \in Seq(Events) /\ y \in Seq(Events) /\ Payloads(Body(segs)) = x \o y
          /\ Payloads(Body(segs')) = x /\ Range(y) \cap (receipts \ freed) = {}
      BY <2>10, <2>11, <2>12 DEF A
    <3> HIDE DEF x, y
    <3> QED
      BY <1>1, <3>1, LoseStep
  <2> QED
    BY <1>4, <2>7, <2>13 DEF A
<1>7. CASE ~survives
  <2>1. ~named
    BY <1>2, <1>7 DEF WalInv
  <2>3. Len(segs) > 1 /\ t.recs = <<>>
    BY <1>5, <2>1 DEF WalInv, NamedOK
  <2>4. fr # <<>>
    BY <1>3, <2>3 DEF Parts
  <2>5. StoreOK(fr, A) /\ SealedSeg(fr[Len(fr)], t.first)
    BY <1>3, <2>4, StoreFront DEF Parts
  <2> DEFINE s == fr[Len(fr)]
  <2>6. PICK u \in Left(s) : segs' = [fr EXCEPT ![Len(fr)] = u]
    BY <1>2, <1>5, <1>7, <1>a, <2>4, <2>5 DEF StoreOK
  <2>7. s \in Segs /\ s.synced = Len(s.recs)
    <3>1. Len(fr) \in 1 .. Len(fr)
      BY <2>4
    <3>2. s \in Segs
      BY <3>1, ElementOfSeq
    <3> QED
      BY <2>5, <3>2 DEF SealedSeg
  <2> HIDE DEF s
  <2>8. u = s
    BY <2>6, <2>7, LeftWhole
  <2>13. segs' = fr
    BY <2>4, <2>6, <2>8 DEF s
  <2>14. Body(segs') = Body(segs)
    <3>1. Scan(t.recs) = <<>>
      <4>1. Clean(t.recs) /\ t.recs \in Seq(Bytes)
        BY <2>3 DEF Clean
      <4> QED
        BY <2>3, <4>1, ScanClean
    <3>2. Body(segs) = Body(fr) \o <<>> /\ Body(fr) \in Seq(Recs)
      BY <1>3, <3>1 DEF TailLog
    <3> QED
      BY <2>13, <3>2, ConcatEmptySeq
  <2> QED
    BY <1>1, <1>4, <2>5, <2>13, <2>14, StutterStep
<1> QED
  BY <1>6, <1>7

LEMMA ReleaseOlderStep ==
    ASSUME WalInv, NEW upto \in 0 .. (IF h.open THEN h.next ELSE 0),
           NEW gone \in 1 .. Len(segs), ReleaseOlder(upto, gone)
    PROVE  WalInv' /\ Refines
<1> DEFINE m == {r.event : r \in {q \in Range(Replayed) : q.seq <= upto}}
<1>1. /\ h.open /\ ~h.poisoned /\ h.cut = "no"
      /\ gone \in Removable(upto)
      /\ segs' = SubSeq(segs, gone + 1, Len(segs))
      /\ freed' = freed \cup m /\ named' = TRUE /\ (h' = h \/ h' = NoHandle)
      /\ index' = index /\ receipts' = receipts
  BY DEF ReleaseOlder, Idle, Usable
<1>2. /\ h \in Handles /\ segs # <<>>
      /\ Range(index) \ freed \subseteq Range(Payloads(Body(segs)))
      /\ WritableTail(segs[Len(segs)], h) /\ Cutting(segs, h)
  BY <1>1, UsableFacts
<1>3. upto \in Nat
  BY <1>1, <1>2 DEF Handles
<1>4. /\ gone \in 1 .. Len(segs) - 1
      /\ \A j \in 1 .. gone : segs[j + 1].first <= upto + 1
  BY <1>1 DEF Removable
<1>5. StoreOK(segs, receipts \ freed) /\ segs \in Seq(Segs) /\ Len(segs) \in Nat
  BY DEF WalInv, StoreOK
<1> DEFINE B == receipts' \ freed'
           c == SubSeq(segs, 1, gone)
           b == SubSeq(segs, gone + 1, Len(segs))
<1>6. B \subseteq receipts \ freed
  BY <1>1
<1> HIDE DEF m, B
<1>7. /\ StoreOK(b, B) /\ b # <<>> /\ b[Len(b)] = segs[Len(segs)]
      /\ c \in Seq(Segs) /\ Scannable(c) /\ Len(c) = gone
      /\ \A i \in 1 .. gone : c[i] = segs[i]
      /\ segs = c \o b
  <2>1. /\ StoreOK(b, B) /\ b # <<>> /\ b[Len(segs) - gone] = segs[Len(segs)]
        /\ Len(b) = Len(segs) - gone
        /\ c \in Seq(Segs) /\ Scannable(c) /\ Len(c) = gone
        /\ \A i \in 1 .. gone : c[i] = segs[i]
        /\ segs = c \o b
    BY <1>4, <1>5, <1>6, DropOldest, ZenonT(30)
  <2> HIDE DEF b, c
  <2>2. b[Len(b)] = segs[Len(segs)]
    BY <2>1
  <2> QED
    BY <2>1, <2>2
<1> HIDE DEF b, c
<1>8. segs' = b
  BY <1>1 DEF b
<1>9. /\ Body(segs) = Body(c) \o Body(b) /\ Body(c) \in Seq(Recs) /\ Body(b) \in Seq(Recs)
  <2>1. b \in Seq(Segs) /\ Scannable(b)
    BY <1>7, StoreScannable DEF StoreOK
  <2> QED
    BY <1>7, <2>1, BodyConcat, ScansType
<1>10. ASSUME NEW r \in Range(Body(c)) PROVE r.seq <= upto
  <2>1. PICK i \in 1 .. Len(c) : r \in Range(Scan(c[i].recs))
    BY <1>7, BodyRange
  <2>2. i \in 1 .. gone /\ i \in 1 .. Len(segs) - 1 /\ i \in 1 .. Len(segs)
    BY <1>4, <1>5, <1>7
  <2>3. c[i] = segs[i] /\ SealedSeg(segs[i], segs[i + 1].first)
    BY <1>5, <1>7, <2>2 DEF StoreOK, Sealed
  <2> DEFINE a == segs[i].recs
             f == segs[i + 1].first
  <2>4. a \in Seq(Bytes) /\ Clean(a) /\ \A j \in 1 .. Len(a) : a[j].seq < f
    <3>1. segs[i] \in Segs
      BY <1>5, <2>2, ElementOfSeq
    <3> QED
      BY <2>3, <3>1 DEF SealedSeg, Segs
  <2>5. f <= upto + 1 /\ f \in Nat
    <3>1. i + 1 \in 1 .. Len(segs)
      BY <1>5, <2>2
    <3>2. segs[i + 1] \in Segs
      BY <1>5, <3>1, ElementOfSeq
    <3> QED
      BY <1>4, <2>2, <3>2 DEF Segs
  <2>6. r \in Range(Scan(a))
    BY <2>1, <2>3
  <2> HIDE DEF a, f
  <2>7. r \in Range(a) /\ a \in Seq(Recs)
    BY <2>4, <2>6, ScanClean, CleanType
  <2>8. PICK j \in 1 .. Len(a) : r = a[j]
    BY <2>7, RangeEquality
  <2>9. r \in Recs
    BY <2>7, <2>8, ElementOfSeq
  <2>10. r.seq \in Nat /\ r.seq < f
    BY <2>4, <2>8, <2>9 DEF Recs
  <2> QED
    BY <1>3, <2>5, <2>10
<1> DEFINE x == Payloads(Body(c))
           y == Payloads(Body(b))
<1>11. /\ x \in Seq(Events) /\ y \in Seq(Events) /\ Payloads(Body(segs)) = x \o y
       /\ Range(x) = {r.event : r \in Range(Body(c))}
       /\ Payloads(Body(segs')) = y
  BY <1>8, <1>9, PayloadsType, PayloadsConcat
<1>12. Range(Body(segs)) = Range(Body(c)) \cup Range(Body(b)) /\ Body(segs) \in Seq(Recs)
  BY <1>9, RangeConcatenation, ConcatProperties
<1>13. Range(Payloads(Body(segs))) = {r.event : r \in Range(Body(segs))}
  BY <1>12, PayloadsType
<1>14. m \subseteq Range(Payloads(Body(segs)))
  BY <1>13, ReplayedBody DEF m
<1>15. Range(x) \subseteq m
  <2>1. \A r \in Range(Body(c)) : r \in Range(Replayed) /\ r.seq <= upto
    BY <1>10, <1>12, ReplayedBody
  <2> HIDE DEF x
  <2> QED
    BY <1>11, <2>1 DEF m
<1> HIDE DEF x, y
<1>16. Refines
  BY <1>1, <1>11, <1>14, <1>15, ReleaseStep
<1>17. Range(x \o y) = Range(x) \cup Range(y)
  BY <1>11, RangeConcatenation
<1>18. OpenOK(segs', h', index', freed')
  <2>1. CASE h' = NoHandle
    BY <2>1, ClosedFacts
  <2>2. CASE h' = h
    <3>1. Range(index') \ freed' \subseteq Range(y)
      BY <1>1, <1>2, <1>11, <1>15, <1>17
    <3>2. WritableTail(segs'[Len(segs')], h')
      BY <1>2, <1>7, <1>8, <2>2
    <3>3. Cutting(segs', h')
      BY <1>1, <2>2 DEF Cutting
    <3> QED
      BY <1>7, <1>8, <1>11, <3>1, <3>2, <3>3 DEF OpenOK
  <2> QED
    BY <1>1, <2>1, <2>2
<1>19. WalInv'
  <2>1. stuck' = stuck /\ StuckOK(stuck, h)
    BY DEF ReleaseOlder, WalInv
  <2>2. StuckOK(stuck', h')
    BY <1>1, <2>1, ClosedFacts
  <2> QED
    BY <1>1, <1>2, <1>7, <1>8, <1>18, <2>2, InvNext DEF WalInv, NamedOK, B
<1> QED
  BY <1>16, <1>19

LEMMA NextStep ==
    ASSUME WalInv, [WalNext]_walVars, ~misled'
    PROVE  WalInv' /\ Refines
<1>1. CASE CreateDies
  BY <1>1, CreateDiesStep
<1>2. CASE Create
  BY <1>2, CreateStep
<1>3. CASE Open
  BY <1>3, OpenStep
<1>19. CASE OpenFails
  BY <1>19, OpenFailsStep
<1>20. CASE CloseFails
  BY <1>20, CloseFailsStep
<1>4. CASE Repair
  BY <1>4, RepairStep
<1>5. ASSUME NEW e \in Events, Ship(e) PROVE WalInv' /\ Refines
  BY <1>5, ShipStep
<1>6. CASE ShipFails
  BY <1>6, ShipFailsStep
<1>7. CASE ShipRefused
  BY <1>7, ShipRefusedStep
<1>8. CASE CutSync
  BY <1>8, CutSyncStep
<1>9. CASE CutRename
  BY <1>9, CutRenameStep
<1>10. CASE CutDone
  BY <1>10, CutDoneStep
<1>11. CASE CutFails
  BY <1>11, CutFailsStep
<1>12. CASE Sync
  BY <1>12, SyncStep
<1>13. CASE SyncFails
  BY <1>13, SyncFailsStep
<1>14. ASSUME NEW upto \in 0 .. (IF h.open THEN h.next ELSE 0), NEW gone \in 1 .. Len(segs),
              ReleaseOlder(upto, gone)
       PROVE  WalInv' /\ Refines
  BY <1>14, ReleaseOlderStep
<1>15. CASE Close
  BY <1>15, CloseStep
<1>16. CASE Kill
  BY <1>16, KillStep
<1>17. CASE PowerLoss
  BY <1>17, PowerLossStep
<1>18. CASE UNCHANGED walVars
  <2>1. WalInv'
    BY <1>18 DEF WalInv, walVars
  <2> QED
    BY <1>18, <2>1, StutterStep DEF walVars
<1> QED
  BY <1>1, <1>2, <1>3, <1>4, <1>5, <1>6, <1>7, <1>8, <1>9, <1>10, <1>11, <1>12, <1>13,
     <1>14, <1>15, <1>16, <1>17, <1>18, <1>19, <1>20 DEF WalNext

LEMMA InitStep ==
    ASSUME WalInit
    PROVE  WalInv /\ Abstract!DlInit
<1>1. /\ segs = <<>> /\ receipts = {} /\ freed = {} /\ h = NoHandle /\ named = TRUE
      /\ index = <<>>
  BY DEF WalInit
<1>2. StoreOK(<<>>, {})
  <2>1. <<>> \in Seq(Segs) /\ Len(<<>>) = 0
    OBVIOUS
  <2> QED
    BY <2>1 DEF StoreOK, Sealed
<1>3. index \in Seq(Events)
  BY <1>1
<1>4. WalInv
  BY <1>1, <1>2, <1>3, ClosedFacts DEF WalInv
<1>5. AbstractLog = <<>>
  <2>1. 0 \in Nat
    OBVIOUS
  <2>2. Body(<<>>) = <<>>
    BY <2>1, EmptyBody
  <2>3. Payloads(<<>>) = <<>>
    BY DEF Payloads
  <2> QED
    BY <1>1, <2>2, <2>3, ReplayedBody DEF AbstractLog
<1> QED
  BY <1>1, <1>4, <1>5 DEF Abstract!DlInit, AbstractAcked

\* What an open was misled about stays so.
LEMMA MisledStays ==
    ASSUME [WalNext]_walVars, misled
    PROVE  misled'
  BY DEF WalNext, walVars, CreateDies, Create, Open, OpenFails, Repair, Ship, ShipFails,
     ShipRefused, CutSync, CutRename, CutDone, CutFails, Sync, SyncFails, ReleaseOlder,
     Close, CloseFails, Kill, PowerLoss

\* The segmented write-ahead log implements the durable log (wal: create,
\* append, cut, sync, open, repair, release_older, drop; WalStore: ship, sync):
\* a replay returns the records in the order they were shipped, a power loss,
\* a failed write or sync or a dead process costs only a suffix that no receipt
\* covers, and a release drops only records the owner gave up; until an open
\* counts as durable what a failed sync or a missing directory fsync left off
\* the disk.
THEOREM WalImplementsLog == WalSpec => ImplementsLog
<1> DEFINE Inv == misled \/ WalInv
           Step == misled' \/ Abstract!DlNext
<1>1. WalInit => Inv /\ Abstract!DlInit
  BY InitStep
<1>2. Inv /\ [WalNext]_walVars => Inv' /\ [Step]_(Abstract!dlVars)
  <2> SUFFICES ASSUME Inv, [WalNext]_walVars
               PROVE  Inv' /\ [Step]_(Abstract!dlVars)
    OBVIOUS
  <2>1. CASE misled'
    BY <2>1
  <2>2. CASE ~misled'
    <3>1. WalInv
      BY <2>2, MisledStays
    <3>2. WalInv' /\ Refines
      BY <2>2, <3>1, NextStep
    <3> QED
      BY <3>2 DEF Refines
  <2> QED
    BY <2>1, <2>2
<1> QED
  BY <1>1, <1>2, PTL DEF WalSpec, ImplementsLog
=============================================================================
