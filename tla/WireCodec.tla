---- MODULE WireCodec ----
(* The byte formats of the rail and what a reader makes of them: the authority
   messages of 333-transfer/src/wire.rs, one message per gossip payload or frame; the
   snapshot record of 333-transfer/src/journal.rs; the tactical state of 333-platform
   in a save slot (apps/rts_state_tiers.rs, apps/rts_session.rs); and the
   length-prefixed frame stream of 333-wire/src/lib.rs, read off a TCP connection until
   it fails.

   A byte string is a sequence of numbers. A fixed-width field (an integer, an id, a
   key, a signature, a domain string) is one token; a string or payload is a length
   token followed by that many tokens, so that where a field ends is part of the
   model. A message is the sequence of its field values in wire order, and a layout
   says what each field is. Error kinds are not told apart. *)
EXTENDS Integers, Sequences, SequencesExt, FiniteSets

CONSTANTS MaxText,    \* the longest string a reader accepts (MAX_ACCOUNT_ID_BYTES and its like)
          MaxItems,   \* the longest list a reader accepts (MAX_COMMITTEE_MEMBERS and its like)
          Seeds,      \* numbers from which the example messages are made
          Changes     \* tokens a damaged token may turn into

BadByte == 9          \* a byte that is not valid UTF-8
BadKey == 8           \* a key that is not a point of the curve
Invalid == <<0 - 1>>  \* no message has this value

\* Field kinds. A list carries the layout of its items.
Fix == [kind |-> "fix", of |-> <<>>]
Key == [kind |-> "key", of |-> <<>>]
Text == [kind |-> "text", of |-> <<>>]
Name == [kind |-> "name", of |-> <<>>]   \* a NetworkId: a string that is not empty
Blob == [kind |-> "blob", of |-> <<>>]   \* u32-prefixed bytes, unbounded and unread
Word == [kind |-> "word", of |-> <<>>]   \* a blob that must be UTF-8
List(layout) == [kind |-> "list", of |-> layout]
Many(layout) == [kind |-> "many", of |-> layout]      \* a list of any length
Nested(layout) == [kind |-> "nested", of |-> layout]  \* u32-prefixed, a whole encoding of its own
BTree(layout) == [kind |-> "btree", of |-> layout]    \* a map or set, in the order of its keys
Option == [kind |-> "option", of |-> <<>>]            \* a tag, and a value unless it is 0

----
(* wire.rs: the bodies, field by field. *)
transfer_body == <<Text, Fix, Fix, Text, Fix>>
signed_transfer_body == <<Fix, Name>> \o transfer_body \o <<Fix>>
vote_body == <<Text, Fix, Fix, Name>> \o transfer_body \o <<Fix>>
attestation_body == <<Text, Fix, Text, Fix, Fix, Fix>>
roster == List(<<Text, Key>>)
frontier == List(<<Text, Fix>>)
epoch_proposal_body == <<Fix, Name, Fix, roster>>
epoch_vote_body == <<Text, Fix, Fix, Fix, frontier, Fix, Fix>>

\* Each message is its tag, its domain string and its body.
Message(tag, body) == [tag |-> tag, domain |-> 20 + tag, body |-> body]

Order == Message(0, signed_transfer_body)
Vote == Message(1, vote_body)
Cert == Message(2, signed_transfer_body \o <<List(vote_body)>>)
Attestation == Message(3, attestation_body)
EpochProposal == Message(4, epoch_proposal_body)
EpochVote == Message(5, epoch_vote_body)
EpochCert == Message(6, <<Fix, roster, frontier, List(epoch_vote_body)>>)

\* journal.rs: the accounts, the locked orders, the confirmed slots, the epoch.
\* A locked order carries the domain string of encode_transfer.
SnapshotData == [tag |-> 7, domain |-> 0,
                 body |-> <<Many(<<Word, Fix, Fix>>), Many(<<Nested(<<Fix>> \o signed_transfer_body)>>),
                            Many(<<Word, Fix, Fix>>), Fix>>]

\* rts_state_tiers.rs: turn, clock, units, minerals, visibility, hash, selection, winner.
UnitTactical == [i \in 1..12 |-> Fix]
TacticalState == [tag |-> 8, domain |-> 0,
                  body |-> <<Fix, Fix, Fix, Fix, Many(UnitTactical), BTree(<<Fix, Fix>>),
                             BTree(<<Fix, Fix>>), Fix, BTree(<<Fix>>), Option>>]

AuthorityMsg == {Order, Vote, Cert, Attestation, EpochProposal, EpochVote, EpochCert}

----
(* put_* and take_*. *)
RECURSIVE Put(_, _)
Put(layout, value) ==
  FlattenSeq([i \in 1..Len(layout) |->
    CASE layout[i].kind \in {"fix", "key"} -> <<value[i]>>
      [] layout[i].kind \in {"list", "many", "btree"} ->
           <<Len(value[i])>> \o FlattenSeq([k \in 1..Len(value[i]) |-> Put(layout[i].of, value[i][k])])
      [] layout[i].kind = "nested" -> LET b == Put(layout[i].of, value[i]) IN <<Len(b)>> \o b
      [] OTHER -> <<Len(value[i])>> \o value[i]])

\* take: the first n tokens, or Truncated.
Took(value, rest) == [ok |-> TRUE, value |-> value, rest |-> rest]
Err == [ok |-> FALSE, value |-> <<>>, rest |-> <<>>]

take_len_bytes(input, max) ==
  IF input = <<>> \/ Head(input) < 0 \/ Head(input) > max \/ Head(input) > Len(input) - 1 THEN Err
  ELSE Took(SubSeq(input, 2, Head(input) + 1), SubSeq(input, Head(input) + 2, Len(input)))

Utf8(r) == r.ok /\ BadByte \notin Range(r.value)

take_str(input, max) == LET r == take_len_bytes(input, max) IN IF Utf8(r) THEN r ELSE Err

take_network_id(input) ==
  LET r == take_str(input, MaxText) IN IF r.ok /\ r.value # <<>> THEN r ELSE Err

take_key(input) ==
  IF input = <<>> \/ Head(input) = BadKey THEN Err ELSE Took(Head(input), Tail(input))

\* Mutant: what follows the body is not looked at.
WholeOrMore(r) == r.ok

\* Bytes after a body make the message Truncated, and a snapshot Corrupt.
Whole(r) == r.ok /\ r.rest = <<>>

\* What a BTreeMap or BTreeSet holds after these insertions: the last of each key.
Entries(items) ==
  LET keys == {items[k][1] : k \in 1..Len(items)}
  IN SetToSortSeq({items[Max({k \in 1..Len(items) : items[k][1] = x})] : x \in keys},
                  LAMBDA a, b : a[1] < b[1])

take_option(input) ==
  IF input = <<>> THEN Err
  ELSE IF Head(input) = 0 THEN Took(<<>>, Tail(input))
  ELSE IF Len(input) < 2 THEN Err
  ELSE Took(<<input[2]>>, SubSeq(input, 3, Len(input)))

RECURSIVE Take(_, _), TakeItems(_, _, _)
\* take_slice, whose bytes must be one whole encoding; its first field is the domain.
TakeNested(layout, input) ==
  LET slice == take_len_bytes(input, Len(input))
      inner == Take(layout, slice.value)
  IN IF slice.ok /\ Whole(inner) /\ inner.value[1] = Order.domain
     THEN Took(inner.value, slice.rest) ELSE Err

TakeField(field, input) ==
  CASE field.kind = "fix" -> IF input = <<>> THEN Err ELSE Took(Head(input), Tail(input))
    [] field.kind = "key" -> take_key(input)
    [] field.kind = "text" -> take_str(input, MaxText)
    [] field.kind = "name" -> take_network_id(input)
    [] field.kind = "blob" -> take_len_bytes(input, Len(input))
    [] field.kind = "word" -> take_str(input, Len(input))
    [] field.kind = "nested" -> TakeNested(field.of, input)
    [] field.kind = "option" -> take_option(input)
    [] OTHER -> IF input = <<>> \/ Head(input) < 0 \/ (field.kind = "list" /\ Head(input) > MaxItems)
                THEN Err
                ELSE LET r == TakeItems(field.of, Head(input), Tail(input))
                     IN IF field.kind = "btree" /\ r.ok THEN Took(Entries(r.value), r.rest) ELSE r

\* The fields of a body in order, each from where the one before it ended.
Take(layout, input) ==
  FoldLeft(LAMBDA got, field :
             IF ~got.ok THEN got
             ELSE LET r == TakeField(field, got.rest)
                  IN IF r.ok THEN Took(Append(got.value, r.value), r.rest) ELSE Err,
           Took(<<>>, input), layout)

TakeItems(layout, n, input) ==
  IF n = 0 THEN Took(<<>>, input)
  ELSE LET first == Take(layout, input)
           others == TakeItems(layout, n - 1, first.rest)
       IN IF first.ok /\ others.ok THEN Took(<<first.value>> \o others.value, others.rest) ELSE Err

----
encode_authority_msg(m) == <<m.form.tag, m.form.domain>> \o Put(m.form.body, m.value)

\* The tag chooses the message, whose domain string must follow.
decode_authority_msg(bytes) ==
  IF \E form \in AuthorityMsg : Len(bytes) > 1 /\ bytes[1] = form.tag /\ bytes[2] = form.domain
  THEN LET form == CHOOSE f \in AuthorityMsg : f.tag = bytes[1]
           r == Take(form.body, SubSeq(bytes, 3, Len(bytes)))
       IN IF Whole(r) THEN [form |-> form, value |-> r.value] ELSE [form |-> form, value |-> Invalid]
  ELSE [form |-> Order, value |-> Invalid]

encode_snapshot(m) == Put(SnapshotData.body, m.value)

decode_snapshot(bytes) ==
  LET r == Take(SnapshotData.body, bytes)
  IN [form |-> SnapshotData, value |-> IF Whole(r) THEN r.value ELSE Invalid]

det_serialize(m) == Put(TacticalState.body, m.value)
det_deserialize(bytes) == Take(TacticalState.body, bytes)

save_tactical_state(m) == det_serialize(m)

\* The slot's checksum is over the bytes that were saved.
load_tactical_state(bytes, saved) ==
  LET r == det_deserialize(bytes)
  IN [form |-> TacticalState, value |-> IF bytes = saved /\ Whole(r) THEN r.value ELSE Invalid]

----
(* 333-wire: a frame is a length, a tag and a body. A settlement operation is of
   one of three kinds, a block carries any number of them, and an envelope may or
   may not name its receiver. *)
Transfer == <<Fix, Fix, Fix, Fix, Blob>>
AuctionBid == <<Fix, Fix, Word, Fix>>
RankedAction == <<Fix, Fix, Word, Fix, Blob>>

Frame(tag, body) == [tag |-> tag, domain |-> 0, body |-> body]

\* A block's fields (height, proposer, parent, finality, operation count) with one
\* operation; the operation's first field is its tag.
Proposal(op) == Frame(1, <<Fix, Fix, Fix, Fix, Fix>> \o op)
VoteFrame == Frame(2, <<Fix, Fix, Fix, Fix, Fix>>)
Envelope(to) == Frame(3, <<Word, Fix, Fix>> \o to \o <<Blob, Fix, Fix>>)

Frames == {Proposal(Transfer), Proposal(AuctionBid), Proposal(RankedAction), VoteFrame,
           Envelope(<<>>), Envelope(<<Fix>>)}

\* What the tags inside a body must say: the finality, one operation and its kind;
\* the vote kind; the flag that says whether a receiver follows.
Tagged(form, value) ==
  CASE form = Proposal(Transfer) -> value[4] \in 0..2 /\ value[5] = 1 /\ value[6] = 1
    [] form = Proposal(AuctionBid) -> value[4] \in 0..2 /\ value[5] = 1 /\ value[6] = 2
    [] form = Proposal(RankedAction) -> value[4] \in 0..2 /\ value[5] = 1 /\ value[6] = 3
    [] form = VoteFrame -> value[4] \in 1..2
    [] form = Envelope(<<>>) -> value[3] = 0
    [] OTHER -> value[3] = 1

encode_frame(m) == LET body == Put(m.form.body, m.value)
                   IN <<Len(body) + 1, m.form.tag>> \o body

\* decode_block, decode_vote and decode_envelope do not look at what follows.
Decoded(tag, body) == {[form |-> f, value |-> Take(f.body, body).value] :
                         f \in {g \in Frames : /\ g.tag = tag
                                               /\ Take(g.body, body).ok
                                               /\ Tagged(g, Take(g.body, body).value)}}

----
VARIABLES format,  \* "message", "snapshot", "state" or "frames"
          sent,    \* what was encoded: one message or snapshot, or the frames of a connection
          damage,  \* "none", or what happened to the bytes on the way
          bytes,   \* the bytes the reader has not consumed
          given,   \* the bytes as they arrived
          got,     \* what the reader returned
          reader   \* "reading", or "done": the reader returned its message or left its loop

wcVars == <<format, sent, damage, bytes, given, got, reader>>

Texts == <<<<1>>, <<1, 2>>, <<>>, <<1, 2, 3>>, <<2, BadByte>>>>

\* An example value: strings and lists of lengths that vary with the seed and the place.
RECURSIVE Value(_, _)
Value(layout, seed) ==
  [i \in 1..Len(layout) |->
    CASE layout[i].kind \in {"list", "many"} ->
           [k \in 1..((seed \div 2) % (MaxItems + 2)) |-> Value(layout[i].of, seed + k)]
      [] layout[i].kind = "btree" ->
           Entries([k \in 1..((seed + i) % (MaxItems + 1)) |-> Value(layout[i].of, seed + i + k)])
      [] layout[i].kind = "option" -> IF seed % 2 = 0 THEN <<>> ELSE <<seed % 3>>
      [] layout[i].kind = "nested" -> [Value(layout[i].of, seed) EXCEPT ![1] = Order.domain]
      [] layout[i].kind = "name" -> Texts[1 + ((seed + i) % 2)]
      [] layout[i].kind \in {"text", "word"} -> Texts[1 + ((seed + i) % 4)]
      [] layout[i].kind = "blob" -> Texts[1 + ((seed + i) % 5)]
      [] OTHER -> 1 + ((seed + i) % 3)]

Example(form, seed) == [form |-> form, value |-> Value(form.body, seed)]

\* The frames a node writes have the tags their form asks for.
Written(form, seed) ==
  LET v == Value(form.body, seed)
      block(op) == [v EXCEPT ![4] = seed % 3, ![5] = 1, ![6] = op]
  IN [form |-> form,
      value |-> CASE form = Proposal(Transfer) -> block(1)
                  [] form = Proposal(AuctionBid) -> block(2)
                  [] form = Proposal(RankedAction) -> block(3)
                  [] form = VoteFrame -> [v EXCEPT ![4] = 1 + (seed % 2)]
                  [] form = Envelope(<<>>) -> [v EXCEPT ![3] = 0]
                  [] OTHER -> [v EXCEPT ![3] = 1]]

Encoding(m) == CASE format = "message" -> encode_authority_msg(m)
                 [] format = "snapshot" -> encode_snapshot(m)
                 [] format = "state" -> save_tactical_state(m)
                 [] OTHER -> encode_frame(m)

Encoded(ms) == FlattenSeq([i \in 1..Len(ms) |-> Encoding(ms[i])])

WcInit == /\ \/ /\ format = "message"
                /\ \E form \in AuthorityMsg, seed \in Seeds : sent = <<Example(form, seed)>>
             \/ /\ format = "snapshot"
                /\ \E seed \in Seeds : sent = <<Example(SnapshotData, seed)>>
             \/ /\ format = "state"
                /\ \E seed \in Seeds : sent = <<Example(TacticalState, seed)>>
             \/ /\ format = "frames"
                /\ \E a, b \in Frames, seed \in Seeds : sent = <<Written(a, seed), Written(b, seed + 1)>>
          /\ damage = "none"
          /\ bytes = Encoded(sent)
          /\ given = bytes
          /\ got = <<>>
          /\ reader = "reading"

\* The connection ends early, or the bytes of another message run into these, or
\* one token is not what was written.
Damaged(how, new) == /\ reader = "reading" /\ got = <<>> /\ damage = "none"
                     /\ damage' = how
                     /\ bytes' = new
                     /\ given' = new
                     /\ UNCHANGED <<format, sent, got, reader>>

Cut == \E n \in 0..(Len(bytes) - 1) : Damaged("cut", SubSeq(bytes, 1, n))

Joined == /\ format # "frames"
          /\ \E x \in Changes : Damaged("joined", Append(bytes, x))

Altered == /\ format # "frames"
           /\ \E i \in 1..Len(bytes), x \in Changes :
                x # bytes[i] /\ Damaged("altered", [bytes EXCEPT ![i] = x])

ReadMessage == /\ format # "frames" /\ reader = "reading"
               /\ got' = LET m == CASE format = "message" -> decode_authority_msg(bytes)
                                    [] format = "snapshot" -> decode_snapshot(bytes)
                                    [] OTHER -> load_tactical_state(bytes, Encoded(sent))
                         IN IF m.value = Invalid THEN <<>> ELSE <<m>>
               /\ reader' = "done"
               /\ bytes' = <<>>
               /\ UNCHANGED <<format, sent, damage, given>>

\* read_frame: a whole frame whose body decodes is handed on, and the loop of the
\* listener's thread goes on; anything else ends it.
ReadFrame == /\ format = "frames" /\ reader = "reading"
             /\ LET n == IF bytes = <<>> THEN 0 ELSE bytes[1]
                    whole == n > 0 /\ Len(bytes) > n
                    frame == IF whole THEN Decoded(bytes[2], SubSeq(bytes, 3, n + 1)) ELSE {}
                IN IF frame = {} THEN /\ reader' = "done"
                                      /\ UNCHANGED <<bytes, got>>
                   ELSE /\ got' = Append(got, CHOOSE m \in frame : TRUE)
                        /\ bytes' = SubSeq(bytes, n + 2, Len(bytes))
                        /\ UNCHANGED reader
             /\ UNCHANGED <<format, sent, damage, given>>

WcNext == Cut \/ Joined \/ Altered \/ ReadMessage \/ ReadFrame

WcSpec == WcInit /\ [][WcNext]_wcVars

----
\* A value its own reader accepts: no string or list is over its limit, and what
\* must be text is text.
RECURSIVE Fits(_, _)
Fits(layout, value) ==
  \A i \in 1..Len(layout) :
    CASE layout[i].kind \in {"text", "name"} -> Len(value[i]) <= MaxText /\ BadByte \notin Range(value[i])
      [] layout[i].kind \in {"list", "many", "btree"} ->
           /\ layout[i].kind = "list" => Len(value[i]) <= MaxItems
           /\ \A k \in 1..Len(value[i]) : Fits(layout[i].of, value[i][k])
      [] layout[i].kind = "nested" -> Fits(layout[i].of, value[i])
      [] OTHER -> TRUE

(* A message, snapshot or state within the limits arrives as it was sent and one past them is refused;
   bytes that were cut, run together or altered are never taken for the message that
   was sent, and when they are taken for a message they are exactly its encoding, so
   no message has two byte strings. A connection's reader hands on the frames that
   arrived whole, in order and none else (decode_authority_msg, decode_snapshot,
   load_tactical_state, read_frame). *)
CodecFaithful ==
  /\ format # "frames" /\ reader = "done" =>
       /\ damage = "none" => (got = sent) = Fits(sent[1].form.body, sent[1].value)
       /\ got # <<>> => Encoding(got[1]) = given
       /\ damage # "none" => got # sent
  /\ format = "frames" =>
       /\ IsPrefix(got, sent)
       /\ reader = "done" =>
            \/ got = sent
            \/ Len(Encoded(SubSeq(sent, 1, Len(got) + 1))) > Len(given)
====
