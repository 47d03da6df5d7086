-------------------------------- MODULE Cbor --------------------------------
(***************************************************************************)
(* The CBOR layer of the program: the streaming encoder                    *)
(* (src/src/cbor/bio_cbor_encoder.c), the cursor decoder                   *)
(* (bio_cbor_decoder.c) and the CTAP2 helpers (bio_cbor_ctap2.c).          *)
(*                                                                         *)
(* The encoder is an object its callers drive one call at a time, so it is *)
(* the state machine: its buffer, its stack of open containers and its     *)
(* sticky error, one action per call.  The decoder is pure and is modelled *)
(* by operators on byte sequences.  Bytes are numbers 0..255; the 64-bit   *)
(* argument of a head is its eight bytes, most significant first.          *)
(***************************************************************************)
EXTENDS Integers, Sequences, FiniteSets, SequencesExt, TLC

CONSTANTS Uses,        \* the ways the encoder is driven, each a record of the items
                       \* its caller may ask for and of the number of its calls
          Capacity,    \* size of the caller's buffer
          MaxDepth,    \* BIO_CBOR_MAX_DEPTH
          MaxSizeDepth \* nesting limit of bio_cbor_item_encoded_size

VARIABLES use,         \* the way this encoder is driven
          enc,         \* the encoder: [buf, stack, error]
          calls,       \* the items its successful calls asked for, in order
          raws         \* how many of the calls appended raw items

cborVars == <<use, enc, calls, raws>>

(* The major types, bio_cbor.h *)
UINT == 0
NEGINT == 1
BSTR == 2
TSTR == 3
ARRAY == 4
MAP == 5
TAG == 6
SIMPLE == 7

Zeros(v, n) == \A i \in 1..n : v[i] = 0

(* A size_t below 2^31 as the eight bytes of a head argument. *)
Wide(n) == <<0, 0, 0, 0, n \div 16777216, (n \div 65536) % 256, (n \div 256) % 256, n % 256>>

(* The value of an argument that fits in the model's integers; every larger *)
(* one exceeds any buffer, which is all the decoder asks of it.              *)
Fits(v) == Zeros(v, 4) /\ v[5] < 128
Narrow(v) == v[5] * 16777216 + v[6] * 65536 + v[7] * 256 + v[8]

-----------------------------------------------------------------------------
(* The encoder.                                                            *)

NewEncoder == [buf |-> <<>>, stack |-> <<>>, error |-> FALSE]

(* enc_write: all of the bytes or none; an overflow is sticky. *)
Write(e, bytes) ==
  IF e.error \/ Len(e.buf) + Len(bytes) > Capacity
  THEN [e EXCEPT !.error = TRUE]
  ELSE [e EXCEPT !.buf = @ \o bytes]

(* How many bytes after the first one a head argument needs. *)
HeadWidth(v) ==
  IF Zeros(v, 7) /\ v[8] <= 23 THEN 0
  ELSE IF Zeros(v, 7) THEN 1
  ELSE IF Zeros(v, 6) THEN 2
  ELSE IF Zeros(v, 4) THEN 4
  ELSE 8

(* enc_head: the first byte and the argument are two writes, and only the   *)
(* first of them may succeed.                                               *)
EncHead(e, mt, v) ==
  LET w == HeadWidth(v)
      ai == IF w = 0 THEN v[8] ELSE IF w = 1 THEN 24 ELSE IF w = 2 THEN 25
            ELSE IF w = 4 THEN 26 ELSE 27
      first == Write(e, <<mt * 32 + ai>>)
  IN  IF w = 0 \/ first.error THEN first ELSE Write(first, SubSeq(v, 9 - w, 8))

Opened(n) == [count |-> n, written |-> 0]

(* The auto-pop loop of enc_track_item: a container whose last item has been *)
(* written is itself an item of the one around it.                           *)
RECURSIVE PopCompleted(_)
PopCompleted(stack) ==
  IF stack = <<>> \/ Last(stack).written < Last(stack).count THEN stack
  ELSE LET outer == Front(stack)
       IN  IF outer = <<>> THEN outer
           ELSE PopCompleted([outer EXCEPT ![Len(outer)].written = @ + 1])

TrackItem(e) ==
  IF e.stack = <<>> THEN e
  ELSE [e EXCEPT !.stack = PopCompleted([@ EXCEPT ![Len(@)].written = @ + 1])]

EncodeScalar(e, mt, v) ==
  LET h == EncHead(e, mt, v) IN IF h.error THEN h ELSE TrackItem(h)

(* bio_cbor_encode_bstr and bio_cbor_encode_tstr *)
EncodeBytes(e, mt, s) ==
  LET h == EncHead(e, mt, Wide(Len(s)))
      b == IF s = <<>> THEN h ELSE Write(h, s)
  IN  IF b.error THEN b ELSE TrackItem(b)

(* bio_cbor_encode_array and bio_cbor_encode_map; a map counts keys and     *)
(* values.                                                                  *)
EncodeContainer(e, mt, n) ==
  IF Len(e.stack) >= MaxDepth THEN [e EXCEPT !.error = TRUE]
  ELSE LET h == EncHead(e, mt, Wide(n))
       IN  IF h.error THEN h
           ELSE IF n = 0 THEN TrackItem(h)
           ELSE [h EXCEPT !.stack = Append(@, Opened(IF mt = MAP THEN 2 * n ELSE n))]

(* bio_cbor_encode_tag: the tagged value is the item, not the tag. *)
EncodeTag(e, v) == EncHead(e, TAG, v)

(* bio_cbor_encode_simple and, with four or eight bytes, encode_float and   *)
(* encode_double: the bits of the number are written as they are.           *)
EncodeSimple(e, n) ==
  LET w == IF n <= 23 THEN EncHead(e, SIMPLE, Wide(n))
           ELSE LET b == Write(e, <<248>>) IN IF b.error THEN b ELSE Write(b, <<n>>)
  IN  IF w.error THEN w ELSE TrackItem(w)

EncodeFloat(e, bits) ==
  LET b == Write(e, <<224 + (IF Len(bits) = 4 THEN 26 ELSE 27)>>)
      w == IF b.error THEN b ELSE Write(b, bits)
  IN  IF w.error THEN w ELSE TrackItem(w)

(* encode_raw_cbor of pm_payload.c appends bytes the encoder never sees as  *)
(* an item.                                                                 *)
EncodeRaw(e, bytes) ==
  IF Len(bytes) > Capacity - Len(e.buf) THEN [e EXCEPT !.error = TRUE]
  ELSE [e EXCEPT !.buf = @ \o bytes]

-----------------------------------------------------------------------------
(* The decoder.  An offset counts the bytes consumed so far.               *)

NoOffset == -1
BadHead == [ok |-> FALSE]

(* dec_head, and bio_cbor_decode_head_raw with it: 28 to 30 are reserved and *)
(* 31, an indefinite length, is refused.                                     *)
DecHead(d, off) ==
  IF off >= Len(d) THEN BadHead
  ELSE LET mt == d[off + 1] \div 32
           ai == d[off + 1] % 32
           w == IF ai <= 23 THEN 0 ELSE IF ai = 24 THEN 1 ELSE IF ai = 25 THEN 2
                ELSE IF ai = 26 THEN 4 ELSE 8
       IN  IF ai >= 28 \/ off + 1 + w > Len(d) THEN BadHead
           ELSE [ok |-> TRUE, mt |-> mt, ai |-> ai, off |-> off + 1 + w,
                 arg |-> IF w = 0 THEN Wide(ai)
                         ELSE [i \in 1..(8 - w) |-> 0] \o SubSeq(d, off + 2, off + 1 + w)]

\* Mutant: a string may be longer than the data.
DecodeNextUnbounded(d, off) ==
  LET h == DecHead(d, off)
      n == Narrow(h.arg)
      left == Len(d) - h.off
  IN  IF ~h.ok THEN BadHead
      ELSE IF h.mt \in {BSTR, TSTR}
      THEN [ok |-> TRUE, item |-> <<h.mt, SubSeq(d, h.off + 1, (IF n > left THEN Len(d) ELSE h.off + n))>>,
            off |-> IF n > left THEN Len(d) ELSE h.off + n]
      ELSE IF h.mt \in {ARRAY, MAP}
      THEN IF ~Fits(h.arg) \/ (IF h.mt = MAP THEN n > left \div 2 ELSE n > left) THEN BadHead
           ELSE [ok |-> TRUE, item |-> <<h.mt, n>>, off |-> h.off]
      ELSE IF h.mt = SIMPLE THEN [ok |-> TRUE, item |-> <<SIMPLE, h.ai, h.arg>>, off |-> h.off]
      ELSE [ok |-> TRUE, item |-> <<h.mt, h.arg>>, off |-> h.off]

(* bio_cbor_decode_next: what a string or a container announces must still  *)
(* fit in the data, an element taking one byte and a pair two.              *)
DecodeNext(d, off) ==
  LET h == DecHead(d, off)
      n == Narrow(h.arg)
      left == Len(d) - h.off
  IN  IF ~h.ok THEN BadHead
      ELSE IF h.mt \in {BSTR, TSTR}
      THEN IF ~Fits(h.arg) \/ n > left THEN BadHead
           ELSE [ok |-> TRUE, item |-> <<h.mt, SubSeq(d, h.off + 1, h.off + n)>>, off |-> h.off + n]
      ELSE IF h.mt \in {ARRAY, MAP}
      THEN IF ~Fits(h.arg) \/ (IF h.mt = MAP THEN n > left \div 2 ELSE n > left) THEN BadHead
           ELSE [ok |-> TRUE, item |-> <<h.mt, n>>, off |-> h.off]
      ELSE IF h.mt = SIMPLE THEN [ok |-> TRUE, item |-> <<SIMPLE, h.ai, h.arg>>, off |-> h.off]
      ELSE [ok |-> TRUE, item |-> <<h.mt, h.arg>>, off |-> h.off]

(* How many items follow the head of an item inside it. *)
Inside(item) == CASE item[1] = ARRAY -> item[2]
                  [] item[1] = MAP -> 2 * item[2]
                  [] item[1] = TAG -> 1
                  [] OTHER -> 0

(* cbor_skip_item_depth: the offset after the item that starts at off. *)
RECURSIVE Skip(_, _, _)
RECURSIVE SkipMany(_, _, _, _)
SkipMany(d, off, depth, n) ==
  IF n = 0 \/ off = NoOffset THEN off ELSE SkipMany(d, Skip(d, off, depth), depth, n - 1)
Skip(d, off, depth) ==
  IF depth > MaxDepth THEN NoOffset
  ELSE LET next == DecodeNext(d, off)
       IN  IF ~next.ok THEN NoOffset
           ELSE SkipMany(d, next.off, depth + 1, Inside(next.item))

(* cbor_item_encoded_size_depth: the size of the item at the head of d. *)
RECURSIVE ItemSize(_, _)
RECURSIVE ItemsSize(_, _, _, _)
ItemsSize(d, total, depth, n) ==
  IF n = 0 THEN total
  ELSE IF total >= Len(d) THEN NoOffset
  ELSE LET child == ItemSize(SubSeq(d, total + 1, Len(d)), depth)
       IN  IF child = NoOffset THEN NoOffset ELSE ItemsSize(d, total + child, depth, n - 1)
ItemSize(d, depth) ==
  LET h == DecHead(d, 0)
  IN  IF depth > MaxSizeDepth \/ ~h.ok THEN NoOffset
      ELSE IF h.mt \in {BSTR, TSTR}
      THEN IF ~Fits(h.arg) \/ h.off + Narrow(h.arg) > Len(d) THEN NoOffset
           ELSE h.off + Narrow(h.arg)
      ELSE IF h.mt \in {ARRAY, MAP} /\ ~Fits(h.arg) THEN NoOffset
      ELSE ItemsSize(d, h.off, depth + 1, Inside(IF h.mt \in {ARRAY, MAP} THEN <<h.mt, Narrow(h.arg)>> ELSE <<h.mt>>))

(* ctap2_key_compare: the shorter encoding first, then byte by byte. *)
KeyBefore(a, b) ==
  \/ Len(a) < Len(b)
  \/ /\ Len(a) = Len(b)
     /\ \E i \in 1..Len(a) : /\ a[i] < b[i]
                             /\ \A j \in 1..(i - 1) : a[j] = b[j]

(* The encoded pairs of a map, as bio_cbor_sort_map_ctap2 finds them. *)
RECURSIVE PairsFrom(_, _, _)
PairsFrom(d, off, n) ==
  IF n = 0 THEN <<>>
  ELSE LET k == SubSeq(d, off + 1, off + ItemSize(SubSeq(d, off + 1, Len(d)), 0))
           rest == off + Len(k)
           v == SubSeq(d, rest + 1, rest + ItemSize(SubSeq(d, rest + 1, Len(d)), 0))
       IN  <<<<k, v>>>> \o PairsFrom(d, rest + Len(v), n - 1)

(* bio_cbor_sort_map_ctap2 on a buffer that starts with a complete map. *)
SortMap(d) ==
  LET h == DecHead(d, 0)
      pairs == PairsFrom(d, h.off, Narrow(h.arg))
      sorted == SortSeq(pairs, LAMBDA p, q : KeyBefore(p[1], q[1]))
      body == FlattenSeq([i \in DOMAIN sorted |-> sorted[i][1] \o sorted[i][2]])
  IN  SubSeq(d, 1, h.off) \o body \o SubSeq(d, h.off + Len(body) + 1, Len(d))

-----------------------------------------------------------------------------
(* The calls a user of the encoder makes.  Every caller returns at the first *)
(* error, so there is no call after one.                                     *)

MayCall == ~enc.error /\ Len(calls) < use.calls /\ UNCHANGED use

Call(e, item) ==
  /\ MayCall
  /\ enc' = e
  /\ calls' = IF e.error THEN calls ELSE Append(calls, item)
  /\ UNCHANGED raws

CallScalar == \E i \in use.scalars : Call(EncodeScalar(enc, i[1], i[2]), i)

CallBytes == \E i \in use.strings : Call(EncodeBytes(enc, i[1], i[2]), i)

CallContainer == \E i \in use.containers : Call(EncodeContainer(enc, i[1], i[2]), i)

CallTag == \E v \in use.tags : Call(EncodeTag(enc, v), <<TAG, v>>)

CallSimple == \E n \in use.simples :
                Call(EncodeSimple(enc, n), <<SIMPLE, IF n <= 23 THEN n ELSE 24, Wide(n)>>)

CallFloat == \E bits \in use.floats :
               Call(EncodeFloat(enc, bits),
                    IF Len(bits) = 4 THEN <<SIMPLE, 26, <<0, 0, 0, 0>> \o bits>> ELSE <<SIMPLE, 27, bits>>)

(* The items of a buffer, one bio_cbor_decode_next after another. *)
RECURSIVE ItemsFrom(_, _)
ItemsFrom(d, off) ==
  LET next == DecodeNext(d, off)
  IN  IF ~next.ok THEN <<>> ELSE <<next.item>> \o ItemsFrom(d, next.off)

CallRaw == \E bytes \in use.raws :
             /\ MayCall
             /\ enc' = EncodeRaw(enc, bytes)
             /\ calls' = IF enc'.error THEN calls ELSE calls \o ItemsFrom(bytes, 0)
             /\ raws' = IF enc'.error THEN raws ELSE raws + 1

CborInit == use \in Uses /\ enc = NewEncoder /\ calls = <<>> /\ raws = 0

CborNext == CallScalar \/ CallBytes \/ CallContainer \/ CallTag \/ CallSimple \/ CallFloat \/ CallRaw

CborSpec == CborInit /\ [][CborNext]_cborVars

-----------------------------------------------------------------------------
(* Properties.                                                             *)

(* The reference: the index after the item that starts at index i of a list *)
(* of items, 0 when the list ends inside it.                                 *)
RECURSIVE EndOf(_, _)
RECURSIVE EndOfMany(_, _, _)
EndOfMany(items, i, n) ==
  IF n = 0 \/ i = 0 THEN i ELSE EndOfMany(items, EndOf(items, i), n - 1)
EndOf(items, i) ==
  IF i > Len(items) THEN 0 ELSE EndOfMany(items, i + 1, Inside(items[i]))

OpenContainers == {i \in DOMAIN calls : calls[i][1] \in {ARRAY, MAP} /\ EndOf(calls, i) = 0}

(* Once every container is complete, the encoder has written exactly the    *)
(* items it was asked for: the decoder reads them back one by one, every value and length at   *)
(* every width, whatever containers surround them (enc_head against         *)
(* dec_head and bio_cbor_decode_next).                                      *)
ReadBack == ~enc.error /\ OpenContainers = {} => ItemsFrom(enc.buf, 0) = calls

(* The encoder's stack depth is the number of containers still open, however *)
(* empty, nested or tagged the items were (enc_track_item pops a container   *)
(* with its last item, and the containers that completes), as long as no raw *)
(* item has been appended.                                                   *)
TracksNesting == ~enc.error /\ raws = 0 => Len(enc.stack) = Cardinality(OpenContainers)

(* A complete item is found whole: bio_cbor_skip stops right after it, and   *)
(* bio_cbor_item_encoded_size agrees on where that is.  What the encoder may *)
(* nest the decoder can skip; only a tag, which skip counts as a level and   *)
(* the encoder does not, or the levels inside a raw item may be too many.    *)
SkipsWhole ==
  LET last == EndOf(calls, 1)
      stop == Skip(enc.buf, 0, 0)
      tagged == \E i \in DOMAIN calls : calls[i][1] = TAG
  IN  ~enc.error /\ last # 0 =>
        /\ stop = NoOffset => tagged \/ raws > 0
        /\ stop # NoOffset =>
             /\ ItemsFrom(SubSeq(enc.buf, 1, stop), 0) = SubSeq(calls, 1, last - 1)
             /\ ItemSize(enc.buf, 0) = stop

(* A truncated item is never taken for a whole one: no proper prefix of an   *)
(* item can be skipped or measured.                                          *)
TruncationRefused ==
  LET stop == Skip(enc.buf, 0, 0)
  IN  ~enc.error /\ EndOf(calls, 1) # 0 /\ stop # NoOffset =>
        \A k \in 0..(stop - 1) : /\ Skip(SubSeq(enc.buf, 1, k), 0, 0) = NoOffset
                                 /\ ItemSize(SubSeq(enc.buf, 1, k), 0) = NoOffset

SamePairs(before, after) ==
  \A i \in DOMAIN before :
    Cardinality({j \in DOMAIN before : before[j] = before[i]})
      = Cardinality({j \in DOMAIN after : after[j] = before[i]})
InOrder(pairs) ==
  \A i \in 1..(Len(pairs) - 1) :
    LET a == pairs[i][1]
        b == pairs[i + 1][1]
    IN  Len(a) < Len(b) \/ (Len(a) = Len(b) /\ ~KeyBefore(b, a))
SortedMap(d, sorted, n) ==
  /\ Len(sorted) = Len(d)
  /\ ItemSize(sorted, 0) = ItemSize(d, 0)
  /\ SamePairs(PairsFrom(d, 1, n), PairsFrom(sorted, 1, n))
  /\ InOrder(PairsFrom(sorted, 1, n))

(* Sorting a map in place keeps its pairs and what follows it, orders the    *)
(* keys by encoded length and then by bytes, and leaves it a map the decoder *)
(* skips whole.                                                              *)
SortKeepsMap ==
  (/\ ~enc.error /\ calls # <<>> /\ calls[1][1] = MAP /\ EndOf(calls, 1) # 0
   /\ ItemSize(enc.buf, 0) # NoOffset)
  => SortedMap(enc.buf, SortMap(enc.buf), calls[1][2])

(* Encoder, decoder, skip, size and sort agree on what an item is and where *)
(* it ends.                                                                 *)
CodersAgree == ReadBack /\ TracksNesting /\ SkipsWhole /\ TruncationRefused /\ SortKeepsMap
=============================================================================
