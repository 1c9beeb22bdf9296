------------------------------- MODULE Codec -------------------------------
(***************************************************************************)
(* The bytes of records (records.rs) and of frames (codec.rs), with small  *)
(* bytes and small integers.  Numbers are their bit patterns and strings   *)
(* are sequences of bytes; that a string is UTF-8 is left out.             *)
(***************************************************************************)
EXTENDS Integers, Sequences, Sums
LOCAL INSTANCE SequencesExt

CONSTANTS
    Base,           \* the number of values of a byte (256)
    W16, W32, W64,  \* the bytes of a u16 (2), of a u32 and an f32 (4), and
                    \* of a u64, an i64 and an f64 (8)
    None

ASSUME CodecAssumption ==
    /\ Base \in Nat /\ Base > 7
    /\ {W16, W32, W64} \subseteq Nat \ {0}

Byte == 0..(Base - 1)
Pow(w) == Product([i \in 1..w |-> Base])
MaxOf(w) == Pow(w) - 1

(* A number cast to w bytes: what does not fit is lost. *)
LE(n, w) == [i \in 1..w |-> (n \div Pow(i - 1)) % Base]
FromLE(s) == Sum([i \in DOMAIN s |-> s[i] * Pow(i - 1)])

-----------------------------------------------------------------------------
(* Records: [life, id, vector, norm, text, meta] *)

LifeCodes == [live |-> 0, tombstone |-> 1, superseded |-> 2]
IdCodes == [Int |-> 0, Str |-> 1]
ValueCodes == [Int |-> 0, Float |-> 1, Bool |-> 2, Str |-> 3, Bytes |-> 4]
WithCode(codes, n) == {name \in DOMAIN codes : codes[name] = n}

(* The all-ones patterns stand for "none".  The last two patterns of an    *)
(* f32 are no finite numbers: an infinity, and all ones, which is a NaN.   *)
NoText == MaxOf(W32)
NoNormZero == 0     \* mutant: a norm of zero is no norm
NoNorm == MaxOf(W32)
Infinity == MaxOf(W32) - 1
Finite(bits) == bits < Infinity

(* The norm of a vector is zero for a zero vector, and overflows for a     *)
(* large one.                                                              *)
L2Norm(vector) == IF Sum(vector) < Infinity THEN Sum(vector) ELSE Infinity

Bytestrings == {"Str", "Bytes"}

(* What encode checks.  It checks neither the length of an id nor the      *)
(* number of metadata entries.                                             *)
Encodable(r) ==
    /\ Len(r.vector) <= MaxOf(W16)
    /\ r.text # None => Len(r.text) <= MaxOf(W32)
    /\ \A i \in DOMAIN r.meta :
          /\ Len(r.meta[i].key) <= MaxOf(W16)
          /\ r.meta[i].value.kind \in Bytestrings => Len(r.meta[i].value.v) <= MaxOf(W16)
    /\ \A i \in DOMAIN r.vector : Finite(r.vector[i])
    /\ r.norm # None => Finite(r.norm)

Counted(s) == LE(Len(s), W16) \o s

EncodeId(id) ==
    <<IdCodes[id.kind]>> \o IF id.kind = "Int" THEN LE(id.v, W64) ELSE Counted(id.v)

EncodeValue(x) ==
    <<ValueCodes[x.kind]>> \o
        CASE x.kind \in Bytestrings -> Counted(x.v)
          [] x.kind = "Bool" -> <<x.v>>
          [] OTHER -> LE(x.v, W64)

Encode(r) ==
    <<LifeCodes[r.life]>> \o EncodeId(r.id)
        \o LE(Len(r.vector), W16)
        \o FlattenSeq([i \in DOMAIN r.vector |-> LE(r.vector[i], W32)])
        \o LE(IF r.norm = None THEN NoNorm ELSE r.norm, W32)
        \o (IF r.text = None THEN LE(NoText, W32) ELSE LE(Len(r.text), W32) \o r.text)
        \o LE(Len(r.meta), W16)
        \o FlattenSeq([i \in DOMAIN r.meta |->
                          Counted(r.meta[i].key) \o EncodeValue(r.meta[i].value)])

-----------------------------------------------------------------------------
(* Decoding: a cursor is the offset after what was read, its value, and    *)
(* whether everything up to here could be read.                            *)

Cursor(at, v) == [ok |-> TRUE, at |-> at, v |-> v]
Broken == [ok |-> FALSE, at |-> 0, v |-> 0]
Value(c, v) == IF c.ok THEN Cursor(c.at, v) ELSE Broken

TakeSlice(b, c, n) ==
    IF c.ok /\ c.at + n <= Len(b) THEN Cursor(c.at + n, SubSeq(b, c.at + 1, c.at + n)) ELSE Broken
Number(s) == Value(s, FromLE(s.v))
TakeUInt(b, c, w) == Number(TakeSlice(b, c, w))
TextAt(b, length) == TakeSlice(b, length, length.v)
TakeCounted(b, c) == TextAt(b, TakeUInt(b, c, W16))

(* The name in `codes' of the tag that was read. *)
KindOf(tag, codes) ==
    IF tag.ok /\ WithCode(codes, tag.v) # {}
    THEN Value(tag, CHOOSE name \in WithCode(codes, tag.v) : TRUE)
    ELSE Broken
Kinded(kind, body) == Value(body, [kind |-> kind.v, v |-> body.v])

IdOfKind(b, kind) ==
    IF ~kind.ok THEN Broken
    ELSE Kinded(kind, IF kind.v = "Int" THEN TakeUInt(b, kind, W64) ELSE TakeCounted(b, kind))
DecodeId(b, c) == IdOfKind(b, KindOf(TakeUInt(b, c, 1), IdCodes))

Truth(x) == Value(x, IF x.v # 0 THEN 1 ELSE 0)
ValueOfKind(b, kind) ==
    IF ~kind.ok THEN Broken
    ELSE Kinded(kind, CASE kind.v \in Bytestrings -> TakeCounted(b, kind)
                        [] kind.v = "Bool" -> Truth(TakeUInt(b, kind, 1))
                        [] OTHER -> TakeUInt(b, kind, W64))
DecodeValue(b, c) == ValueOfKind(b, KindOf(TakeUInt(b, c, 1), ValueCodes))

Entry(key, value) == Value(value, [key |-> key.v, value |-> value.v])
EntryOfKey(b, key) == Entry(key, DecodeValue(b, key))
DecodeEntry(b, c) == EntryOfKey(b, TakeCounted(b, c))

(* A count, and so many elements, each read after the ones before. *)
Collect(read, x) == Value(x, Append(read.v, x.v))
NextFloat(b, read) == Collect(read, TakeUInt(b, read, W32))
TakeFloats(b, count) ==
    LET upto[i \in 0..count.v] == IF i = 0 THEN Value(count, <<>>) ELSE NextFloat(b, upto[i - 1])
    IN  upto[count.v]
NextEntry(b, read) == Collect(read, DecodeEntry(b, read))
TakeEntries(b, count) ==
    LET upto[i \in 0..count.v] == IF i = 0 THEN Value(count, <<>>) ELSE NextEntry(b, upto[i - 1])
    IN  upto[count.v]

OrNone(b, length) ==
    IF length.v = NoText THEN Value(length, None) ELSE TextAt(b, length)
NormOf(bits) == Value(bits, IF bits.v = NoNorm THEN None ELSE bits.v)

(* The record of a payload: one, or none if it is refused. *)
Decode(b) ==
    LET life == KindOf(TakeUInt(b, Cursor(0, 0), 1), LifeCodes)
        id == DecodeId(b, life)
        vector == TakeFloats(b, TakeUInt(b, id, W16))
        norm == NormOf(TakeUInt(b, vector, W32))
        text == OrNone(b, TakeUInt(b, norm, W32))
        meta == TakeEntries(b, TakeUInt(b, text, W16))
    IN  IF /\ meta.ok /\ meta.at = Len(b)
           /\ \A i \in DOMAIN vector.v : Finite(vector.v[i])
           /\ norm.v # None => Finite(norm.v)
        THEN {[life |-> life.v, id |-> id.v, vector |-> vector.v, norm |-> norm.v,
               text |-> text.v, meta |-> meta.v]}
        ELSE {}

-----------------------------------------------------------------------------
(* Frames: the length of the rest, the kind, the payload, a checksum.  The *)
(* checksum is one wide byte.                                              *)

FrameCodes == [Record |-> 1, Commit |-> 2, Checkpoint |-> 3]
CrcValues == 999983
Crc(code, payload) ==
    LET upto[i \in 0..Len(payload)] ==
            IF i = 0 THEN code + 1 ELSE (Base * upto[i - 1] + payload[i] + 1) % CrcValues
    IN  upto[Len(payload)]

FRAME_BASE == W32 + 2

EncodeFrame(kind, payload) ==
    LE(Len(payload) + 2, W32) \o <<FrameCodes[kind]>> \o payload
        \o <<Crc(FrameCodes[kind], payload)>>

CrcUnchecked(crc, code, payload) == TRUE    \* mutant
CrcHolds(crc, code, payload) == crc = Crc(code, payload)

(* The frame at an offset, or none: the end, a torn tail, a corrupt frame. *)
Checked(code, payload, crc) ==
    {[kind |-> name, payload |-> payload] :
        name \in {n \in WithCode(FrameCodes, code) : CrcHolds(crc, code, payload)}}
FrameOfLength(b, off, len) ==
    IF len >= 2 /\ Len(b) - off >= W32 + len
    THEN Checked(b[off + W32 + 1], SubSeq(b, off + W32 + 2, off + W32 + len - 1),
                 b[off + W32 + len])
    ELSE {}
LengthAt(b, off) ==
    IF Len(b) - off >= FRAME_BASE THEN FromLE(SubSeq(b, off + 1, off + W32)) ELSE 0
FrameAt(b, off) == FrameOfLength(b, off, LengthAt(b, off))

Size(frame) == FRAME_BASE + Len(frame.payload)
Place(frames, j) == Sum([i \in 1..j |-> Size(frames[i])])   \* where the first j end

(* The frames up to the first offset without one, and that offset. *)
Behind(done, frame) ==
    [frames |-> Append(done.frames, frame), at |-> done.at + Size(frame)]
Advance(done, found) ==
    IF found = {} THEN done ELSE Behind(done, CHOOSE frame \in found : TRUE)
NextFrame(b, done) == Advance(done, FrameAt(b, done.at))
DecodeFrames(b) ==
    LET most == Len(b) \div FRAME_BASE
        upto[i \in 0..most] ==
            IF i = 0 THEN [frames |-> <<>>, at |-> 0] ELSE NextFrame(b, upto[i - 1])
    IN  upto[most]
=============================================================================
