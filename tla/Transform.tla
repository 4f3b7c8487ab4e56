------------------------------ MODULE Transform ------------------------------
(***************************************************************************)
(* The byte transform of server/army3_protocol/transform.py: a key, a      *)
(* command shift and one cursor per wire direction.  A cursor is the       *)
(* zero-based index of the next key byte; NoCursor is Python's None, the   *)
(* state of a direction before the 0xE5 handshake has enabled it.          *)
(***************************************************************************)
EXTENDS Integers, Sequences

CONSTANTS XorByte(_, _),  \* the ^ operator on two bytes
          Key,            \* ByteTransform.key
          Shift           \* ByteTransform.shift

Byte == 0..255

(* What the proofs use of ^: it stays a byte and undoes itself.            *)
ASSUME XorAssumption ==
    \A a, k \in Byte : XorByte(a, k) \in Byte /\ XorByte(XorByte(a, k), k) = a

(* ByteTransform.__post_init__ refuses everything else.                    *)
ASSUME TransformAssumption ==
    /\ Key \in Seq(Byte)
    /\ Len(Key) \in 1..127
    /\ Shift \in Byte

(* ByteTransform.from_seed: each key byte is xored with the one before.    *)
FromSeed(seed) ==
    LET effective[i \in 1..Len(seed)] ==
            IF i = 1 THEN seed[1] ELSE XorByte(seed[i], effective[i - 1])
    IN  effective

NoCursor == -1
Cursor   == 0..(Len(Key) - 1)

KeyByte(index) == Key[(index % Len(Key)) + 1]

(* A cursor after n more transformed bytes.                                *)
Advance(cursor, n) == (cursor + n) % Len(Key)

EncodeCommand(command, cursor) ==
    XorByte((command + Shift) % 256, KeyByte(cursor))

DecodeCommand(raw, cursor) ==
    (XorByte(raw, KeyByte(cursor)) - Shift) % 256

(* encode_data and decode_data, applied to consecutive bytes.              *)
XorData(bytes, cursor) ==
    [p \in 1..Len(bytes) |-> XorByte(bytes[p], KeyByte(cursor + p - 1))]
==============================================================================
