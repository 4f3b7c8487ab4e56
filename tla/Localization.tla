---------------------------- MODULE Localization ----------------------------
(***************************************************************************)
(* _localization_text of tools/inspect_runtime_state.py: one text of the   *)
(* client, from its cache of decoded strings, or decoded from the three    *)
(* primitive arrays that the client keeps.                                 *)
(*                                                                         *)
(* An array of the client has the length that is stored in it and its      *)
(* elements; one that is null is as one with a negative length.  What lies *)
(* in memory beside the elements is Outside, whatever is done with it.     *)
(* A text stands for its UTF-16 bytes: both ways to it end in the same     *)
(* decode("utf-16-le").  The key stream, a xorshift seeded with the id, is *)
(* a constant operator.                                                    *)
(***************************************************************************)
EXTENDS Integers, Sequences

CONSTANTS XorByte(_, _),    \* the ^ operator on two bytes
          KeyStream(_, _),  \* the key byte of a text id at an index from 0
          MaxTextBytes      \* 0x10000 in the source

Refused == <<"refused">>    \* RuntimeReadError
Outside == -1

Array(elements) == [length |-> Len(elements), at |-> elements]
NoArray         == [length |-> -1, at |-> <<>>]

(* What _array_length and the test of an id against it let through.        *)
Holds(array, id) == id < array.length

At(array, i) == IF i \in 0..Len(array.at) - 1 THEN array.at[i + 1] ELSE Outside

(* Mutant: the last word counts only when it is full.                      *)
RequiredWordsTruncated(byteLength) == byteLength \div 4

RequiredWords(byteLength) == (byteLength + 3) \div 4

(* (word >> ((index & 3) * 8)) & 0xFF of the word that holds byte index.   *)
Unit == <<1, 256, 256 * 256, 256 * 256 * 256>>

PackedByte(packed, offset, index) ==
    LET word == At(packed, offset + index \div 4)
    IN  IF word = Outside THEN Outside ELSE (word \div Unit[(index % 4) + 1]) % 256

PlainByte(packed, offset, id, index) ==
    LET byte == PackedByte(packed, offset, index)
    IN  IF byte = Outside THEN Outside ELSE XorByte(byte, KeyStream(id, index))

(* The span check and the decoding, for a length and an offset as read.    *)
DecodeSpan(packed, offset, byteLength, id) ==
    IF \/ byteLength \notin 0..MaxTextBytes
       \/ offset < 0
       \/ packed.length < 0
       \/ offset + RequiredWords(byteLength) > packed.length
       \/ byteLength % 2 # 0
    THEN Refused
    ELSE [i \in 1..byteLength |-> PlainByte(packed, offset, id, i - 1)]

(* tables: the client's arrays; slot: the id's slot of the cache, a set    *)
(* that is empty when the slot is null.                                    *)
LocalizationText(tables, slot, id) ==
    IF ~Holds(tables.cache, id) THEN Refused
    ELSE IF slot # {} THEN CHOOSE cached \in slot : TRUE
    ELSE IF ~Holds(tables.offsets, id) \/ ~Holds(tables.lengths, id) THEN Refused
    ELSE DecodeSpan(tables.packed, At(tables.offsets, id), At(tables.lengths, id), id)
=============================================================================
