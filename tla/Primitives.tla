----------------------------- MODULE Primitives -----------------------------
(***************************************************************************)
(* The strict big-endian readers and writers of                            *)
(* server/army3_protocol/primitives.py.  Bytes are 0..255, strings are     *)
(* their UTF-8 bytes, and a read that fails raises DecodeError.            *)
(***************************************************************************)
EXTENDS Integers, Sequences
LOCAL INSTANCE SequencesExt

(* int.from_bytes(bytes, "big")                                            *)
Unsigned(bytes) ==
    LET n[i \in 0..Len(bytes)] == IF i = 0 THEN 0 ELSE n[i - 1] * 256 + bytes[i]
    IN  n[Len(bytes)]

(* bytes.decode("utf-8", "strict"): how many continuation bytes are due,   *)
(* and the range of the next one.                                          *)
Utf8Start == [due |-> 0, low |-> 128, high |-> 191]

Utf8Next(st, b) ==
    IF st.due < 0 THEN st
    ELSE IF st.due > 0
    THEN IF b \in st.low..st.high THEN [Utf8Start EXCEPT !.due = st.due - 1]
         ELSE [st EXCEPT !.due = -1]
    ELSE CASE b <= 127                       -> st
           [] b \in 194..223                 -> [st EXCEPT !.due = 1]
           [] b = 224                        -> [st EXCEPT !.due = 2, !.low = 160]
           [] b = 237                        -> [st EXCEPT !.due = 2, !.high = 159]
           [] b \in (225..239) \ {237}       -> [st EXCEPT !.due = 2]
           [] b = 240                        -> [st EXCEPT !.due = 3, !.low = 144]
           [] b = 244                        -> [st EXCEPT !.due = 3, !.high = 143]
           [] b \in 241..243                 -> [st EXCEPT !.due = 3]
           [] OTHER                          -> [st EXCEPT !.due = -1]

IsUtf8(bytes) == FoldLeft(Utf8Next, Utf8Start, bytes).due = 0

FieldWidth == [u8 |-> 1, u16 |-> 2, u32 |-> 4]

(* What a read returns, and the bytes it leaves for the next one.          *)
ReadAs(value, rest) == [ok |-> TRUE, value |-> value, rest |-> rest]

Truncated == [ok |-> FALSE, value |-> <<>>, rest |-> <<>>]

(* Mutant: the slice that is there instead of an error.                    *)
ReadExactShort(rest, size) ==
    ReadAs(SubSeq(rest, 1, IF size > Len(rest) THEN Len(rest) ELSE size),
         SubSeq(rest, size + 1, Len(rest)))

ReadExact(rest, size) ==
    IF size > Len(rest) THEN Truncated
    ELSE ReadAs(SubSeq(rest, 1, size), SubSeq(rest, size + 1, Len(rest)))

ReadUnsigned(rest, width) ==
    LET bytes == ReadExact(rest, width)
    IN  IF bytes.ok THEN ReadAs(Unsigned(bytes.value), bytes.rest) ELSE Truncated

(* As many bytes as the number just read.                                  *)
ReadCounted(size) == IF size.ok THEN ReadExact(size.rest, size.value) ELSE Truncated

ReadString16(rest) ==
    LET text == ReadCounted(ReadUnsigned(rest, 2))
    IN  IF text.ok /\ IsUtf8(text.value) THEN text ELSE Truncated

ReadField(rest, kind) ==
    IF kind = "string16" THEN ReadString16(rest) ELSE ReadUnsigned(rest, FieldWidth[kind])

(* A value behind the list of those already read.                          *)
Then(list, read) ==
    IF list.ok /\ read.ok THEN ReadAs(Append(list.value, read.value), read.rest) ELSE Truncated

(* ensure_finished                                                         *)
Finished(end) == IF end.ok /\ end.rest = <<>> THEN end ELSE Truncated

Decode(schema, payload) ==
    Finished(FoldLeft(LAMBDA list, kind : Then(list, ReadField(list.rest, kind)),
                      ReadAs(<<>>, payload), schema))

------------------------------------------------------------------------------
(* Writing.  A u16 is two bytes and a u32 two u16s.                        *)

Radix == 65536
U16s  == 0..Radix - 1

U16(n) == <<n \div 256, n % 256>>
U32(n) == U16(n \div Radix) \o U16(n % Radix)
String16(text) == U16(Len(text)) \o text
Blob32(bytes)  == U32(Len(bytes)) \o bytes
==============================================================================
