---------------------------- MODULE MessageCodecs ----------------------------
(***************************************************************************)
(* Both halves of every codec of server/army3_protocol/messages.py.  A     *)
(* message is its class, the values of its fields and, for the one list of *)
(* records, these records; a codec is the sequence of the kinds of the     *)
(* fields.  A message is encoded, the payload may be cut, extended or      *)
(* overwritten, and a decoder for its command reads it.                    *)
(*                                                                         *)
(* A u32 is the pair of its halves, as the integers of TLC end at 2^31.    *)
(***************************************************************************)
EXTENDS Primitives

CONSTANTS Messages,   \* the messages a program may construct
          Bytes,      \* the bytes a payload is tampered with
          MaxTampers  \* how often it is (a bound)

VARIABLES message,  \* the message object
          stage,    \* what has been done with it
          payload,  \* encode_payload's result, as it arrives
          tampers,  \* how often it was changed on the way
          decoded   \* decode_payload's result: of which class, and its values

codecVars == <<message, stage, payload, tampers, decoded>>

------------------------------------------------------------------------------
(* The codecs.  literal0, literal1 and literal2 are bytes that a codec     *)
(* writes and insists on, so that no program gives them another value;     *)
(* zero8 is a field that may only be 0, not1 one that may not be 1.        *)

HandshakeResponse              == <<"seed", "u8", "string16">>
ClientSessionRequest           == <<"string16", "string16", "u8">>
ClientTransportSync0           == <<"literal0", "string16", "u32", "u32">>
ServerTransportReset2          == <<"literal2">>
ClientPostResetStatus          == <<"u8">>
ClientPrelogin72               == <<"u8", "u8", "string16">>
ServerPreloginStatus           == <<"u8">>
ClientU32B2                    == <<"u32">>
ClientC6Selection              == <<"string16", "literal1">>
ServerSessionResponse          == <<"string16", "string16", "string16", "string16">>
BootstrapVersions              == <<"u8", "u8", "u8">>
ClientAreaRequest              == <<"zero8">>
ServerAreaList                 == <<"not1">>
ScreenBootstrapResponse        == <<"literal0", "s8", "string16">>
ScreenResourceManifestResponse == <<"literal1", "u8", "u16">>
ScreenResourceItemResponse     == <<"literal2", "string16", "blob32">>
BootstrapDaResponse            == <<"u8", "blob32">>
BootstrapE1Response            == <<"u8", "blob32", "blob32", "blob32">>
BootstrapE0EmptyResponse       == <<"u8", "literal0", "literal0", "literal0">>

Schema ==
    [HandshakeResponse              |-> HandshakeResponse,
     ClientSessionRequest           |-> ClientSessionRequest,
     ClientTransportSync0           |-> ClientTransportSync0,
     ServerTransportReset2          |-> ServerTransportReset2,
     ClientPostResetStatus          |-> ClientPostResetStatus,
     ClientPrelogin72               |-> ClientPrelogin72,
     ServerPreloginStatus           |-> ServerPreloginStatus,
     ClientU32B2                    |-> ClientU32B2,
     ClientC6Selection              |-> ClientC6Selection,
     ServerSessionResponse          |-> ServerSessionResponse,
     BootstrapVersions              |-> BootstrapVersions,
     ClientAreaRequest              |-> ClientAreaRequest,
     ServerAreaList                 |-> ServerAreaList,
     ScreenBootstrapResponse        |-> ScreenBootstrapResponse,
     ScreenResourceManifestResponse |-> ScreenResourceManifestResponse,
     ScreenResourceItemResponse     |-> ScreenResourceItemResponse,
     BootstrapDaResponse            |-> BootstrapDaResponse,
     BootstrapE1Response            |-> BootstrapE1Response,
     BootstrapE0EmptyResponse       |-> BootstrapE0EmptyResponse]

(* The class whose fields are followed by records, to the payload's end.   *)
HasRecords(class) == class = "ServerAreaList"

(* What follows the area_id of a ServerAreaRecord.                         *)
RecordSchema(area_id) ==
    IF area_id = -1 THEN <<"string16">>
    ELSE <<"u8", "u8", "u8", "u8", "u32", "string16">>

(* The classes of one command and direction: three share the server's 0xC4 *)
(* and a selector tells them apart.                                        *)
ScreenResponses == {"ScreenBootstrapResponse", "ScreenResourceManifestResponse",
                    "ScreenResourceItemResponse"}

DecodersFor(class) == IF class \in ScreenResponses THEN ScreenResponses ELSE {class}

------------------------------------------------------------------------------
(* What a program may construct.                                           *)

(* The bytes accepted where a single one is written and read.              *)
ByteRange ==
    [u8 |-> 0..255, zero8 |-> {0}, not1 |-> (0..255) \ {1},
     literal0 |-> {0}, literal1 |-> {1}, literal2 |-> {2}]

(* No payload has 2^31 bytes: the upper u16 of a length is below this.     *)
HighLimit == 32768

(* The values of the type of a field, in or out of its range.              *)
Values(kind) ==
    CASE kind \in {"literal0", "literal1", "literal2"}    -> ByteRange[kind]
      [] kind \in {"u8", "zero8", "not1", "u16", "s8"}    -> Int
      [] kind = "u32"      -> Int \X Int
      [] kind = "string16" -> {text \in Seq(0..255) : IsUtf8(text)}
      [] kind = "seed"     -> Seq(0..255)
      [] kind = "blob32"   -> {blob \in Seq(0..255) : Len(blob) \div Radix < HighLimit}

IsList(values) ==
    Len(values) \in Nat /\ values = [i \in 1..Len(values) |-> values[i]]

Typed(kinds, values) ==
    /\ IsList(values) /\ Len(values) = Len(kinds)
    /\ \A i \in 1..Len(kinds) : values[i] \in Values(kinds[i])

(* A record is its area_id and the fields behind it.                       *)
IsRecord(record) ==
    /\ record = <<record[1], record[2]>>
    /\ record[1] \in Int
    /\ Typed(RecordSchema(record[1]), record[2])

Constructible(m) ==
    /\ m.class \in DOMAIN Schema
    /\ Typed(Schema[m.class], m.fields)
    /\ IsList(m.records) /\ \A i \in 1..Len(m.records) : IsRecord(m.records[i])
    /\ HasRecords(m.class) \/ m.records = <<>>

ASSUME MessagesAssumption ==
    /\ Bytes \subseteq 0..255
    /\ \A m \in Messages : Constructible(m)

------------------------------------------------------------------------------
(* Encoding.                                                               *)

(* What a writer, or the check before it, accepts.                         *)
Writable(kind, value) ==
    CASE kind \in DOMAIN ByteRange -> value \in ByteRange[kind]
      [] kind = "u16"      -> value \in U16s
      [] kind = "u32"      -> value \in U16s \X U16s
      [] kind = "s8"       -> value \in -128..127
      [] kind = "string16" -> Len(value) \in U16s
      [] kind = "seed"     -> Len(value) \in 1..127
      [] kind = "blob32"   -> TRUE

FieldWritten(kind, value) ==
    CASE kind \in DOMAIN ByteRange -> <<value>>
      [] kind = "u16"      -> U16(value)
      [] kind = "u32"      -> U16(value[1]) \o U16(value[2])
      [] kind = "s8"       -> <<value % 256>>
      [] kind = "string16" -> String16(value)
      [] kind = "seed"     -> <<Len(value)>> \o value
      [] kind = "blob32"   -> Blob32(value)

(* One after the other.                                                    *)
Joined(chunks) ==
    LET n == Len(chunks)
        last[k \in 0..n] == IF k = 0 THEN <<>> ELSE chunks[n - k + 1] \o last[k - 1]
    IN  last[n]

FieldsWritable(kinds, values) == \A i \in 1..Len(kinds) : Writable(kinds[i], values[i])

FieldsWritten(kinds, values) ==
    Joined([i \in 1..Len(kinds) |-> FieldWritten(kinds[i], values[i])])

(* Mutant: any id that fits a byte.                                        *)
AreaIdWritableByte(area_id) == area_id \in -1..255

AreaIdWritable(area_id) == area_id = -1 \/ area_id \in 0..127

RecordWritable(record) ==
    AreaIdWritable(record[1]) /\ FieldsWritable(RecordSchema(record[1]), record[2])

RecordWritten(record) ==
    <<record[1] % 256>> \o FieldsWritten(RecordSchema(record[1]), record[2])

RecordsWritten(records) == Joined([i \in 1..Len(records) |-> RecordWritten(records[i])])

EncodeAccepts(m) ==
    /\ FieldsWritable(Schema[m.class], m.fields)
    /\ \A i \in 1..Len(m.records) : RecordWritable(m.records[i])
    /\ HasRecords(m.class) => m.records # <<>>

Encoded(m) == FieldsWritten(Schema[m.class], m.fields) \o RecordsWritten(m.records)

------------------------------------------------------------------------------
(* Decoding.                                                               *)

ReadByteIn(rest, range) ==
    LET byte == ReadUnsigned(rest, 1)
    IN  IF byte.ok /\ byte.value \in range THEN byte ELSE Truncated

ReadS8(rest) ==
    LET raw == ReadUnsigned(rest, 1)
    IN  IF raw.ok THEN ReadAs(IF raw.value < 128 THEN raw.value ELSE raw.value - 256, raw.rest)
        ELSE Truncated

ReadU32(rest) ==
    LET high == ReadUnsigned(rest, 2)
        low  == ReadUnsigned(high.rest, 2)
    IN  IF high.ok /\ low.ok THEN ReadAs(<<high.value, low.value>>, low.rest) ELSE Truncated

ReadLength(rest) ==
    LET size == ReadU32(rest)
    IN  IF size.ok /\ size.value[1] < HighLimit
        THEN ReadAs(size.value[1] * Radix + size.value[2], size.rest) ELSE Truncated

ReadValue(rest, kind) ==
    CASE kind \in DOMAIN ByteRange -> ReadByteIn(rest, ByteRange[kind])
      [] kind = "u16"      -> ReadUnsigned(rest, 2)
      [] kind = "u32"      -> ReadU32(rest)
      [] kind = "s8"       -> ReadS8(rest)
      [] kind = "string16" -> ReadString16(rest)
      [] kind = "seed"     -> ReadCounted(ReadByteIn(rest, 1..127))
      [] kind = "blob32"   -> ReadCounted(ReadLength(rest))

ReadNext(list, kind) == Then(list, ReadValue(list.rest, kind))

ReadAll(kinds, rest) ==
    LET list[i \in 0..Len(kinds)] ==
          IF i = 0 THEN ReadAs(<<>>, rest) ELSE ReadNext(list[i - 1], kinds[i])
    IN  list[Len(kinds)]

AreaId(raw_id) == IF raw_id = 255 THEN -1 ELSE raw_id

(* ServerAreaRecord.decode_from                                            *)
ReadRecord(rest) ==
    LET raw    == ReadUnsigned(rest, 1)
        fields == ReadAll(RecordSchema(AreaId(raw.value)), raw.rest)
    IN  IF raw.ok /\ fields.ok
        THEN ReadAs(<<AreaId(raw.value), fields.value>>, fields.rest) ELSE Truncated

(* while reader.remaining                                                  *)
NextRecord(list) ==
    IF list.rest = <<>> THEN list ELSE Then(list, ReadRecord(list.rest))

ReadRecords(rest) ==
    LET list[i \in 0..Len(rest)] ==
          IF i = 0 THEN ReadAs(<<>>, rest) ELSE NextRecord(list[i - 1])
    IN  list[Len(rest)]

(* A class without records reads none.                                     *)
RecordsOf(class, rest) ==
    IF ~HasRecords(class) THEN ReadAs(<<>>, rest)
    ELSE LET records == ReadRecords(rest)
         IN  IF records.value # <<>> THEN records ELSE Truncated

Rejected(class) == [ok |-> FALSE, class |-> class, fields |-> <<>>, records |-> <<>>]

(* cls.decode_payload, up to ensure_finished.                              *)
DecodedBy(class, bytes) ==
    LET fields  == ReadAll(Schema[class], bytes)
        records == Finished(RecordsOf(class, fields.rest))
    IN  IF fields.ok /\ records.ok
        THEN [ok |-> TRUE, class |-> class, fields |-> fields.value, records |-> records.value]
        ELSE Rejected(class)

------------------------------------------------------------------------------
CodecInit ==
    /\ message \in Messages
    /\ stage = "constructed"
    /\ payload = <<>>
    /\ tampers = 0
    /\ decoded = Rejected(message.class)

(* message.encode_payload()                                                *)
EncodePayload ==
    /\ stage = "constructed"
    /\ IF EncodeAccepts(message)
       THEN stage' = "encoded" /\ payload' = Encoded(message)
       ELSE stage' = "refused" /\ payload' = <<>>
    /\ UNCHANGED <<message, tampers, decoded>>

Tampered ==
    /\ stage = "encoded"
    /\ tampers < MaxTampers
    /\ tampers' = tampers + 1
    /\ UNCHANGED <<message, stage, decoded>>

(* What arrives need not be what any encoder wrote.                        *)
Cut == Tampered /\ \E n \in 0..Len(payload) - 1 : payload' = SubSeq(payload, 1, n)

Extend == Tampered /\ \E b \in Bytes : payload' = Append(payload, b)

Overwrite ==
    /\ Tampered
    /\ \E i \in DOMAIN payload : \E b \in Bytes \ {payload[i]} :
          payload' = [payload EXCEPT ![i] = b]

(* cls.decode_payload(payload), by any class for the command.              *)
DecodePayload ==
    /\ stage = "encoded"
    /\ stage' = "decoded"
    /\ \E class \in DecodersFor(message.class) : decoded' = DecodedBy(class, payload)
    /\ UNCHANGED <<message, payload, tampers>>

CodecNext == EncodePayload \/ Cut \/ Extend \/ Overwrite \/ DecodePayload

CodecSpec == CodecInit /\ [][CodecNext]_codecVars

------------------------------------------------------------------------------
(* A message that was encoded and arrives as it was sent is decoded to     *)
(* itself, and by no other class of its command: every range the encoder   *)
(* checks is one the decoder reads back, and the selectors of 0xC4 differ. *)
RoundTrip ==
    stage = "decoded" /\ tampers = 0 =>
        /\ decoded.ok <=> decoded.class = message.class
        /\ decoded.ok => /\ decoded.fields = message.fields
                         /\ decoded.records = message.records

(* Whatever arrives, a decoder takes it only if it is the one encoding of  *)
(* the message it returns, or that message cannot be sent at all: nothing  *)
(* truncated, trailing or out of place is accepted and dropped.            *)
OneEncoding ==
    stage = "decoded" /\ decoded.ok /\ EncodeAccepts(decoded) => payload = Encoded(decoded)
==============================================================================
