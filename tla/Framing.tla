------------------------------- MODULE Framing -------------------------------
(***************************************************************************)
(* The frame codec of server/army3_protocol/framing.py: a command byte, a  *)
(* big-endian payload length and the payload.  Server-to-client frames of  *)
(* five commands carry a 32-bit length, and then only the command byte is  *)
(* transformed; every other frame is transformed byte by byte.             *)
(***************************************************************************)
EXTENDS Transform

ClientToServer == "client_to_server"
ServerToClient == "server_to_client"

LENGTH32_SERVER_COMMANDS == {136, 164, 196, 215, 225}

UsesLength32(command, direction) ==
    direction = ServerToClient /\ command \in LENGTH32_SERVER_COMMANDS

Packet == [command : Byte, payload : Seq(Byte)]

LengthWidth(wide) == IF wide THEN 4 ELSE 2

Word == 65536

TwoBytes(n) == <<n \div 256, n % 256>>

LengthBytes(n, wide) ==
    IF wide THEN TwoBytes(n \div Word) \o TwoBytes(n % Word) ELSE TwoBytes(n)

BigEndian(bytes) ==
    IF Len(bytes) = 4
    THEN (bytes[1] * 256 + bytes[2]) * Word + (bytes[3] * 256 + bytes[4])
    ELSE bytes[1] * 256 + bytes[2]

(* The longest payload encode_frame accepts is 16#FFFF or 16#FFFFFFFF.     *)
Encodable(packet, direction) ==
    IF UsesLength32(packet.command, direction)
    THEN Len(packet.payload) \div Word < Word
    ELSE Len(packet.payload) < Word

FrameSize(packet, direction) ==
    1 + LengthWidth(UsesLength32(packet.command, direction)) + Len(packet.payload)

EncodeFrame(packet, direction, cursor) ==
    LET wide == UsesLength32(packet.command, direction)
        body == LengthBytes(Len(packet.payload), wide) \o packet.payload
    IN  IF cursor = NoCursor
        THEN <<packet.command>> \o body
        ELSE <<EncodeCommand(packet.command, cursor)>>
             \o (IF wide THEN body ELSE XorData(body, cursor + 1))

(* The encoder's cursor once a frame is out, and the decoder's once it is  *)
(* in: a wide frame uses one key byte, any other one key byte per byte.    *)
CursorAfter(packet, direction, cursor) ==
    IF cursor = NoCursor THEN NoCursor
    ELSE Advance(cursor, IF UsesLength32(packet.command, direction)
                         THEN 1 ELSE FrameSize(packet, direction))

(***************************************************************************)
(* FrameStreamDecoder._decode_one.  Every way out but the last restores    *)
(* the checkpoint and leaves the buffer alone.                             *)
(***************************************************************************)
(* Mutant: _restore is not called after the command byte was decoded.      *)
UndecidedDrifting(kind, buffer, checkpoint) ==
    [kind   |-> kind, buffer |-> buffer,
     cursor |-> IF checkpoint = NoCursor \/ buffer = <<>> THEN checkpoint
                ELSE Advance(checkpoint, 1)]

Undecided(kind, buffer, checkpoint) ==
    [kind |-> kind, buffer |-> buffer, cursor |-> checkpoint]

(* The bytes of a frame behind its command, as they were before encoding.  *)
Clear(buffer, cursor, wide, from, to) ==
    IF cursor = NoCursor \/ wide THEN SubSeq(buffer, from, to)
    ELSE XorData(SubSeq(buffer, from, to), cursor + from - 1)

DecodeOne(buffer, cursor, direction, maxPayload) ==
    IF buffer = <<>> THEN Undecided("wait", buffer, cursor) ELSE
    LET command == IF cursor = NoCursor THEN buffer[1]
                   ELSE DecodeCommand(buffer[1], cursor)
        wide    == UsesLength32(command, direction)
        header  == 1 + LengthWidth(wide)
        size    == BigEndian(Clear(buffer, cursor, wide, 2, header))
        frame   == header + size
        packet  == [command |-> command,
                    payload |-> Clear(buffer, cursor, wide, header + 1, frame)]
    IN  IF Len(buffer) < header THEN Undecided("wait", buffer, cursor)
        ELSE IF size > maxPayload THEN Undecided("oversize", buffer, cursor)
        ELSE IF Len(buffer) < frame THEN Undecided("wait", buffer, cursor)
        ELSE [kind   |-> "packet",
              packet |-> packet,
              buffer |-> SubSeq(buffer, frame + 1, Len(buffer)),
              cursor |-> CursorAfter(packet, direction, cursor)]
==============================================================================
