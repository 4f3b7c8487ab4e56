----------------------------- MODULE Connection ------------------------------
(***************************************************************************)
(* _handle_client of server/app.py: the task that serves one connection,   *)
(* with its FrameStreamDecoder, its outbound cursor and its LoginSession,  *)
(* against a client that may pipeline, stop, close or reset at any time.   *)
(* A step of the task runs from one await to the next; the awaits are the  *)
(* read (with its heartbeat timeout) and the two drains.  Its interplay    *)
(* with time, the write buffer and the rest of the server is in Service.   *)
(***************************************************************************)
EXTENDS Framing, LoginSession
LOCAL INSTANCE FiniteSets

CONSTANTS
    MaxPayloadBytes,       \* ServerConfig.max_payload_bytes
    ReadChunkSize,         \* ServerConfig.read_chunk_size
    TimeoutErrorIsBuiltin, \* asyncio.TimeoutError is TimeoutError: Python 3.11 on
    MaxSent,               \* bound: packets the client sends
    MaxHeartbeats          \* bound: heartbeats

ASSUME LimitsAssumption == MaxPayloadBytes \in 0..Word - 1 /\ ReadChunkSize \in 1..16 * Word

ASSUME ConnectionAssumption ==
    /\ TimeoutErrorIsBuiltin \in BOOLEAN
    /\ MaxSent \in Nat /\ MaxHeartbeats \in Nat
    /\ ClientPackets \subseteq Packet
    /\ \A p \in ClientPackets : Encodable(p, ClientToServer)
    /\ Key = FromSeed(Seed) /\ Shift = SeedShift

(* The texts of LoginSession and ServerAreaRecord are short enough for the *)
(* packets made of them to fit a frame.                                    *)
ASSUME RepliesFit ==
    \A p \in {HandshakeResponse, ServerSessionResponse, ServerAreaList} :
        Encodable(p, ServerToClient)

VARIABLES
    client,          \* "open", "closed" (end of file sent), "reset"
    clientStream,    \* every byte the client wrote
    clientSent,      \* what it wrote: [packet, end, cursor], as in FrameStream
    received,        \* how many of those bytes the server has read
    pc,              \* the await or loop the task is in
    buffer,          \* decoder._buffer
    inCursor,        \* decoder.cursor
    outboundCursor,  \* outbound_cursor
    serverStream,    \* every byte the server wrote
    serverSent,      \* the packets it wrote
    ending           \* why the task ended

wire      == <<clientStream, clientSent, client>>
decoding  == <<buffer, inCursor>>
outbound  == <<outboundCursor, serverStream, serverSent>>
vars      == <<wire, received, pc, decoding, outbound, ending, sessionVars>>

Boundary(k) == IF k = 0 THEN 0 ELSE clientSent[k].end
CursorAt(k) == IF k = 0 THEN NoCursor ELSE clientSent[k].cursor

Init ==
    /\ SessionInit
    /\ client = "open" /\ clientStream = <<>> /\ clientSent = <<>>
    /\ received = 0 /\ pc = "reading" /\ ending = "none"
    /\ buffer = <<>> /\ inCursor = NoCursor
    /\ outboundCursor = NoCursor /\ serverStream = <<>> /\ serverSent = <<>>

------------------------------------------------------------------------------
(* The client.  It knows the transform its greeting will enable, so it may *)
(* send more before the reply is there, and the network may join it all.   *)
ClientSend(p) ==
    LET k     == Len(clientSent)
        frame == EncodeFrame(p, ClientToServer, CursorAt(k))
    IN  /\ client = "open" /\ pc # "closed" /\ k < MaxSent
        /\ clientStream' = clientStream \o frame
        /\ clientSent' = Append(clientSent,
               [packet |-> p,
                end    |-> Len(clientStream) + Len(frame),
                cursor |-> IF k = 0 THEN 0
                           ELSE CursorAfter(p, ClientToServer, CursorAt(k))])
        /\ UNCHANGED <<client, received, pc, decoding, outbound, ending, sessionVars>>

(* End of file: the client has nothing more to send.                       *)
ClientClose ==
    /\ client = "open" /\ pc # "closed"
    /\ client' = "closed"
    /\ UNCHANGED <<clientStream, clientSent, received, pc, decoding, outbound,
                   ending, sessionVars>>

ClientReset ==
    /\ client # "reset" /\ pc # "closed"
    /\ client' = "reset"
    /\ UNCHANGED <<clientStream, clientSent, received, pc, decoding, outbound,
                   ending, sessionVars>>

------------------------------------------------------------------------------
(* The server.                                                             *)
(* Every packet behind the bytes and with the cursor of the one before.    *)
Written(packets, stream, cursor) ==
    LET out[n \in 0..Len(packets)] ==
            IF n = 0 THEN [bytes |-> stream, cursor |-> cursor]
            ELSE LET before == out[n - 1]
                     p      == packets[n]
                 IN  [bytes  |-> before.bytes \o EncodeFrame(p, ServerToClient, before.cursor),
                      cursor |-> CursorAfter(p, ServerToClient, before.cursor)]
    IN  out[Len(packets)]

Write(packets, cursor) ==
    LET written == Written(packets, serverStream, cursor)
    IN  /\ serverStream' = written.bytes
        /\ serverSent' = serverSent \o packets
        /\ outboundCursor' = written.cursor

Close(why) == pc' = "closed" /\ ending' = why

(* await reader.read(read_chunk_size), then feed extends its buffer.       *)
Read(n) ==
    /\ pc = "reading" /\ client # "reset"
    /\ n <= Len(clientStream) - received
    /\ buffer' = buffer \o SubSeq(clientStream, received + 1, received + n)
    /\ received' = received + n
    /\ pc' = "decoding"
    /\ UNCHANGED <<wire, inCursor, outbound, ending, sessionVars>>

ReadSome == \E n \in 1..ReadChunkSize : Read(n)

ReadEndOfFile ==
    /\ pc = "reading" /\ client = "closed"
    /\ received = Len(clientStream)
    /\ Close("end_of_file")
    /\ UNCHANGED <<wire, received, decoding, outbound, sessionVars>>

(* Mutant: "if outbound_cursor is None: continue" is missing.              *)
TimeoutUngreeted ==
    /\ pc = "reading"
    /\ Cardinality({i \in DOMAIN serverSent : serverSent[i] = Heartbeat}) < MaxHeartbeats
    /\ Write(<<Heartbeat>>, outboundCursor)
    /\ pc' = "draining_heartbeat"
    /\ UNCHANGED <<wire, received, decoding, ending, sessionVars>>

(* The interval passes while the read waits.  On a Python whose            *)
(* asyncio.TimeoutError is not the builtin the "except TimeoutError" is    *)
(* skipped and the outer "except Exception" ends the task.                 *)
Timeout ==
    /\ pc = "reading"
    /\ IF ~TimeoutErrorIsBuiltin
       THEN /\ Close("internal_error")
            /\ UNCHANGED outbound
       ELSE /\ outboundCursor # NoCursor
            /\ Cardinality({i \in DOMAIN serverSent : serverSent[i] = Heartbeat}) < MaxHeartbeats
            /\ Write(<<Heartbeat>>, outboundCursor)
            /\ pc' = "draining_heartbeat"
            /\ UNCHANGED ending
    /\ UNCHANGED <<wire, received, decoding, sessionVars>>

HeartbeatDrained ==
    /\ pc = "draining_heartbeat"
    /\ pc' = "reading"
    /\ UNCHANGED <<wire, received, decoding, outbound, ending, sessionVars>>

Decoded == DecodeOne(buffer, inCursor, ClientToServer, MaxPayloadBytes)

(* feed returns no packet: back to the read.                               *)
NeedMore ==
    /\ pc = "decoding" /\ Decoded.kind = "wait"
    /\ buffer' = Decoded.buffer /\ inCursor' = Decoded.cursor
    /\ pc' = "reading"
    /\ UNCHANGED <<wire, received, outbound, ending, sessionVars>>

(* feed raises FrameError.                                                 *)
Oversize ==
    /\ pc = "decoding" /\ Decoded.kind = "oversize"
    /\ buffer' = Decoded.buffer /\ inCursor' = Decoded.cursor
    /\ Close("protocol_error")
    /\ UNCHANGED <<wire, received, outbound, sessionVars>>

(* Mutants: only one direction gets its cursor; the inner loop is left     *)
(* after the first packet.                                                 *)
EnableOutboundOnly(enable, in, out) ==
    /\ inCursor' = in
    /\ outboundCursor' = IF enable THEN 0 ELSE out
    /\ pc' = "decoding" /\ ending' = ending

EnableInboundOnly(enable, in, out) ==
    /\ inCursor' = IF enable THEN 0 ELSE in
    /\ outboundCursor' = out
    /\ pc' = "decoding" /\ ending' = ending

EnableAndRead(enable, in, out) ==
    /\ inCursor' = IF enable THEN 0 ELSE in
    /\ outboundCursor' = IF enable THEN 0 ELSE out
    /\ pc' = "reading" /\ ending' = ending

(* app.py:121-125; in and out are the cursors so far.                      *)
EnableTransform(enable, in, out) ==
    IF ~enable
    THEN inCursor' = in /\ outboundCursor' = out /\ pc' = "decoding" /\ ending' = ending
    ELSE IF in # NoCursor \/ out # NoCursor
    THEN inCursor' = in /\ outboundCursor' = out /\ Close("internal_error")
    ELSE inCursor' = 0 /\ outboundCursor' = 0 /\ pc' = "decoding" /\ ending' = ending

(* feed returns a packet the session accepts: every response is written    *)
(* with the cursor of before, and drained if there is one.                 *)
HandlePacket ==
    /\ pc = "decoding" /\ Decoded.kind = "packet"
    /\ Handle(Decoded.packet)
    /\ buffer' = Decoded.buffer
    /\ IF outcome'.outbound = <<>>
       THEN /\ EnableTransform(outcome'.enableTransform, Decoded.cursor, outboundCursor)
            /\ UNCHANGED <<serverStream, serverSent>>
       ELSE /\ Write(outcome'.outbound, outboundCursor)
            /\ inCursor' = Decoded.cursor
            /\ pc' = "draining" /\ UNCHANGED ending
    /\ UNCHANGED <<wire, received>>

Drained ==
    /\ pc = "draining"
    /\ EnableTransform(outcome.enableTransform, inCursor, outboundCursor)
    /\ UNCHANGED <<wire, received, buffer, serverStream, serverSent, sessionVars>>

(* Mutant: a SessionProtocolError is logged and the loop goes on.          *)
RejectAndContinue ==
    /\ pc = "decoding" /\ Decoded.kind = "packet"
    /\ ~Accepts(Decoded.packet)
    /\ buffer' = Decoded.buffer /\ inCursor' = Decoded.cursor
    /\ UNCHANGED <<wire, received, pc, outbound, ending, sessionVars>>

(* The session raises.                                                     *)
RejectPacket ==
    /\ pc = "decoding" /\ Decoded.kind = "packet"
    /\ ~Accepts(Decoded.packet)
    /\ buffer' = Decoded.buffer /\ inCursor' = Decoded.cursor
    /\ Close("protocol_error")
    /\ UNCHANGED <<wire, received, outbound, sessionVars>>

(* A read or a drain meets the reset.                                      *)
ConnectionLost ==
    /\ client = "reset"
    /\ pc \in {"reading", "draining", "draining_heartbeat"}
    /\ Close("connection_error")
    /\ UNCHANGED <<wire, received, decoding, outbound, sessionVars>>

(* The server shuts down: CancelledError at whichever await the task is in.*)
Cancelled ==
    /\ pc \in {"reading", "draining", "draining_heartbeat"}
    /\ Close("cancelled")
    /\ UNCHANGED <<wire, received, decoding, outbound, sessionVars>>

ServerStep ==
    \/ ReadSome \/ ReadEndOfFile \/ HeartbeatDrained
    \/ NeedMore \/ Oversize \/ HandlePacket \/ RejectPacket \/ Drained \/ ConnectionLost

ClientStep == (\E p \in ClientPackets : ClientSend(p)) \/ ClientClose \/ ClientReset

Next == ClientStep \/ ServerStep \/ Timeout \/ Cancelled

Spec == Init /\ [][Next]_vars

------------------------------------------------------------------------------
Handled == Len(log)

(* The packets the session acted on are the ones the client sent, in that  *)
(* order, with nothing skipped, repeated or invented, however its bytes    *)
(* were joined or cut and whatever the session did meanwhile: in           *)
(* particular when later frames arrive with the 0xE5.  app.py:79-125       *)
HandledInOrder ==
    /\ Handled <= Len(clientSent)
    /\ \A k \in 1..Handled : log[k].command = clientSent[k].packet.command

(* Between packets the decoder stands on a frame boundary with the cursor  *)
(* the client had there.  app.py:81, 124; framing.py:145-185               *)
InboundInStep ==
    pc \in {"reading", "decoding"} =>
        /\ buffer = SubSeq(clientStream, Boundary(Handled) + 1, received)
        /\ inCursor = CursorAt(Handled)

(* The client's own decoder, once it has looked for n frames: the first in *)
(* the clear, a cursor after it.                                           *)
ClientReads(n) ==
    LET read[i \in 0..n] ==
            IF i = 0 THEN [packets |-> <<>>, rest |-> serverStream, cursor |-> NoCursor]
            ELSE LET before == read[i - 1]
                     d == DecodeOne(before.rest, before.cursor, ServerToClient, Word - 1)
                 IN  IF d.kind # "packet" THEN before
                     ELSE [packets |-> Append(before.packets, d.packet),
                           rest    |-> d.buffer,
                           cursor  |-> IF i = 1 THEN 0 ELSE d.cursor]
    IN  read[n]

(* A client that follows the handshake reads exactly the packets that were *)
(* written, heartbeats between bursts and wide frames included, down to    *)
(* the last byte.  app.py:56-70, 104-125                                   *)
ClientReadsWhatIsSent ==
    LET got == ClientReads(Len(serverSent) + 1)
    IN  got.packets = serverSent /\ got.rest = <<>>

(* The replies to the first k packets, and the first n packets written     *)
(* without the heartbeats among them.                                      *)
Replied(entries, k) ==
    LET replies[i \in 0..k] ==
            IF i = 0 THEN <<>> ELSE replies[i - 1] \o entries[i].outbound
    IN  replies[k]

Unbeaten(packets, n) ==
    LET rest[i \in 0..n] ==
            IF i = 0 THEN <<>>
            ELSE IF packets[i] = Heartbeat THEN rest[i - 1]
            ELSE Append(rest[i - 1], packets[i])
    IN  rest[n]

(* What the client reads is each request's replies, whole and in the order *)
(* of the requests; only heartbeats come on top, and never inside a burst  *)
(* or before the handshake.  app.py:53-70, 104-119                         *)
RepliesInOrder ==
    /\ Unbeaten(serverSent, Len(serverSent)) = Replied(log, Len(log))
    /\ \A i \in 1..Len(serverSent) : serverSent[i] = Heartbeat =>
           /\ i > 1
           /\ \E k \in 1..Len(log) : Unbeaten(serverSent, i - 1) = Replied(log, k)

(* A client that sends only what the session accepts is never cut off: a   *)
(* protocol error means the next frame really was too long or not allowed, *)
(* and the task never ends by an internal error.  app.py:122-123, 131-145  *)
CutOffForAReason ==
    /\ ending # "internal_error"
    /\ ending = "protocol_error" =>
          /\ Handled < Len(clientSent)
          /\ LET next == clientSent[Handled + 1].packet
             IN  Len(next.payload) > MaxPayloadBytes \/ ~Accepts(next)

(* An orderly close loses nothing: whatever the client sent before it, the *)
(* server has handled.  app.py:71-77                                       *)
CloseAfterTheLastRequest ==
    ending = "end_of_file" => Handled = Len(clientSent)

(* While the task waits for more bytes or drains a heartbeat, no complete  *)
(* request sits unanswered in the decoder: a client that sent everything   *)
(* in one segment does not wait for a segment it has no reason to send.    *)
(* app.py:79-84                                                            *)
NoRequestHeldBack ==
    pc \in {"reading", "draining_heartbeat"} => Decoded.kind = "wait"

(* An idle client costs a heartbeat and nothing more, on every Python that *)
(* docs/local-server.md:9 names ("Python 3.10 tro len", 3.10 or later).    *)
(* app.py:53                                                               *)
IdleIsHarmless == ending # "internal_error"
==============================================================================
