----------------------------- MODULE FrameStream -----------------------------
(***************************************************************************)
(* One direction of a connection: a sender that encodes packets onto a     *)
(* byte stream, and the FrameStreamDecoder that is fed whatever fragments  *)
(* of the stream arrive.  The first plain packets of a link are sent       *)
(* before the transform; both ends then start a cursor at zero, the        *)
(* receiver as soon as it has been handed the last of them                 *)
(* (app.py:121-125).                                                       *)
(***************************************************************************)
EXTENDS Framing

CONSTANTS Links,    \* the directions of a connection, as records of
                    \*   direction, max: FrameStreamDecoder's two settings
                    \*   packets: what the sender chooses from
                    \*   plain: how many packets precede the transform
                    \*   limits: the values of feed's max_packets; 0 is None
          MaxSent   \* bound: packets sent

ASSUME FrameStreamAssumption ==
    /\ MaxSent \in Nat
    /\ \A l \in Links :
          /\ l.direction \in {ClientToServer, ServerToClient}
          /\ l.max \in Nat /\ l.plain \in Nat /\ l.limits \subseteq Nat
          /\ l.packets \subseteq Packet
          /\ \A p \in l.packets : Encodable(p, l.direction)
          /\ l.plain > 0 => l.limits = {1}

VARIABLES
    link,       \* the direction this is
    stream,     \* every byte the sender wrote
    sent,       \* what it wrote: [packet, end, cursor], cursor as it was left
    received,   \* how many bytes of stream were fed
    buffer,     \* FrameStreamDecoder._buffer
    cursor,     \* FrameStreamDecoder.cursor
    phase,      \* "idle", "decoding" inside feed, "again" when feed returned
                \* max_packets packets, "failed" after a FrameError
    limit,      \* max_packets of the current feed
    packets,    \* feed's local list
    delivered   \* the packets feed has returned to its caller

vars == <<link, stream, sent, received, buffer, cursor, phase, limit, packets, delivered>>

(* The cursor that comes into force once k packets went through.           *)
Switch(k, c) == IF k = link.plain THEN 0 ELSE c

Boundary(k) == IF k = 0 THEN 0 ELSE sent[k].end
CursorAt(k) == IF k = 0 THEN Switch(0, NoCursor) ELSE sent[k].cursor

Init ==
    /\ link \in Links
    /\ stream = <<>> /\ sent = <<>> /\ received = 0
    /\ buffer = <<>> /\ cursor = Switch(0, NoCursor)
    /\ phase = "idle" /\ limit = 0 /\ packets = <<>> /\ delivered = <<>>

Send(p) ==
    LET n == Len(sent)
        c == CursorAt(n)
        frame == EncodeFrame(p, link.direction, c)
    IN  /\ n < MaxSent
        /\ stream' = stream \o frame
        /\ sent' = Append(sent, [packet |-> p,
                                 end    |-> Len(stream) + Len(frame),
                                 cursor |-> Switch(n + 1, CursorAfter(p, link.direction, c))])
        /\ UNCHANGED <<link, received, buffer, cursor, phase, limit, packets, delivered>>

(* feed(data, max_packets): the n bytes after those already received, or   *)
(* the b"" of a caller that asks for the packets max_packets held back.    *)
Feed(n, max) ==
    /\ received + n <= Len(stream)
    /\ buffer' = buffer \o SubSeq(stream, received + 1, received + n)
    /\ received' = received + n
    /\ phase' = "decoding" /\ limit' = max /\ packets' = <<>>
    /\ UNCHANGED <<link, stream, sent, cursor, delivered>>

FeedBytes ==
    /\ phase = "idle"
    /\ \E n \in 1..(Len(stream) - received), max \in link.limits : Feed(n, max)

(* Mutant: the caller goes back to its read after max_packets packets.     *)
FeedForgotten ==
    /\ phase = "again" /\ phase' = "idle"
    /\ UNCHANGED <<link, stream, sent, received, buffer, cursor, limit, packets, delivered>>

FeedAgain ==
    /\ phase = "again"
    /\ Feed(0, limit)

(* Mutant: max_packets is compared one packet too late.                    *)
AtLimitLate == limit # 0 /\ Len(packets) > limit

AtLimit == limit # 0 /\ Len(packets) >= limit

Decoded == DecodeOne(buffer, cursor, link.direction, link.max)

(* Mutant: the newest packet goes to the front of feed's list.             *)
DecodeNextReversed ==
    /\ phase = "decoding" /\ ~AtLimit
    /\ Decoded.kind = "packet"
    /\ packets' = <<Decoded.packet>> \o packets
    /\ buffer' = Decoded.buffer /\ cursor' = Decoded.cursor
    /\ UNCHANGED <<link, stream, sent, received, phase, limit, delivered>>

DecodeNext ==
    /\ phase = "decoding" /\ ~AtLimit
    /\ Decoded.kind = "packet"
    /\ packets' = Append(packets, Decoded.packet)
    /\ buffer' = Decoded.buffer /\ cursor' = Decoded.cursor
    /\ UNCHANGED <<link, stream, sent, received, phase, limit, delivered>>

(* feed returns max_packets packets; its caller starts the cursor when the *)
(* last plain packet is out, before it feeds again.                        *)
ReturnAtLimit ==
    /\ phase = "decoding" /\ AtLimit
    /\ delivered' = delivered \o packets
    /\ packets' = <<>>
    /\ cursor' = Switch(Len(delivered'), cursor)
    /\ phase' = "again"
    /\ UNCHANGED <<link, stream, sent, received, buffer, limit>>

(* feed returns because the rest of the next frame is still to come.       *)
ReturnWaiting ==
    /\ phase = "decoding" /\ ~AtLimit
    /\ Decoded.kind = "wait"
    /\ delivered' = delivered \o packets
    /\ packets' = <<>>
    /\ buffer' = Decoded.buffer /\ cursor' = Decoded.cursor
    /\ phase' = "idle"
    /\ UNCHANGED <<link, stream, sent, received, limit>>

(* feed raises FrameError: its local list is lost.                         *)
Fail ==
    /\ phase = "decoding" /\ ~AtLimit
    /\ Decoded.kind = "oversize"
    /\ packets' = <<>>
    /\ buffer' = Decoded.buffer /\ cursor' = Decoded.cursor
    /\ phase' = "failed"
    /\ UNCHANGED <<link, stream, sent, received, limit, delivered>>

SendSome == \E p \in link.packets : Send(p)

Receive == FeedBytes \/ FeedAgain \/ DecodeNext \/ ReturnAtLimit \/ ReturnWaiting \/ Fail

Next == SendSome \/ Receive

Spec == Init /\ [][Next]_vars

(* The receiving task feeds what arrives and feed runs to its end; nothing *)
(* obliges the sender to send.                                             *)
FairSpec == Spec /\ WF_vars(Receive)
------------------------------------------------------------------------------
(* How many packets have left the buffer.                                  *)
Taken == Len(delivered) + Len(packets)

(* However the stream is cut into fragments, feed's callers get the sent   *)
(* packets, in order and unchanged, and never one that was not sent.       *)
(* framing.py:106-135                                                      *)
InOrder ==
    /\ Taken <= Len(sent)
    /\ \A k \in 1..Taken : (delivered \o packets)[k] = sent[k].packet

(* No speculative cursor drift (the docstring of FrameStreamDecoder): at   *)
(* every moment the buffer starts on a frame boundary of the stream and    *)
(* the decoder's cursor is the one the encoder had there, whatever partial *)
(* or oversize frames were looked at.  framing.py:145-185                  *)
NoCursorDrift ==
    phase # "failed" =>
        /\ buffer = SubSeq(stream, Boundary(Taken) + 1, received)
        /\ \/ cursor = CursorAt(Taken)
           \/ /\ phase = "decoding" /\ Taken = link.plain /\ cursor = NoCursor

(* An oversize frame leaves the decoder where it was before it: the buffer *)
(* still starts with that frame and the cursor is the one for it, also     *)
(* behind packets that this very feed had decoded.  framing.py:167-172     *)
OversizeStops ==
    phase = "failed" =>
        \E k \in Len(delivered)..Len(sent) - 1 :
            /\ Len(sent[k + 1].packet.payload) > link.max
            /\ buffer = SubSeq(stream, Boundary(k) + 1, received)
            /\ cursor = CursorAt(k)

(* With max_packets=1 the packets before an oversize frame are all handed  *)
(* over before the FrameError.  framing.py:128-135                         *)
NothingLostBeforeOversize ==
    phase = "failed" /\ limit = 1 =>
        /\ Len(sent[Len(delivered) + 1].packet.payload) > link.max
        /\ buffer = SubSeq(stream, Boundary(Len(delivered)) + 1, received)

(* Every packet sent is handed over in the end, or the decoder has failed. *)
EventuallyDelivered ==
    \A k \in 1..MaxSent :
        Len(sent) >= k ~> (Len(delivered) >= k \/ phase = "failed")
==============================================================================
