---------------------------- MODULE ProtocolProofs ----------------------------
(***************************************************************************)
(* The protocol's payloads and their way over the stream.                  *)
(*                                                                         *)
(* FrameStream keeps its invariants for every key, shift, set of links and *)
(* number of packets, and however the stream is cut into fragments.  The   *)
(* codecs of MessageCodecs are inverse to each other for every message a   *)
(* program may construct, and every payload that may arrive.               *)
(***************************************************************************)
EXTENDS FrameStream, FramingProofs, MessageCodecs

StreamType ==
    /\ link \in Links
    /\ stream \in Seq(Byte)
    /\ sent \in Seq(SentFrame)
    /\ received \in Nat
    /\ buffer \in Seq(Byte)
    /\ cursor \in Cursors
    /\ phase \in {"idle", "decoding", "again", "failed"}
    /\ limit \in Nat
    /\ packets \in Seq(Packet)
    /\ delivered \in Seq(Packet)

First == Switch(0, NoCursor)

(* The stream is the frames that were sent; each leaves the cursor for the *)
(* next one, none while packets go out in the clear.                       *)
LeftAt(k) ==
    /\ sent[k].cursor = Switch(k, CursorAfter(sent[k].packet, link.direction, CursorAt(k - 1)))
    /\ k < link.plain => sent[k].cursor = NoCursor

Written ==
    /\ OnWire(stream, sent, link.direction, First)
    /\ \A k \in 1..Len(sent) : LeftAt(k)

Fed == received <= Len(stream) /\ InOrder

(* Inside feed and between a feed and the next one max_packets asks for.   *)
Limited ==
    /\ phase \in {"idle", "again", "failed"} => packets = <<>>
    /\ phase \in {"decoding", "again"} =>
          /\ link.plain > 0 => limit = 1
          /\ limit = 1 => Len(packets) <= 1

(* The decoder stands on a boundary with that boundary's cursor, or with   *)
(* none when feed is about to return the last plain packet.                *)
OnBoundary ==
    phase # "failed" =>
        /\ Boundary(Taken) <= received
        /\ buffer = SubSeq(stream, Boundary(Taken) + 1, received)
        /\ \/ cursor = CursorAt(Taken)
           \/ /\ phase = "decoding" /\ packets # <<>> /\ limit = 1
              /\ Taken = link.plain /\ cursor = NoCursor

(* A failed decoder stands before the frame that is too long.              *)
Stopped ==
    phase = "failed" =>
        \E k \in Len(delivered)..Len(sent) - 1 :
            /\ Len(sent[k + 1].packet.payload) > link.max
            /\ Boundary(k) <= received
            /\ buffer = SubSeq(stream, Boundary(k) + 1, received)
            /\ cursor = CursorAt(k)
            /\ limit = 1 => k = Len(delivered)

IInv == StreamType /\ Written /\ Fed /\ Limited /\ OnBoundary /\ Stopped
------------------------------------------------------------------------------
(* The settings of a link.                                                 *)
LEMMA LinkSettings ==
    ASSUME link \in Links
    PROVE  /\ link.max \in Nat /\ link.plain \in Nat /\ link.limits \subseteq Nat
           /\ \A p \in link.packets : p \in Packet /\ Encodable(p, link.direction)
           /\ link.plain > 0 => link.limits = {1}
BY FrameStreamAssumption, Zenon

(* Boundaries and cursors are those of the frames on the wire.             *)
LEMMA BoundaryIsEnd ==
    \A k : Boundary(k) = End(sent, k) /\ CursorAt(k) = CursorBehind(sent, k, First)
BY Zenon DEF Boundary, End, CursorAt, CursorBehind, First

(* Where the frames of the stream end, and with which cursor.              *)
LEMMA Boundaries ==
    ASSUME Written, NEW k \in 0..Len(sent)
    PROVE  /\ Boundary(k) \in Nat /\ Boundary(k) <= Len(stream)
           /\ CursorAt(k) \in Cursors
           /\ Len(sent) \in Nat /\ Len(stream) \in Nat
<1>1. OnWire(stream, sent, link.direction, First)  BY Zenon DEF Written
<1>2. /\ End(sent, k) \in Nat /\ End(sent, k) <= Len(stream)
      /\ CursorBehind(sent, k, First) \in Cursors
      /\ Len(sent) \in Nat /\ Len(stream) \in Nat
      BY <1>1, WireEnds
<1>. QED BY <1>2, BoundaryIsEnd, Zenon

(* The cursor of the handshake is a cursor.                                *)
LEMMA SwitchType == ASSUME NEW c \in Cursors, NEW k PROVE Switch(k, c) \in Cursors
<1>1. 0 \in Cursors  BY CursorTypes
<1>. QED BY <1>1, Zenon DEF Switch

(* What is sent keeps the frames already on the stream where they are.     *)
LEMMA WrittenBySend ==
    ASSUME IInv, NEW p \in link.packets, Send(p), NEW n, n = Len(sent)
    PROVE  /\ StreamType' /\ Written'
           /\ \A k \in 0..n : Boundary(k)' = Boundary(k) /\ CursorAt(k)' = CursorAt(k)
           /\ \A k \in 1..n : sent'[k] = sent[k]
           /\ Len(sent') = n + 1
           /\ Len(stream) <= Len(stream')
           /\ \A m, j \in Nat : m <= j /\ j <= Len(stream) =>
                 SubSeq(stream', m + 1, j) = SubSeq(stream, m + 1, j)
<1>. DEFINE d == link.direction
            c == CursorBehind(sent, n, First)
            a == Switch(n + 1, CursorAfter(p, d, c))
            f == EncodeFrame(p, d, c)
            item == [packet |-> p, end |-> Len(stream) + Len(f), cursor |-> a]
<1>1. /\ p \in Packet /\ Encodable(p, d) /\ link.plain \in Nat
      /\ OnWire(stream, sent, d, First) /\ \A k \in 1..n : LeftAt(k)
  <2>1. link \in Links  BY Zenon DEF IInv, StreamType
  <2>. QED BY <2>1, LinkSettings, Zenon DEF IInv, Written
<1>2. n \in Nat /\ c \in Cursors
  <2>1. n \in 0..Len(sent)  BY LenProperties DEF IInv, StreamType
  <2>. QED BY <1>1, <2>1, WireEnds
<1>3. a \in Cursors
  <2>1. CursorAfter(p, d, c) \in Cursors  BY <1>1, <1>2, CursorTypes
  <2>. QED BY <2>1, SwitchType
<1>4. /\ stream' = stream \o f /\ sent' = Append(sent, item)
      /\ UNCHANGED <<link, received, buffer, cursor, phase, limit, packets, delivered>>
  <2>1. CursorAt(Len(sent)) = c  BY BoundaryIsEnd, Zenon
  <2>. QED BY <2>1, Zenon DEF Send
<1>. HIDE DEF a
<1>5. /\ OnWire(stream \o f, Append(sent, item), d, First)
      /\ Extends(stream \o f, Append(sent, item), stream, sent, First, n, p, a)
      BY <1>1, <1>3, WireGrows
<1>. HIDE DEF f, item, c
<1>6. /\ OnWire(stream', sent', d, First)
      /\ Extends(stream', sent', stream, sent, First, n, p, a)
      BY <1>4, <1>5, Zenon
<1>7. link' = link /\ First' = First  BY <1>4, Zenon DEF First, Switch
<1>8. \A k : Boundary(k)' = End(sent', k) /\ CursorAt(k)' = CursorBehind(sent', k, First)
      BY <1>7, Zenon DEF Boundary, End, CursorAt, CursorBehind, First
<1>9. /\ \A k \in 0..n : Boundary(k)' = Boundary(k) /\ CursorAt(k)' = CursorAt(k)
      /\ \A k \in 1..n : sent'[k] = sent[k]
      /\ Len(sent') = n + 1 /\ Len(stream) <= Len(stream')
      /\ sent'[n + 1].packet = p /\ sent'[n + 1].cursor = a
      /\ \A m, j \in Nat : m <= j /\ j <= Len(stream) =>
            SubSeq(stream', m + 1, j) = SubSeq(stream, m + 1, j)
      BY <1>6, <1>8, BoundaryIsEnd, Zenon DEF Extends
<1>10. ASSUME NEW k \in 1..n PROVE LeftAt(k)'
  <2>1. k - 1 \in 0..n  BY <1>2
  <2>. QED BY <1>1, <1>7, <1>9, <2>1, Zenon DEF LeftAt, Switch
<1>11. ASSUME NEW k, k = n + 1 PROVE LeftAt(k)'
  <2>1. k - 1 = n /\ n \in 0..n  BY <1>2, <1>11
  <2>2. sent'[k].packet = p /\ sent'[k].cursor = a /\ CursorAt(k - 1)' = c
        BY <1>9, <1>11, <2>1, BoundaryIsEnd, Zenon DEF c
  <2>3. k < link.plain => a = NoCursor
    <3>1. ASSUME k < link.plain PROVE a = NoCursor
      <4>1. n + 1 # link.plain /\ n # link.plain /\ n < link.plain
            BY <1>1, <1>2, <1>11, <3>1
      <4>2. c = NoCursor
        <5>1. CASE n = 0  BY <4>1, <5>1, Zenon DEF c, CursorBehind, First, Switch
        <5>2. CASE n # 0
          <6>1. n \in 1..n  BY <1>2, <5>2
          <6>. QED BY <1>1, <4>1, <5>2, <6>1, Zenon DEF LeftAt, c, CursorBehind
        <5>. QED BY <5>1, <5>2
      <4>. QED BY <4>1, <4>2, Zenon DEF a, Switch, CursorAfter
    <3>. QED BY <3>1
  <2>4. Switch(k, CursorAfter(sent[k].packet, link.direction, CursorAt(k - 1)))' = a
        BY <1>7, <1>11, <2>2, Zenon DEF a, Switch
  <2>. QED BY <1>7, <2>2, <2>3, <2>4, Zenon DEF LeftAt
<1>12. Written'
  <2>1. \A k \in 1..n + 1 : k \in 1..n \/ k = n + 1  BY <1>2
  <2>. QED BY <1>6, <1>7, <1>9, <1>10, <1>11, <2>1, Zenon DEF Written
<1>13. StreamType'
  <2>1. stream' \in Seq(Byte) /\ sent' \in Seq(SentFrame)  BY <1>6, Zenon DEF OnWire
  <2>. QED BY <1>4, <2>1, Zenon DEF IInv, StreamType
<1>. QED BY <1>9, <1>12, <1>13, Zenon

(* What the decoder makes of its buffer: the next packet that was sent, a  *)
(* refusal of that packet, or a wait for the rest of it.                   *)
LEMMA Decoding ==
    ASSUME IInv, phase = "decoding", ~AtLimit, NEW k, k = Taken
    PROVE  /\ k \in 0..Len(sent) /\ cursor = CursorAt(k)
           /\ limit = 1 => packets = <<>>
           /\ NextFrame(Decoded, buffer, stream, sent, link.direction, cursor, k, received,
                        link.max)
<1>1. /\ Len(delivered) \in Nat /\ Len(packets) \in Nat /\ limit \in Nat /\ Len(sent) \in Nat
      /\ (packets = <<>> <=> Len(packets) = 0)
      BY LenProperties, EmptySeq DEF IInv, StreamType
<1>2. k \in 0..Len(sent)
  <2>1. k <= Len(sent)  BY Zenon DEF IInv, Fed, InOrder
  <2>. QED BY <1>1, <2>1 DEF Taken
<1>3. limit = 1 => packets = <<>>
  <2>1. ~(limit # 0 /\ Len(packets) >= limit)  BY Zenon DEF AtLimit
  <2>. QED BY <1>1, <2>1
<1>4. /\ End(sent, k) <= received /\ buffer = SubSeq(stream, End(sent, k) + 1, received)
      /\ cursor = CursorAt(k) /\ cursor = CursorBehind(sent, k, First)
  <2>1. phase # "failed"  OBVIOUS
  <2>. QED BY <1>3, <2>1, BoundaryIsEnd, Zenon DEF IInv, OnBoundary
<1>5. /\ OnWire(stream, sent, link.direction, First) /\ link.max \in Nat
      /\ received \in Nat /\ received <= Len(stream)
      BY LinkSettings, Zenon DEF IInv, Written, Fed, StreamType
<1>6. NextFrame(DecodeOne(SubSeq(stream, End(sent, k) + 1, received), cursor, link.direction,
                          link.max),
                SubSeq(stream, End(sent, k) + 1, received), stream, sent, link.direction,
                cursor, k, received, link.max)
  <2>. DEFINE d == link.direction
              max == link.max
  <2>. HIDE DEF d, max
  <2>1. OnWire(stream, sent, d, First) /\ max \in Nat  BY <1>5, Zenon DEF d, max
  <2>2. NextFrame(DecodeOne(SubSeq(stream, End(sent, k) + 1, received), cursor, d, max),
                  SubSeq(stream, End(sent, k) + 1, received), stream, sent, d,
                  cursor, k, received, max)
        BY <1>2, <1>4, <1>5, <2>1, WireDecoded
  <2>. QED BY <2>2, Zenon DEF d, max
<1>. QED BY <1>2, <1>3, <1>4, <1>6, Zenon DEF Decoded

------------------------------------------------------------------------------
(* Receiving moves no frame.                                               *)
LEMMA NothingSent ==
    ASSUME IInv, UNCHANGED <<link, stream, sent>>
    PROVE  /\ Written'
           /\ \A k : Boundary(k)' = Boundary(k) /\ CursorAt(k)' = CursorAt(k)
<1>1. ASSUME NEW k PROVE Boundary(k)' = Boundary(k) /\ CursorAt(k)' = CursorAt(k)
      BY Zenon DEF Boundary, CursorAt, Switch
<1>2. ASSUME NEW k, LeftAt(k) PROVE LeftAt(k)'
      BY <1>1, <1>2, Zenon DEF LeftAt, Switch
<1>. QED BY <1>1, <1>2, Zenon DEF IInv, Written, First, Switch

(* The invariant holds initially.                                          *)
LEMMA InitInv == Init => IInv
<1>. SUFFICES ASSUME Init PROVE IInv  OBVIOUS
<1>1. /\ link \in Links /\ stream = <<>> /\ sent = <<>> /\ received = 0 /\ buffer = <<>>
      /\ cursor = CursorAt(0) /\ phase = "idle" /\ limit = 0 /\ packets = <<>> /\ delivered = <<>>
      BY Zenon DEF Init, CursorAt
<1>2. First \in Cursors /\ cursor = First
      BY <1>1, SwitchType, Zenon DEF CursorAt, Cursors, First
<1>3. StreamType  BY <1>1, <1>2 DEF StreamType
<1>4. Len(sent) = 0 /\ Len(stream) = 0 /\ Taken = 0 /\ Boundary(0) = 0
      BY <1>1 DEF Taken, Boundary
<1>5. Written
  <2>1. OnWire(<<>>, <<>>, link.direction, First)  BY <1>2, WireStart
  <2>2. \A k \in 1..Len(sent) : FALSE  BY <1>4
  <2>. QED BY <1>1, <2>1, <2>2, Zenon DEF Written
<1>6. Fed  BY <1>1, <1>4 DEF Fed, InOrder
<1>7. Limited  BY <1>1 DEF Limited
<1>8. buffer = SubSeq(stream, 0 + 1, received)  BY <1>1, SubSeqEmpty
<1>9. OnBoundary  BY <1>1, <1>4, <1>8 DEF OnBoundary
<1>. QED BY <1>1, <1>3, <1>5, <1>6, <1>7, <1>9 DEF IInv, Stopped

(* How many packets have left the buffer, and which.                       *)
LEMMA TakenPackets ==
    ASSUME IInv
    PROVE  /\ Taken \in 0..Len(sent) /\ Len(sent) \in Nat
           /\ Len(delivered) \in Nat /\ Len(packets) \in Nat
           /\ delivered \o packets \in Seq(Packet) /\ Len(delivered \o packets) = Taken
<1>1. /\ delivered \in Seq(Packet) /\ packets \in Seq(Packet)
      /\ Taken <= Len(sent)
      BY Zenon DEF IInv, StreamType, Fed, InOrder
<1>2. Len(delivered) \in Nat /\ Len(packets) \in Nat /\ Len(sent) \in Nat
      BY LenProperties DEF IInv, StreamType
<1>3. /\ delivered \o packets \in Seq(Packet)
      /\ Len(delivered \o packets) = Len(delivered) + Len(packets)
      BY <1>1, Concatenation
<1>. QED BY <1>1, <1>2, <1>3 DEF Taken

(* A frame more on the wire.                                               *)
LEMMA SendInv ==
    ASSUME IInv, NEW p \in link.packets, Send(p)
    PROVE  IInv'
<1>. SUFFICES ASSUME NEW n, n = Len(sent) PROVE IInv'  OBVIOUS
<1>1. /\ UNCHANGED <<link, received, buffer, cursor, phase, limit, packets, delivered>>
      BY Zenon DEF Send
<1>2. /\ StreamType' /\ Written'
      /\ \A k \in 0..n : Boundary(k)' = Boundary(k) /\ CursorAt(k)' = CursorAt(k)
      /\ \A k \in 1..n : sent'[k] = sent[k]
      /\ Len(sent') = n + 1
      /\ Len(stream) <= Len(stream')
      /\ \A m, j \in Nat : m <= j /\ j <= Len(stream) =>
            SubSeq(stream', m + 1, j) = SubSeq(stream, m + 1, j)
      BY WrittenBySend
<1>3. /\ Taken \in 0..n /\ n \in Nat /\ Len(delivered) \in Nat /\ Len(stream) \in Nat
      /\ received \in Nat /\ received <= Len(stream) /\ Len(stream') \in Nat
  <2>1. Len(stream) \in Nat /\ received \in Nat /\ received <= Len(stream)
        BY LenProperties DEF IInv, StreamType, Fed
  <2>2. Len(stream') \in Nat  BY <1>2, LenProperties DEF StreamType
  <2>. QED BY <2>1, <2>2, TakenPackets
<1>4. Taken' = Taken  BY <1>1, Zenon DEF Taken
<1>5. Fed'
  <2>1. received' <= Len(stream')  BY <1>1, <1>2, <1>3
  <2>2. Taken <= n + 1  BY <1>3
  <2>3. \A k \in 1..Taken : k \in 1..n  BY <1>3
  <2>4. InOrder  BY Zenon DEF IInv, Fed
  <2>. QED BY <1>1, <1>2, <1>4, <2>1, <2>2, <2>3, <2>4, Zenon DEF Fed, InOrder
<1>6. Limited'
  <2>1. Limited  BY Zenon DEF IInv
  <2>. QED BY <1>1, <2>1, Zenon DEF Limited
<1>7. OnBoundary'
  <2>. SUFFICES ASSUME phase # "failed"
                PROVE  /\ Boundary(Taken)' <= received
                       /\ buffer = SubSeq(stream', Boundary(Taken)' + 1, received)
                       /\ \/ cursor = CursorAt(Taken)'
                          \/ /\ phase = "decoding" /\ packets # <<>> /\ limit = 1
                             /\ Taken = link.plain /\ cursor = NoCursor
       BY <1>1, <1>4, Zenon DEF OnBoundary
  <2>. SUFFICES ASSUME NEW k, k = Taken
                PROVE  /\ Boundary(k)' <= received
                       /\ buffer = SubSeq(stream', Boundary(k)' + 1, received)
                       /\ \/ cursor = CursorAt(k)'
                          \/ /\ phase = "decoding" /\ packets # <<>> /\ limit = 1
                             /\ k = link.plain /\ cursor = NoCursor
       BY <1>1, <1>4, Zenon DEF Boundary, CursorAt, Switch
  <2>1. /\ Boundary(k) <= received
        /\ buffer = SubSeq(stream, Boundary(k) + 1, received)
        /\ \/ cursor = CursorAt(k)
           \/ /\ phase = "decoding" /\ packets # <<>> /\ limit = 1
              /\ k = link.plain /\ cursor = NoCursor
        BY Zenon DEF IInv, OnBoundary
  <2>2. Boundary(k)' = Boundary(k) /\ CursorAt(k)' = CursorAt(k)  BY <1>2, <1>3, Zenon
  <2>3. Boundary(k) \in Nat  BY <1>3, Boundaries DEF IInv
  <2>4. SubSeq(stream', Boundary(k) + 1, received) = SubSeq(stream, Boundary(k) + 1, received)
        BY <1>2, <1>3, <2>1, <2>3, Zenon
  <2>. QED BY <2>1, <2>2, <2>4, Zenon
<1>8. Stopped'
  <2>. SUFFICES ASSUME phase = "failed" PROVE Stopped'  BY <1>1, Zenon DEF Stopped
  <2>1. PICK k \in Len(delivered)..Len(sent) - 1 :
            /\ Len(sent[k + 1].packet.payload) > link.max
            /\ buffer = SubSeq(stream, Boundary(k) + 1, received)
            /\ cursor = CursorAt(k)
            /\ limit = 1 => k = Len(delivered)
            /\ Boundary(k) <= received
        BY Zenon DEF IInv, Stopped
  <2>2. k \in 0..n /\ k + 1 \in 1..n /\ k \in Len(delivered)..n + 1 - 1  BY <1>3
  <2>3. Boundary(k)' = Boundary(k) /\ CursorAt(k)' = CursorAt(k) /\ sent'[k + 1] = sent[k + 1]
        BY <1>2, <2>2, Zenon
  <2>4. Boundary(k) \in Nat  BY <2>2, Boundaries DEF IInv
  <2>5. SubSeq(stream', Boundary(k) + 1, received) = SubSeq(stream, Boundary(k) + 1, received)
        BY <1>2, <1>3, <2>1, <2>4, Zenon
  <2>6. k \in Len(delivered')..Len(sent') - 1
    <3>1. delivered' = delivered  BY <1>1, Zenon
    <3>2. Len(sent') = n + 1 /\ Len(delivered') = Len(delivered)  BY <1>2, <3>1, Zenon
    <3>. QED BY <1>3, <2>2, <3>2
  <2>. QED BY <1>1, <2>1, <2>3, <2>5, <2>6, Zenon DEF Stopped
<1>. QED BY <1>2, <1>5, <1>6, <1>7, <1>8, Zenon DEF IInv

(* feed: one more chunk into the buffer, and the count of packets anew.   *)
LEMMA FeedInv ==
    ASSUME IInv, NEW n \in Nat, NEW max \in Nat, phase \in {"idle", "again"},
           link.plain > 0 => max = 1, Feed(n, max)
    PROVE  IInv'
<1>1. /\ received + n <= Len(stream)
      /\ buffer' = buffer \o SubSeq(stream, received + 1, received + n)
      /\ received' = received + n
      /\ phase' = "decoding" /\ limit' = max /\ packets' = <<>>
      /\ UNCHANGED <<link, stream, sent, cursor, delivered>>
      BY Zenon DEF Feed
<1>2. packets = <<>> /\ phase # "failed" /\ phase # "decoding"
  <2>1. Limited  BY Zenon DEF IInv
  <2>2. phase \in {"idle", "again", "failed"}  OBVIOUS
  <2>3. phase # "failed" /\ phase # "decoding"  OBVIOUS
  <2>. QED BY <2>1, <2>2, <2>3, Zenon DEF Limited
<1>3. /\ Written'
      /\ \A k : Boundary(k)' = Boundary(k) /\ CursorAt(k)' = CursorAt(k)
      BY <1>1, NothingSent, Zenon
<1>4. Taken' = Taken /\ packets' = packets  BY <1>1, <1>2, Zenon DEF Taken
<1>. SUFFICES ASSUME NEW j, j = Taken PROVE IInv'  OBVIOUS
<1>5. /\ j \in 0..Len(sent) /\ Boundary(j) \in Nat /\ received \in Nat /\ Len(stream) \in Nat
      /\ Boundary(j) <= received /\ stream \in Seq(Byte)
      /\ buffer = SubSeq(stream, Boundary(j) + 1, received)
      /\ cursor = CursorAt(j)
  <2>1. j \in 0..Len(sent)  BY TakenPackets
  <2>2. /\ Boundary(j) <= received
        /\ buffer = SubSeq(stream, Boundary(j) + 1, received)
        /\ cursor = CursorAt(j)
        BY <1>2, Zenon DEF IInv, OnBoundary
  <2>3. received \in Nat /\ stream \in Seq(Byte)  BY Zenon DEF IInv, StreamType
  <2>. QED BY <2>1, <2>2, <2>3, Boundaries DEF IInv
<1>. DEFINE e == received + n
<1>6. e \in Nat /\ received <= e /\ Boundary(j) <= e /\ e <= Len(stream)  BY <1>1, <1>5
<1>7. buffer' = SubSeq(stream, Boundary(j) + 1, e) /\ buffer' \in Seq(Byte)
  <2>. DEFINE b == Boundary(j)
  <2>0. /\ b \in Nat /\ b <= received /\ b <= e /\ e \in Nat /\ e <= Len(stream)
        /\ received <= e /\ received \in Nat /\ stream \in Seq(Byte)
        BY <1>5, <1>6, Zenon
  <2>. HIDE DEF e, b
  <2>1. SubSeq(stream, b + 1, received) \o SubSeq(stream, received + 1, e)
            = SubSeq(stream, b + 1, e)
        BY <2>0, SliceExtended
  <2>2. SubSeq(stream, b + 1, e) \in Seq(Byte)  BY <2>0, Slice
  <2>3. buffer' = SubSeq(stream, b + 1, received) \o SubSeq(stream, received + 1, e)
        BY <1>1, <1>5, Zenon DEF e, b
  <2>. QED BY <2>1, <2>2, <2>3, Zenon DEF b
<1>8. StreamType'
  <2>1. packets' \in Seq(Packet)  BY <1>4, Zenon DEF IInv, StreamType
  <2>2. phase' \in {"idle", "decoding", "again", "failed"}  BY <1>1
  <2>. QED BY <1>1, <1>6, <1>7, <2>1, <2>2, Zenon DEF IInv, StreamType
<1>9. Fed'
  <2>1. InOrder  BY Zenon DEF IInv, Fed
  <2>2. InOrder'  BY <1>1, <1>4, <2>1, Zenon DEF InOrder
  <2>. QED BY <1>1, <1>6, <2>2, Zenon DEF Fed
<1>10. Limited'
  <2>1. Len(packets') <= 1 /\ phase' \notin {"idle", "again", "failed"}  BY <1>1
  <2>. QED BY <1>1, <2>1, Zenon DEF Limited
<1>11. OnBoundary'
  <2>1. Boundary(j)' <= received' /\ buffer' = SubSeq(stream', Boundary(j)' + 1, received')
        BY <1>1, <1>3, <1>6, <1>7, Zenon
  <2>2. cursor' = CursorAt(j)'  BY <1>1, <1>3, <1>5, Zenon
  <2>3. Boundary(Taken)' = Boundary(j)' /\ CursorAt(Taken)' = CursorAt(j)'
        BY <1>1, <1>4, Zenon DEF Boundary, CursorAt, Switch
  <2>. QED BY <2>1, <2>2, <2>3, Zenon DEF OnBoundary
<1>12. Stopped'
  <2>1. phase' # "failed"  BY <1>1
  <2>. QED BY <2>1, Zenon DEF Stopped
<1>. QED BY <1>3, <1>8, <1>9, <1>10, <1>11, <1>12, Zenon DEF IInv

(* feed, with fresh bytes or with none.                                    *)
LEMMA FeedsInv == IInv /\ (FeedBytes \/ FeedAgain) => IInv'
<1>1. ASSUME IInv, FeedBytes PROVE IInv'
  <2>1. PICK n \in 1..Len(stream) - received, max \in link.limits : Feed(n, max)
        BY <1>1, Zenon DEF FeedBytes
  <2>2. phase = "idle" /\ link \in Links /\ stream \in Seq(Byte)
        BY <1>1, Zenon DEF FeedBytes, IInv, StreamType
  <2>3. max \in Nat /\ link.plain > 0 => max = 1  BY <2>2, LinkSettings
  <2>4. max \in Nat  BY <2>2, LinkSettings
  <2>5. n \in Nat
    <3>1. Len(stream) \in Nat /\ received \in Nat  BY <1>1, LenProperties DEF IInv, StreamType
    <3>. QED BY <3>1
  <2>6. phase \in {"idle", "again"}  BY <2>2
  <2>. QED BY <1>1, <2>1, <2>3, <2>4, <2>5, <2>6, FeedInv
<1>2. ASSUME IInv, FeedAgain PROVE IInv'
  <2>1. phase = "again" /\ Feed(0, limit)  BY <1>2, Zenon DEF FeedAgain
  <2>2. limit \in Nat  BY <1>2, Zenon DEF IInv, StreamType
  <2>3. phase \in {"idle", "again"} /\ phase \in {"decoding", "again"} /\ 0 \in Nat  BY <2>1
  <2>4. link.plain > 0 => limit = 1  BY <1>2, <2>3, Zenon DEF IInv, Limited
  <2>. QED BY <1>2, <2>1, <2>2, <2>3, <2>4, FeedInv
<1>. QED BY <1>1, <1>2

(* The next packet leaves the buffer.                                      *)
LEMMA DecodeNextInv == IInv /\ DecodeNext => IInv'
<1>. SUFFICES ASSUME IInv, DecodeNext, NEW k, k = Taken PROVE IInv'  OBVIOUS
<1>. DEFINE j == k + 1
            p == sent[j].packet
            d == link.direction
            e == Boundary(j)
<1>1. /\ phase = "decoding" /\ ~AtLimit /\ Decoded.kind = "packet"
      /\ packets' = Append(packets, Decoded.packet)
      /\ buffer' = Decoded.buffer /\ cursor' = Decoded.cursor
      /\ UNCHANGED <<link, stream, sent, received, phase, limit, delivered>>
      BY Zenon DEF DecodeNext
<1>2. /\ k \in 0..Len(sent) /\ cursor = CursorAt(k)
      /\ limit = 1 => packets = <<>>
      /\ NextFrame(Decoded, buffer, stream, sent, d, cursor, k, received, link.max)
      BY <1>1, Decoding
<1>3. /\ j \in 1..Len(sent) /\ Decoded.packet = p
      /\ cursor' = CursorAfter(p, d, cursor)
      /\ buffer' = SubSeq(stream, e + 1, received) /\ e <= received
  <2>1. /\ Decoded # Undecided("wait", buffer, cursor)
        /\ Decoded # Undecided("oversize", buffer, cursor)
        BY <1>1 DEF Undecided
  <2>. QED BY <1>1, <1>2, <2>1, BoundaryIsEnd, Zenon DEF NextFrame
<1>4. /\ Len(delivered) \in Nat /\ Len(packets) \in Nat /\ Len(sent) \in Nat
      /\ delivered \in Seq(Packet) /\ packets \in Seq(Packet) /\ stream \in Seq(Byte)
      /\ link.plain \in Nat /\ OnWire(stream, sent, d, First)
  <2>1. link \in Links  BY Zenon DEF IInv, StreamType
  <2>. QED BY <2>1, LinkSettings, TakenPackets, Zenon DEF IInv, StreamType, Written
<1>5. /\ Written'
      /\ \A i : Boundary(i)' = Boundary(i) /\ CursorAt(i)' = CursorAt(i)
      BY <1>1, NothingSent, Zenon
<1>6. LeftAt(j) /\ j - 1 = k /\ j # 0 /\ k \in Nat /\ j \in Nat
  <2>1. LeftAt(j)  BY <1>3, Zenon DEF IInv, Written
  <2>. QED BY <1>2, <1>4, <2>1
<1>. HIDE DEF j
<1>7. p \in Packet /\ Encodable(p, d)  BY <1>3, <1>4, SentPacket
<1>8. CursorAt(j) = Switch(j, CursorAfter(p, d, cursor))
      BY <1>2, <1>6, Zenon DEF LeftAt, CursorAt
<1>9. /\ e \in Nat /\ cursor \in Cursors /\ received \in Nat /\ received <= Len(stream)
  <2>1. cursor \in Cursors /\ received \in Nat /\ received <= Len(stream)
        BY Zenon DEF IInv, StreamType, Fed
  <2>2. j \in 0..Len(sent)  BY <1>3
  <2>3. e \in Nat  BY <2>2, Boundaries DEF IInv
  <2>. QED BY <2>1, <2>3
<1>. HIDE DEF p, e
<1>10. buffer' \in Seq(Byte)  BY <1>3, <1>4, <1>9, Slice
<1>13. /\ packets' \in Seq(Packet) /\ Len(packets') = Len(packets) + 1 /\ packets' # <<>>
       /\ packets' = Append(packets, p)
       BY <1>1, <1>3, <1>4, <1>7, AppendProperties
<1>14. Taken' = j
  <2>1. Len(delivered') = Len(delivered)  BY <1>1, Zenon
  <2>. QED BY <1>4, <1>13, <2>1 DEF Taken, j
<1>15. StreamType'
  <2>1. cursor' \in Cursors  BY <1>3, <1>7, <1>9, CursorTypes
  <2>. QED BY <1>1, <1>10, <1>13, <2>1, Zenon DEF IInv, StreamType
<1>16. Fed'
  <2>1. j <= Len(sent)  BY <1>3, <1>4
  <2>2. ASSUME NEW i \in 1..j PROVE (delivered \o packets')[i] = sent[i].packet
    <3>. DEFINE u == delivered \o packets
                v == delivered \o packets'
    <3>1. Len(delivered) + Len(packets) = k  BY DEF Taken
    <3>2. /\ \A x \in 1..Len(delivered) : u[x] = delivered[x]
          /\ \A x \in 1..Len(packets) : u[Len(delivered) + x] = packets[x]
          BY <1>4, Concatenation
    <3>3. /\ \A x \in 1..Len(delivered) : v[x] = delivered[x]
          /\ \A x \in 1..Len(packets') : v[Len(delivered) + x] = packets'[x]
          BY <1>4, <1>13, Concatenation
    <3>4. \A x \in 1..k : u[x] = sent[x].packet  BY Zenon DEF IInv, Fed, InOrder
    <3>5. /\ \A x \in 1..Len(packets) : packets'[x] = packets[x]
          /\ packets'[Len(packets) + 1] = p
          BY <1>4, <1>7, <1>13, AppendProperties
    <3>. HIDE DEF u, v
    <3>. DEFINE a == Len(delivered)
                l == Len(packets)
                m == Len(packets')
    <3>9. a \in Nat /\ l \in Nat /\ m = l + 1 /\ a + l = k /\ j - 1 = k /\ j \in Nat
          BY <1>4, <1>6, <1>13, <3>1, Zenon
    <3>. HIDE DEF a, l, m
    <3>6. CASE i \in 1..Len(delivered)
      <4>1. i \in 1..k  BY <1>4, <3>1, <3>6
      <4>2. v[i] = sent[i].packet  BY <3>2, <3>3, <3>4, <3>6, <4>1, Zenon
      <4>. QED BY <4>2, Zenon DEF v
    <3>7. CASE i \notin 1..Len(delivered) /\ i # j
      <4>. DEFINE x == i - a
      <4>0. i \notin 1..a /\ i # j  BY <3>7, Zenon DEF a
      <4>1. x \in 1..l /\ x \in 1..m /\ i \in 1..k /\ a + x = i  BY <3>9, <4>0
      <4>. HIDE DEF x
      <4>2. v[i] = sent[i].packet  BY <3>2, <3>3, <3>4, <3>5, <4>1, Zenon DEF a, l, m
      <4>. QED BY <4>2, Zenon DEF v
    <3>8. CASE i = j
      <4>. DEFINE x == l + 1
      <4>1. x \in 1..m /\ a + x = i  BY <3>8, <3>9
      <4>. HIDE DEF x
      <4>2. v[i] = packets'[x]  BY <3>3, <4>1, Zenon DEF a, m
      <4>3. packets'[x] = p  BY <3>5, Zenon DEF x, l
      <4>4. v[i] = sent[i].packet  BY <3>8, <4>2, <4>3, Zenon DEF p
      <4>. QED BY <4>4, Zenon DEF v
    <3>. QED BY <3>6, <3>7, <3>8
  <2>3. delivered' = delivered /\ sent' = sent /\ received' = received /\ stream' = stream
        BY <1>1, Zenon
  <2>4. \A i \in 1..j : (delivered' \o packets')[i] = sent'[i].packet  BY <2>2, <2>3, Zenon
  <2>5. j <= Len(sent') /\ received' <= Len(stream')  BY <1>9, <2>1, <2>3, Zenon
  <2>. QED BY <1>14, <2>4, <2>5, Zenon DEF Fed, InOrder
<1>17. Limited'
  <2>1. phase' \notin {"idle", "again", "failed"} /\ phase \in {"decoding", "again"}
        BY <1>1
  <2>2. limit' = 1 => Len(packets') <= 1
    <3>1. ASSUME limit = 1 PROVE Len(packets') <= 1
      <4>1. Len(packets) = 0  BY <1>2, <3>1, EmptySeq
      <4>. QED BY <1>13, <4>1
    <3>. QED BY <1>1, <3>1, Zenon
  <2>3. link.plain > 0 => limit = 1  BY <2>1, Zenon DEF IInv, Limited
  <2>. QED BY <1>1, <2>1, <2>2, <2>3, Zenon DEF Limited
<1>18. OnBoundary'
  <2>1. \/ cursor' = CursorAt(j)
        \/ phase = "decoding" /\ limit = 1 /\ j = link.plain /\ cursor' = NoCursor
    <3>1. CASE j # link.plain
      <4>1. CursorAt(j) = CursorAfter(p, d, cursor)  BY <1>8, <3>1, Zenon DEF Switch
      <4>. QED BY <1>3, <4>1
    <3>2. CASE j = link.plain
      <4>1. link.plain > 0 /\ k < link.plain /\ k # link.plain  BY <1>4, <1>6, <3>2
      <4>2. limit = 1  BY <1>1, <4>1 DEF IInv, Limited
      <4>3. cursor = NoCursor
        <5>1. CASE k = 0  BY <1>2, <4>1, <5>1, Zenon DEF CursorAt, Switch
        <5>2. CASE k # 0
          <6>1. k \in 1..Len(sent)  BY <1>2, <5>2
          <6>2. LeftAt(k)  BY <6>1, Zenon DEF IInv, Written
          <6>. QED BY <1>2, <4>1, <5>2, <6>2, Zenon DEF LeftAt, CursorAt
        <5>. QED BY <5>1, <5>2
      <4>4. cursor' = NoCursor  BY <1>3, <4>3, Zenon DEF CursorAfter
      <4>. QED BY <1>1, <3>2, <4>2, <4>4
    <3>. QED BY <3>1, <3>2
  <2>2. Boundary(Taken)' = e /\ CursorAt(Taken)' = CursorAt(j)
        BY <1>1, <1>14, Zenon DEF e, Boundary, CursorAt, Switch
  <2>. QED BY <1>1, <1>3, <1>10, <1>13, <1>14, <2>1, <2>2, Zenon DEF OnBoundary
<1>19. Stopped'
  <2>1. phase' # "failed"  BY <1>1
  <2>. QED BY <2>1, Zenon DEF Stopped
<1>. QED BY <1>5, <1>15, <1>16, <1>17, <1>18, <1>19, Zenon DEF IInv

(* feed hands its list over, at max_packets or because bytes are missing.  *)
LEMMA HandOver ==
    ASSUME IInv, phase = "decoding", NEW k, k = Taken,
           delivered' = delivered \o packets, packets' = <<>>, cursor' = CursorAt(k),
           buffer' = buffer, phase' \in {"idle", "again"},
           phase' = "again" => (limit = limit' /\ (link.plain > 0 => limit = 1)),
           UNCHANGED <<link, stream, sent, received, limit>>
    PROVE  IInv'
<1>1. /\ k \in 0..Len(sent) /\ delivered' \in Seq(Packet) /\ Len(delivered') = k
      BY TakenPackets
<1>2. /\ Written'
      /\ \A i : Boundary(i)' = Boundary(i) /\ CursorAt(i)' = CursorAt(i)
      BY NothingSent, Zenon
<1>3. Taken' = k /\ Len(packets') = 0
  <2>1. Len(packets') = 0 /\ k \in Nat  BY <1>1
  <2>. QED BY <1>1, <2>1 DEF Taken
<1>4. delivered' \o packets' = delivered \o packets  BY <1>1, ConcatEmptySeq
<1>5. phase' # "failed" /\ phase' \in {"idle", "decoding", "again", "failed"}
      BY Zenon
<1>6. StreamType'
  <2>1. CursorAt(k) \in Cursors  BY <1>1, Boundaries DEF IInv
  <2>2. packets' \in Seq(Packet)  OBVIOUS
  <2>. QED BY <1>1, <1>5, <2>1, <2>2, Zenon DEF IInv, StreamType
<1>7. Fed'
  <2>1. k <= Len(sent)  BY <1>1, TakenPackets
  <2>. QED BY <1>3, <1>4, <2>1, Zenon DEF IInv, Fed, InOrder
<1>8. Limited'
  <2>1. Len(packets') <= 1 /\ phase' # "decoding"  BY <1>3
  <2>. QED BY <2>1, Zenon DEF Limited
<1>9. OnBoundary'
  <2>1. phase # "failed"  OBVIOUS
  <2>2. Boundary(k) <= received /\ buffer = SubSeq(stream, Boundary(k) + 1, received)
        BY <2>1, Zenon DEF IInv, OnBoundary
  <2>3. Boundary(Taken)' = Boundary(k) /\ CursorAt(Taken)' = CursorAt(k)
        BY <1>3, Zenon DEF Boundary, CursorAt, Switch
  <2>. QED BY <2>2, <2>3, Zenon DEF OnBoundary
<1>. QED BY <1>2, <1>5, <1>6, <1>7, <1>8, <1>9, Zenon DEF IInv, Stopped

(* feed returns, with or without a limit of packets.                       *)
LEMMA ReturnsInv == IInv /\ (ReturnAtLimit \/ ReturnWaiting) => IInv'
<1>1. ASSUME IInv, ReturnAtLimit, NEW k, k = Taken PROVE IInv'
  <2>1. /\ phase = "decoding" /\ AtLimit
        /\ delivered' = delivered \o packets /\ packets' = <<>>
        /\ cursor' = Switch(Len(delivered'), cursor) /\ phase' = "again"
        /\ UNCHANGED <<link, stream, sent, received, buffer, limit>>
        BY <1>1, Zenon DEF ReturnAtLimit
  <2>2. Len(delivered') = k /\ k \in 0..Len(sent) /\ Len(sent) \in Nat
        BY <1>1, <2>1, TakenPackets
  <2>3. k = link.plain => CursorAt(k) = 0
    <3>1. CASE k = 0  BY <3>1, Zenon DEF CursorAt, Switch
    <3>2. CASE k # 0
      <4>1. k \in 1..Len(sent)  BY <2>2, <3>2
      <4>2. LeftAt(k)  BY <1>1, <4>1, Zenon DEF IInv, Written
      <4>. QED BY <3>2, <4>2, Zenon DEF LeftAt, CursorAt, Switch
    <3>. QED BY <3>1, <3>2
  <2>4. cursor = CursorAt(k) \/ k = link.plain
    <3>1. phase # "failed"  BY <2>1
    <3>. QED BY <1>1, <3>1, Zenon DEF IInv, OnBoundary
  <2>5. cursor' = CursorAt(k)  BY <2>1, <2>2, <2>3, <2>4, Zenon DEF Switch
  <2>6. phase \in {"decoding", "again"} /\ phase' \in {"idle", "again"}  BY <2>1
  <2>7. link.plain > 0 => limit = 1  BY <1>1, <2>6, Zenon DEF IInv, Limited
  <2>. QED BY <1>1, <2>1, <2>5, <2>6, <2>7, HandOver, Zenon
<1>2. ASSUME IInv, ReturnWaiting, NEW k, k = Taken PROVE IInv'
  <2>1. /\ phase = "decoding" /\ ~AtLimit /\ Decoded.kind = "wait"
        /\ delivered' = delivered \o packets /\ packets' = <<>>
        /\ buffer' = Decoded.buffer /\ cursor' = Decoded.cursor /\ phase' = "idle"
        /\ UNCHANGED <<link, stream, sent, received, limit>>
        BY <1>2, Zenon DEF ReturnWaiting
  <2>2. /\ cursor = CursorAt(k)
        /\ NextFrame(Decoded, buffer, stream, sent, link.direction, cursor, k, received, link.max)
        BY <1>2, <2>1, Decoding, Zenon
  <2>3. Decoded = Undecided("wait", buffer, cursor)
    <3>1. Decoded # Undecided("oversize", buffer, cursor) /\ Decoded.kind # "packet"
          BY <2>1 DEF Undecided
    <3>. QED BY <2>2, <3>1, Zenon DEF NextFrame
  <2>4. Decoded.buffer = buffer /\ Decoded.cursor = cursor  BY <2>3 DEF Undecided
  <2>5. phase' \in {"idle", "again"} /\ phase' # "again"  BY <2>1
  <2>. QED BY <1>2, <2>1, <2>2, <2>4, <2>5, HandOver, Zenon
<1>. QED BY <1>1, <1>2

(* feed raises FrameError.                                                 *)
LEMMA FailInv == IInv /\ Fail => IInv'
<1>. SUFFICES ASSUME IInv, Fail, NEW k, k = Taken PROVE IInv'  OBVIOUS
<1>1. /\ phase = "decoding" /\ ~AtLimit /\ Decoded.kind = "oversize" /\ packets' = <<>>
      /\ buffer' = Decoded.buffer /\ cursor' = Decoded.cursor /\ phase' = "failed"
      /\ UNCHANGED <<link, stream, sent, received, limit, delivered>>
      BY Zenon DEF Fail
<1>2. /\ k \in 0..Len(sent) /\ cursor = CursorAt(k)
      /\ limit = 1 => packets = <<>>
      /\ NextFrame(Decoded, buffer, stream, sent, link.direction, cursor, k, received, link.max)
      BY <1>1, Decoding
<1>3. /\ k + 1 \in 1..Len(sent) /\ Len(sent[k + 1].packet.payload) > link.max
      /\ Decoded = Undecided("oversize", buffer, cursor)
  <2>1. Decoded # Undecided("wait", buffer, cursor) /\ Decoded.kind # "packet"
        BY <1>1 DEF Undecided
  <2>. QED BY <1>2, <2>1, Zenon DEF NextFrame
<1>4. Decoded.buffer = buffer /\ Decoded.cursor = cursor  BY <1>3 DEF Undecided
<1>5. /\ Written'
      /\ \A i : Boundary(i)' = Boundary(i) /\ CursorAt(i)' = CursorAt(i)
      BY <1>1, NothingSent, Zenon
<1>6. /\ Len(delivered) \in Nat /\ Len(packets) \in Nat /\ Len(sent) \in Nat
      /\ Len(delivered) + Len(packets) = k /\ Taken <= Len(sent)
      /\ delivered \in Seq(Packet) /\ packets \in Seq(Packet)
      BY TakenPackets DEF Taken, IInv, StreamType
<1>7. StreamType'
  <2>1. packets' \in Seq(Packet)  BY <1>1
  <2>2. phase' \in {"idle", "decoding", "again", "failed"}  BY <1>1
  <2>. QED BY <1>1, <1>4, <2>1, <2>2, Zenon DEF IInv, StreamType
<1>8. Taken' = Len(delivered) /\ delivered' \o packets' = delivered
  <2>1. Len(packets') = 0 /\ delivered \o packets' = delivered  BY <1>1, <1>6, ConcatEmptySeq
  <2>. QED BY <1>1, <1>6, <2>1 DEF Taken
<1>9. Fed'
  <2>1. Len(delivered) <= Len(sent)  BY <1>2, <1>6
  <2>2. ASSUME NEW i \in 1..Len(delivered) PROVE delivered[i] = sent[i].packet
    <3>1. i \in 1..k  BY <1>6
    <3>2. (delivered \o packets)[i] = delivered[i]  BY <1>6, Concatenation
    <3>. QED BY <3>1, <3>2, Zenon DEF IInv, Fed, InOrder
  <2>3. received <= Len(stream)  BY Zenon DEF IInv, Fed
  <2>. QED BY <1>1, <1>8, <2>1, <2>2, <2>3, Zenon DEF Fed, InOrder
<1>10. Limited'
  <2>1. phase' \notin {"decoding", "again"}  BY <1>1
  <2>. QED BY <1>1, <2>1, Zenon DEF Limited
<1>11. OnBoundary'  BY <1>1, Zenon DEF OnBoundary
<1>12. Stopped'
  <2>1. k \in Len(delivered)..Len(sent) - 1  BY <1>2, <1>3, <1>6
  <2>2. limit = 1 => k = Len(delivered)
    <3>1. ASSUME limit = 1 PROVE k = Len(delivered)
      <4>1. Len(packets) = 0  BY <1>2, <3>1, EmptySeq
      <4>. QED BY <1>6, <4>1
    <3>. QED BY <3>1
  <2>3. Boundary(k) <= received /\ buffer = SubSeq(stream, Boundary(k) + 1, received)
    <3>1. phase # "failed"  BY <1>1
    <3>. QED BY <3>1, Zenon DEF IInv, OnBoundary
  <2>4. Len(sent') - 1 = Len(sent) - 1 /\ Len(delivered') = Len(delivered)  BY <1>1, Zenon
  <2>. QED BY <1>1, <1>2, <1>3, <1>4, <1>5, <2>1, <2>2, <2>3, <2>4, Zenon DEF Stopped
<1>. QED BY <1>5, <1>7, <1>9, <1>10, <1>11, <1>12, Zenon DEF IInv

------------------------------------------------------------------------------
(* The invariant holds in every reachable state: the stream is the frames  *)
(* that were sent, and the decoder stands before one of them.              *)
(* framing.py:106-186, app.py:121-130                                      *)
THEOREM StreamInvariant == Spec => []IInv
<1>1. Init => IInv  BY InitInv
<1>2. IInv /\ [Next]_vars => IInv'
  <2>. SUFFICES ASSUME IInv, [Next]_vars PROVE IInv'  OBVIOUS
  <2>1. CASE SendSome
    <3>1. PICK p \in link.packets : Send(p)  BY <2>1, Zenon DEF SendSome
    <3>. QED BY <3>1, SendInv
  <2>2. CASE FeedBytes \/ FeedAgain  BY <2>2, FeedsInv
  <2>3. CASE DecodeNext  BY <2>3, DecodeNextInv
  <2>4. CASE ReturnAtLimit \/ ReturnWaiting  BY <2>4, ReturnsInv
  <2>5. CASE Fail  BY <2>5, FailInv
  <2>6. CASE UNCHANGED vars
    <3>. USE <2>6 DEF vars
    <3>1. StreamType'  BY Zenon DEF IInv, StreamType
    <3>2. /\ Written'
          /\ \A k : Boundary(k)' = Boundary(k) /\ CursorAt(k)' = CursorAt(k)
          BY NothingSent, Zenon
    <3>3. Taken' = Taken  BY Zenon DEF Taken
    <3>4. Fed'  BY <3>3, Zenon DEF IInv, Fed, InOrder
    <3>5. Limited'  BY Zenon DEF IInv, Limited
    <3>6. Boundary(Taken)' = Boundary(Taken) /\ CursorAt(Taken)' = CursorAt(Taken)
          BY <3>3, Zenon DEF Boundary, CursorAt, Switch
    <3>7. OnBoundary'  BY <3>3, <3>6, Zenon DEF IInv, OnBoundary
    <3>8. Stopped'  BY <3>2, Zenon DEF IInv, Stopped
    <3>. QED BY <3>1, <3>2, <3>4, <3>5, <3>7, <3>8, Zenon DEF IInv
  <2>. QED BY <2>1, <2>2, <2>3, <2>4, <2>5, <2>6, Zenon DEF Next, Receive
<1>. QED BY <1>1, <1>2, PTL DEF Spec

(* However the stream is cut, feed's callers get the packets that were     *)
(* sent, in order and unchanged.  framing.py:106-135                       *)
THEOREM DeliveredInOrder == Spec => []InOrder
<1>1. IInv => InOrder  BY DEF IInv, Fed
<1>. QED BY <1>1, StreamInvariant, PTL

(* The decoder's buffer starts on a boundary of the stream and its cursor  *)
(* is the encoder's there.  framing.py:145-185                             *)
THEOREM CursorNeverDrifts == Spec => []NoCursorDrift
<1>1. IInv => NoCursorDrift  BY Zenon DEF IInv, OnBoundary, NoCursorDrift
<1>. QED BY <1>1, StreamInvariant, PTL

(* A decoder that failed stands, untouched, before the oversize frame.     *)
(* framing.py:167-172                                                      *)
THEOREM StopsAtOversize == Spec => []OversizeStops
<1>1. IInv => OversizeStops  BY Zenon DEF IInv, Stopped, OversizeStops
<1>. QED BY <1>1, StreamInvariant, PTL

(* With max_packets=1 every packet before the oversize frame was handed    *)
(* over.  framing.py:128-135                                               *)
THEOREM HandedOverBeforeOversize == Spec => []NothingLostBeforeOversize
<1>1. IInv => NothingLostBeforeOversize
      BY Zenon DEF IInv, Stopped, NothingLostBeforeOversize
<1>. QED BY <1>1, StreamInvariant, PTL

------------------------------------------------------------------------------
(* Readers and writers.                                                    *)

(* A number of the bytes' big-endian value is computed byte by byte.       *)
LEMMA UnsignedSteps ==
    ASSUME NEW s \in Seq(Byte)
    PROVE  \E n : /\ n[0] = 0
                  /\ \A i \in 1..Len(s) : n[i] = n[i - 1] * 256 + s[i]
                  /\ Unsigned(s) = n[Len(s)]
<1>. DEFINE m == Len(s)
            step == [x \in Nat \X (1..m) |-> x[1] * 256 + s[x[2]]]
            P(g) == g = [i \in 0..m |-> IF i = 0 THEN 0 ELSE g[i - 1] * 256 + s[i]]
<1>0. \A b \in Byte : b \in Nat  BY DEF Byte
<1>1. m \in Nat /\ \A i \in 1..m : s[i] \in Nat
  <2>1. \A i \in 1..Len(s) : s[i] \in Byte  BY ElementOfSeq
  <2>. QED BY <1>0, <2>1
<1>. HIDE DEF m
<1>2. /\ step \in [Nat \X (1..m) -> Nat]
      /\ \A b \in Nat, i \in 1..m : step[<<b, i>>] = b * 256 + s[i]
      BY <1>1
<1>. HIDE DEF step
<1>3. PICK g \in [0..m -> Nat] : g[0] = 0 /\ \A i \in 1..m : g[i] = step[<<g[i - 1], i>>]
  <2>1. 0 \in Nat  OBVIOUS
  <2>2. PICK g : Recurs(g, Nat, m, 0, step)  BY <1>1, <1>2, <2>1, RecursionUpTo, Zenon
  <2>. QED BY <2>2, Zenon DEF Recurs
<1>4. P(g)
  <2>1. ASSUME NEW i \in 0..m
        PROVE  g[i] = IF i = 0 THEN 0 ELSE g[i - 1] * 256 + s[i]
    <3>1. CASE i = 0  BY <1>3, <3>1
    <3>2. CASE i # 0
      <4>1. i \in 1..m /\ i - 1 \in 0..m  BY <1>1, <3>2
      <4>2. g[i - 1] \in Nat /\ g[i] = step[<<g[i - 1], i>>]  BY <1>3, <4>1
      <4>3. step[<<g[i - 1], i>>] = g[i - 1] * 256 + s[i]  BY <1>2, <4>1, <4>2
      <4>. QED BY <3>2, <4>2, <4>3, Zenon
    <3>. QED BY <3>1, <3>2
  <2>. QED BY <1>3, <2>1
<1>. DEFINE h == CHOOSE z : P(z)
<1>5. P(h)  BY <1>4, Zenon
<1>6. Unsigned(s) = h[m]  BY Zenon DEF Unsigned, m
<1>. HIDE DEF h
<1>7. \A i \in 1..m : i \in 0..m /\ i # 0  BY <1>1
<1>8. h[0] = 0 /\ \A i \in 1..m : h[i] = h[i - 1] * 256 + s[i]
  <2>1. \A i \in 0..m : h[i] = IF i = 0 THEN 0 ELSE h[i - 1] * 256 + s[i]  BY <1>5
  <2>. QED BY <1>1, <1>7, <2>1
<1>. QED BY <1>6, <1>8, Zenon DEF m

(* One byte is its own value, and two are a u16.                           *)
LEMMA UnsignedValues ==
    \A a, b \in Byte : Unsigned(<<a>>) = a /\ Unsigned(<<a, b>>) = a * 256 + b
<1>. SUFFICES ASSUME NEW a \in Byte, NEW b \in Byte
              PROVE  Unsigned(<<a>>) = a /\ Unsigned(<<a, b>>) = a * 256 + b
     BY Zenon
<1>0. a \in Int /\ b \in Int  BY DEF Byte
<1>1. Unsigned(<<a>>) = a
  <2>1. <<a>> \in Seq(Byte) /\ Len(<<a>>) = 1 /\ <<a>>[1] = a  OBVIOUS
  <2>2. PICK n : /\ n[0] = 0 /\ \A i \in 1..1 : n[i] = n[i - 1] * 256 + <<a>>[i]
                 /\ Unsigned(<<a>>) = n[1]
        BY <2>1, UnsignedSteps
  <2>3. n[1] = n[1 - 1] * 256 + a  BY <2>1, <2>2
  <2>. QED BY <1>0, <2>2, <2>3
<1>2. Unsigned(<<a, b>>) = a * 256 + b
  <2>. DEFINE s == <<a, b>>
  <2>1. s \in Seq(Byte) /\ Len(s) = 2 /\ s[1] = a /\ s[2] = b  OBVIOUS
  <2>. HIDE DEF s
  <2>2. PICK n : /\ n[0] = 0 /\ \A i \in 1..2 : n[i] = n[i - 1] * 256 + s[i]
                 /\ Unsigned(s) = n[2]
        BY <2>1, UnsignedSteps
  <2>3. n[1] = n[0] * 256 + a /\ n[2] = n[1] * 256 + b
    <3>1. 1 \in 1..2 /\ 2 \in 1..2 /\ 1 - 1 = 0 /\ 2 - 1 = 1  OBVIOUS
    <3>. QED BY <2>1, <2>2, <3>1
  <2>. QED BY <1>0, <2>2, <2>3 DEF s
<1>. QED BY <1>1, <1>2

(* Reading as many bytes as were put in front, and what is in front of the *)
(* rest when a read succeeds.                                              *)
LEMMA ExactBack ==
    ASSUME NEW s \in Seq(Byte), NEW t \in Seq(Byte)
    PROVE  ReadExact(s \o t, Len(s)) = ReadAs(s, t)
<1>. DEFINE g == s \o t
            m == Len(s)
            n == Len(g)
            v == SubSeq(g, 1, m)
            w == SubSeq(g, m + 1, n)
<1>1. m \in Nat /\ Len(t) \in Nat  OBVIOUS
<1>2. /\ g \in Seq(Byte) /\ n = m + Len(t) /\ n \in Nat /\ m <= n
      /\ \A i \in 1..m : g[i] = s[i]
      /\ \A i \in 1..Len(t) : g[m + i] = t[i]
      BY BytesConcatenation
<1>. HIDE DEF g, n
<1>3. n = Len(g)  BY DEF n
<1>4. v = s
  <2>1. /\ SubSeq(g, 0 + 1, m) \in Seq(Byte)
        /\ Len(SubSeq(g, 0 + 1, m)) = m - 0
        /\ \A i \in 1..m - 0 : SubSeq(g, 0 + 1, m)[i] = g[0 + i]
        BY <1>1, <1>2, <1>3, Slice
  <2>2. v \in Seq(Byte) /\ Len(v) = m /\ \A i \in 1..m : v[i] = s[i]  BY <1>1, <1>2, <2>1
  <2>. HIDE DEF v
  <2>. QED BY <2>2, SeqEqual
<1>5. w = t
  <2>1. /\ w \in Seq(Byte) /\ Len(w) = n - m
        /\ \A i \in 1..n - m : w[i] = g[m + i]
        BY <1>1, <1>2, <1>3, Slice
  <2>2. n - m = Len(t)  BY <1>1, <1>2
  <2>. HIDE DEF w
  <2>. QED BY <1>2, <2>1, <2>2, SeqEqual
<1>6. ~(m > Len(g))  BY <1>1, <1>2, <1>3
<1>7. ReadExact(g, m) = ReadAs(v, w)  BY <1>3, <1>6, Zenon DEF ReadExact
<1>. QED BY <1>4, <1>5, <1>7, Zenon DEF g

(* A read that succeeds took its bytes off the front.                      *)
LEMMA ExactForm ==
    ASSUME NEW r \in Seq(Byte), NEW m \in Nat
    PROVE  \/ ReadExact(r, m) = Truncated
           \/ \E s, t \in Seq(Byte) : Len(s) = m /\ r = s \o t /\ ReadExact(r, m) = ReadAs(s, t)
<1>. DEFINE n == Len(r)
            v == SubSeq(r, 1, m)
            w == SubSeq(r, m + 1, n)
<1>1. n \in Nat  OBVIOUS
<1>2. CASE m > n  BY <1>2 DEF ReadExact
<1>3. CASE ~(m > n)
  <2>1. m <= n /\ 0 + 1 = 1 /\ 0 \in Nat /\ 0 <= m /\ m - 0 = m  BY <1>1, <1>3
  <2>. HIDE DEF n
  <2>2. n = Len(r)  BY DEF n
  <2>3. SubSeq(r, 0 + 1, m) \in Seq(Byte) /\ Len(SubSeq(r, 0 + 1, m)) = m - 0
        BY <2>1, <2>2, Slice
  <2>4. w \in Seq(Byte)  BY <1>1, <2>1, <2>2, Slice
  <2>5. SubSeq(r, 0 + 1, m) \o SubSeq(r, m + 1, n) = SubSeq(r, 0 + 1, n)
    <3>1. 0 \in Nat /\ 0 <= m /\ m <= n /\ n <= Len(r)  BY <1>1, <2>1, <2>2
    <3>. QED BY <1>1, <3>1, SliceExtended, Zenon
  <2>6. SubSeq(r, 1, n) = r  BY <2>2, SubSeqFull
  <2>7. v \in Seq(Byte) /\ Len(v) = m /\ v \o w = r  BY <2>1, <2>3, <2>5, <2>6, Zenon
  <2>8. ReadExact(r, m) = ReadAs(v, w)  BY <1>3, <2>2, Zenon DEF ReadExact
  <2>. QED BY <2>4, <2>7, <2>8, Zenon
<1>. QED BY <1>2, <1>3

------------------------------------------------------------------------------
(* The readers and writers of numbers.                                     *)

LEMMA RadixFacts == Radix \in Int /\ Radix > 0 /\ Radix - 1 = 255 * 256 + 255
BY SMT DEF Radix

(* A u16 is written as two bytes, and two bytes are those of one u16.      *)
LEMMA WrittenU16 ==
    ASSUME NEW n \in U16s
    PROVE  \E a, b \in Byte : U16(n) = <<a, b>> /\ n = a * 256 + b
<1>. DEFINE a == n \div 256
            b == n % 256
<1>1. n \in Int /\ 0 <= n /\ n <= Radix - 1  BY RadixFacts DEF U16s
<1>2. a \in Int /\ b \in Int /\ 0 <= b /\ b <= 255 /\ n = a * 256 + b  BY <1>1
<1>3. U16(n) = <<a, b>>  BY DEF U16
<1>. HIDE DEF a, b
<1>4. n <= 255 * 256 + 255  BY <1>1, RadixFacts, Zenon
<1>5. 0 <= a /\ a <= 255  BY <1>1, <1>2, <1>4
<1>6. a \in Byte /\ b \in Byte  BY <1>2, <1>5 DEF Byte
<1>. QED BY <1>2, <1>3, <1>6

(* Two bytes are those of one u16.                                         *)
LEMMA TwoBytesAreU16 ==
    ASSUME NEW a \in Byte, NEW b \in Byte, NEW n, n = a * 256 + b
    PROVE  n \in U16s /\ U16(n) = <<a, b>>
<1>. DEFINE q == n \div 256
            e == n % 256
<1>1. /\ a \in Int /\ 0 <= a /\ a <= 255
      /\ b \in Int /\ 0 <= b /\ b <= 255
      BY DEF Byte
<1>2. n \in Int /\ 0 <= n /\ n <= 255 * 256 + 255  BY <1>1
<1>3. n \in U16s
  <2>1. n <= Radix - 1  BY <1>2, RadixFacts, Zenon
  <2>2. Radix \in Int  BY RadixFacts, Zenon
  <2>. QED BY <1>2, <2>1, <2>2 DEF U16s
<1>4. q \in Int /\ e \in Int /\ 0 <= e /\ e <= 255 /\ n = q * 256 + e  BY <1>2
<1>5. U16(n) = <<q, e>>  BY DEF U16
<1>. HIDE DEF q, e
<1>6. q = a /\ e = b  BY <1>1, <1>4
<1>. QED BY <1>3, <1>5, <1>6, Zenon

(* One byte or two.                                                        *)
LEMMA ShortSequences ==
    ASSUME NEW s \in Seq(Byte)
    PROVE  /\ Len(s) = 1 => s[1] \in Byte /\ s = <<s[1]>>
           /\ Len(s) = 2 => s[1] \in Byte /\ s[2] \in Byte /\ s = <<s[1], s[2]>>
<1>1. ASSUME Len(s) = 1 PROVE s[1] \in Byte /\ s = <<s[1]>>
  <2>1. s[1] \in Byte  BY <1>1, ElementOfSeq
  <2>. DEFINE t == <<s[1]>>
  <2>2. t \in Seq(Byte) /\ Len(t) = 1 /\ \A i \in 1..1 : t[i] = s[i]  BY <2>1
  <2>. HIDE DEF t
  <2>3. s = t  BY <1>1, <2>2, SeqEqual
  <2>. QED BY <2>1, <2>3 DEF t
<1>2. ASSUME Len(s) = 2 PROVE s[1] \in Byte /\ s[2] \in Byte /\ s = <<s[1], s[2]>>
  <2>1. s[1] \in Byte /\ s[2] \in Byte
    <3>1. 1 \in 1..Len(s) /\ 2 \in 1..Len(s)  BY <1>2
    <3>. QED BY <3>1, ElementOfSeq
  <2>. DEFINE t == <<s[1], s[2]>>
  <2>2. t \in Seq(Byte) /\ Len(t) = 2 /\ \A i \in 1..2 : t[i] = s[i]  BY <2>1
  <2>. HIDE DEF t
  <2>3. s = t  BY <1>2, <2>2, SeqEqual
  <2>. QED BY <2>1, <2>3 DEF t
<1>. QED BY <1>1, <1>2

(* A byte that is written is read back.                                    *)
LEMMA ReadByteBack ==
    \A b \in Byte, t \in Seq(Byte) : ReadUnsigned(<<b>> \o t, 1) = ReadAs(b, t)
<1>. SUFFICES ASSUME NEW b \in Byte, NEW t \in Seq(Byte)
              PROVE  ReadUnsigned(<<b>> \o t, 1) = ReadAs(b, t)
     BY Zenon
<1>1. <<b>> \in Seq(Byte) /\ Len(<<b>>) = 1  OBVIOUS
<1>2. ReadExact(<<b>> \o t, 1) = ReadAs(<<b>>, t)  BY <1>1, ExactBack
<1>3. /\ ReadAs(<<b>>, t).ok /\ ReadAs(<<b>>, t).value = <<b>> /\ ReadAs(<<b>>, t).rest = t
      BY DEF ReadAs
<1>4. Unsigned(<<b>>) = b  BY UnsignedValues, Zenon
<1>5. PICK r : r = <<b>> \o t  OBVIOUS
<1>6. PICK x : x = ReadExact(r, 1)  OBVIOUS
<1>7. x.ok /\ x.value = <<b>> /\ x.rest = t  BY <1>2, <1>3, <1>5, <1>6
<1>8. ReadUnsigned(r, 1) = ReadAs(Unsigned(x.value), x.rest)  BY <1>6, <1>7, Zenon DEF ReadUnsigned
<1>. QED BY <1>4, <1>5, <1>7, <1>8

(* A u16 that is written is read back.                                     *)
LEMMA ReadU16Back ==
    \A n \in U16s, t \in Seq(Byte) : ReadUnsigned(U16(n) \o t, 2) = ReadAs(n, t)
<1>. SUFFICES ASSUME NEW n \in U16s, NEW t \in Seq(Byte)
              PROVE  ReadUnsigned(U16(n) \o t, 2) = ReadAs(n, t)
     OBVIOUS
<1>0. PICK a, b \in Byte : U16(n) = <<a, b>> /\ n = a * 256 + b  BY WrittenU16
<1>. DEFINE s == <<a, b>>
<1>1. s \in Seq(Byte) /\ Len(s) = 2  OBVIOUS
<1>2. Unsigned(s) = n  BY <1>0, UnsignedValues, Zenon
<1>. HIDE DEF s
<1>3. ReadExact(s \o t, 2) = ReadAs(s, t)  BY <1>1, ExactBack
<1>4. ReadAs(s, t).ok /\ ReadAs(s, t).value = s /\ ReadAs(s, t).rest = t  BY DEF ReadAs
<1>5. ReadUnsigned(s \o t, 2) = ReadAs(n, t)  BY <1>2, <1>3, <1>4, Zenon DEF ReadUnsigned
<1>. QED BY <1>0, <1>5, Zenon DEF s

(* A byte that is read is the first of what is there.                      *)
LEMMA ReadByteForm ==
    \A r \in Seq(Byte) :
        \/ ReadUnsigned(r, 1) = Truncated
        \/ \E b \in Byte, t \in Seq(Byte) : r = <<b>> \o t /\ ReadUnsigned(r, 1) = ReadAs(b, t)
<1>. SUFFICES ASSUME NEW r \in Seq(Byte), ReadUnsigned(r, 1) # Truncated
              PROVE  \E b \in Byte, t \in Seq(Byte) : r = <<b>> \o t /\ ReadUnsigned(r, 1) = ReadAs(b, t)
     OBVIOUS
<1>1. ReadExact(r, 1) # Truncated  BY DEF ReadUnsigned, Truncated
<1>2. 1 \in Nat  OBVIOUS
<1>3. PICK s, t \in Seq(Byte) : Len(s) = 1 /\ r = s \o t /\ ReadExact(r, 1) = ReadAs(s, t)
      BY <1>1, <1>2, ExactForm, Zenon
<1>4. s[1] \in Byte /\ s = <<s[1]>>  BY <1>3, ShortSequences
<1>5. ReadUnsigned(<<s[1]>> \o t, 1) = ReadAs(s[1], t)  BY <1>4, ReadByteBack
<1>. QED BY <1>3, <1>4, <1>5, Zenon

(* A u16 that is read is written as the first two bytes.                   *)
LEMMA ReadU16Form ==
    \A r \in Seq(Byte) :
        \/ ReadUnsigned(r, 2) = Truncated
        \/ \E n \in U16s, t \in Seq(Byte) : r = U16(n) \o t /\ ReadUnsigned(r, 2) = ReadAs(n, t)
<1>. SUFFICES ASSUME NEW r \in Seq(Byte), ReadUnsigned(r, 2) # Truncated
              PROVE  \E n \in U16s, t \in Seq(Byte) : r = U16(n) \o t /\ ReadUnsigned(r, 2) = ReadAs(n, t)
     OBVIOUS
<1>1. ReadExact(r, 2) # Truncated  BY DEF ReadUnsigned, Truncated
<1>2. 2 \in Nat  OBVIOUS
<1>3. PICK s, t \in Seq(Byte) : Len(s) = 2 /\ r = s \o t /\ ReadExact(r, 2) = ReadAs(s, t)
      BY <1>1, <1>2, ExactForm, Zenon
<1>4. s[1] \in Byte /\ s[2] \in Byte /\ s = <<s[1], s[2]>>  BY <1>3, ShortSequences
<1>. DEFINE n == s[1] * 256 + s[2]
<1>. HIDE DEF n
<1>5. n \in U16s /\ U16(n) = <<s[1], s[2]>>  BY <1>4, TwoBytesAreU16 DEF n
<1>6. U16(n) = s  BY <1>4, <1>5, Zenon
<1>7. ReadUnsigned(U16(n) \o t, 2) = ReadAs(n, t)  BY <1>5, ReadU16Back
<1>. QED BY <1>3, <1>5, <1>6, <1>7, Zenon

------------------------------------------------------------------------------
(* The kinds of a field.                                                   *)

ByteKinds == {"u8", "zero8", "not1", "literal0", "literal1", "literal2"}
Kinds     == ByteKinds \cup {"u16", "u32", "s8", "string16", "seed", "blob32"}

(* The values that are written, and what it is for a kind to be read back: *)
(* a value is read from what was written of it, and what a read accepts is *)
(* what is written of the value it returns.                                *)
Accepted(kind) == {v \in Values(kind) : Writable(kind, v)}

Back(kind) ==
    \A v \in Accepted(kind), t \in Seq(Byte) :
        /\ FieldWritten(kind, v) \in Seq(Byte)
        /\ ReadValue(FieldWritten(kind, v) \o t, kind) = ReadAs(v, t)

Form(kind) ==
    \A r \in Seq(Byte) :
        \/ ReadValue(r, kind) = Truncated
        \/ \E v \in Accepted(kind), t \in Seq(Byte) :
              r = FieldWritten(kind, v) \o t /\ ReadValue(r, kind) = ReadAs(v, t)

(* The parts of what a read returns.                                       *)
LEMMA ReadParts ==
    /\ \A v, t : ReadAs(v, t).ok /\ ReadAs(v, t).value = v /\ ReadAs(v, t).rest = t
    /\ ~Truncated.ok /\ Truncated.value = <<>> /\ Truncated.rest = <<>>
    /\ \A v, t : ReadAs(v, t) # Truncated
BY DEF ReadAs, Truncated

(* The kinds of one byte: their ranges are bytes and values of the kind.   *)
LEMMA ByteKindFacts ==
    \A kind \in ByteKinds :
        /\ kind \in DOMAIN ByteRange
        /\ ByteRange[kind] \subseteq Byte
        /\ ByteRange[kind] \subseteq Values(kind)
<1>1. DOMAIN ByteRange = ByteKinds  BY DEF ByteRange, ByteKinds
<1>2. /\ ByteRange["u8"] = 0..255 /\ ByteRange["zero8"] = {0}
      /\ ByteRange["not1"] = (0..255) \ {1} /\ ByteRange["literal0"] = {0}
      /\ ByteRange["literal1"] = {1} /\ ByteRange["literal2"] = {2}
      BY DEF ByteRange
<1>3. \A kind \in ByteKinds : ByteRange[kind] \subseteq Byte  BY <1>2 DEF ByteKinds, Byte
<1>4. \A kind \in {"literal0", "literal1", "literal2"} : Values(kind) = ByteRange[kind]
      BY Zenon DEF Values
<1>5. \A kind \in {"u8", "zero8", "not1"} : Values(kind) = Int
      BY DEF Values
<1>6. Byte \subseteq Int  BY DEF Byte
<1>. QED BY <1>1, <1>3, <1>4, <1>5, <1>6 DEF ByteKinds

(* They are checked, written and read alike.                               *)
LEMMA ByteKindEquations ==
    \A kind \in ByteKinds :
        /\ \A v : Writable(kind, v) <=> v \in ByteRange[kind]
        /\ \A v : FieldWritten(kind, v) = <<v>>
        /\ \A r : ReadValue(r, kind) = ReadByteIn(r, ByteRange[kind])
<1>1. \A kind \in ByteKinds : kind \in DOMAIN ByteRange  BY ByteKindFacts, Zenon
<1>2. \A kind \in ByteKinds : kind \notin {"u16", "u32", "s8", "string16", "seed", "blob32"}
      BY DEF ByteKinds
<1>3. ASSUME NEW kind \in ByteKinds, NEW v PROVE Writable(kind, v) <=> v \in ByteRange[kind]
      BY <1>1, <1>2 DEF Writable
<1>4. ASSUME NEW kind \in ByteKinds, NEW v PROVE FieldWritten(kind, v) = <<v>>
      BY <1>1, <1>2 DEF FieldWritten
<1>5. ASSUME NEW kind \in ByteKinds, NEW r PROVE ReadValue(r, kind) = ReadByteIn(r, ByteRange[kind])
      BY <1>1, <1>2 DEF ReadValue
<1>. QED BY <1>3, <1>4, <1>5

(* No other kind is among them.                                            *)
LEMMA OtherKinds ==
    \A kind \in DOMAIN ByteRange : kind \notin {"u16", "u32", "s8", "string16", "seed", "blob32"}
BY DEF ByteRange

(* The other kinds, one by one: their values,                              *)
LEMMA KindValues ==
    /\ Values("u16") = Int /\ Values("s8") = Int /\ Values("u32") = Int \X Int
    /\ Values("string16") = {text \in Seq(Byte) : IsUtf8(text)}
    /\ Values("seed") = Seq(Byte)
    /\ Values("blob32") = {blob \in Seq(Byte) : Len(blob) \div Radix < HighLimit}
BY DEF Values, Byte

(* the ranges their writers accept,                                        *)
LEMMA KindRanges ==
    \A v : /\ Writable("u16", v) <=> v \in U16s
           /\ Writable("u32", v) <=> v \in U16s \X U16s
           /\ Writable("s8", v) <=> v \in -128..127
           /\ Writable("string16", v) <=> Len(v) \in U16s
           /\ Writable("seed", v) <=> Len(v) \in 1..127
           /\ Writable("blob32", v)
BY OtherKinds DEF Writable

(* what is written of them,                                                *)
LEMMA KindWritten ==
    \A v : /\ FieldWritten("u16", v) = U16(v)
           /\ FieldWritten("u32", v) = U16(v[1]) \o U16(v[2])
           /\ FieldWritten("s8", v) = <<v % 256>>
           /\ FieldWritten("string16", v) = String16(v)
           /\ FieldWritten("seed", v) = <<Len(v)>> \o v
           /\ FieldWritten("blob32", v) = Blob32(v)
BY OtherKinds DEF FieldWritten

(* and how they are read.                                                  *)
LEMMA KindRead ==
    \A r : /\ ReadValue(r, "u16") = ReadUnsigned(r, 2)
           /\ ReadValue(r, "u32") = ReadU32(r)
           /\ ReadValue(r, "s8") = ReadS8(r)
           /\ ReadValue(r, "string16") = ReadString16(r)
           /\ ReadValue(r, "seed") = ReadCounted(ReadByteIn(r, 1..127))
           /\ ReadValue(r, "blob32") = ReadCounted(ReadLength(r))
BY OtherKinds DEF ReadValue

------------------------------------------------------------------------------
(* What each reader makes of what the reads before it return.              *)

LEMMA ByteInReads ==
    ASSUME NEW r, NEW S
    PROVE  /\ \A b, t : ReadUnsigned(r, 1) = ReadAs(b, t) =>
                           ReadByteIn(r, S) = IF b \in S THEN ReadAs(b, t) ELSE Truncated
           /\ ReadUnsigned(r, 1) = Truncated => ReadByteIn(r, S) = Truncated
<1>1. ASSUME NEW b, NEW t, ReadUnsigned(r, 1) = ReadAs(b, t)
      PROVE  ReadByteIn(r, S) = IF b \in S THEN ReadAs(b, t) ELSE Truncated
  <2>1. ReadAs(b, t).ok = TRUE /\ ReadAs(b, t).value = b  BY DEF ReadAs
  <2>. QED BY <1>1, <2>1 DEF ReadByteIn
<1>2. ASSUME ReadUnsigned(r, 1) = Truncated PROVE ReadByteIn(r, S) = Truncated
  <2>1. Truncated.ok = FALSE  BY DEF Truncated
  <2>. QED BY <1>2, <2>1 DEF ReadByteIn
<1>. QED BY <1>1, <1>2

(* A u32 is two u16s, and an error in either is one.                       *)
LEMMA U32Reads ==
    ASSUME NEW r
    PROVE  /\ \A h, u, l, t : ReadUnsigned(r, 2) = ReadAs(h, u) /\ ReadUnsigned(u, 2) = ReadAs(l, t)
                              => ReadU32(r) = ReadAs(<<h, l>>, t)
           /\ \A h, u : ReadUnsigned(r, 2) = ReadAs(h, u) /\ ReadUnsigned(u, 2) = Truncated
                        => ReadU32(r) = Truncated
           /\ ReadUnsigned(r, 2) = Truncated => ReadU32(r) = Truncated
<1>1. /\ Truncated.ok = FALSE
      /\ \A v, t : ReadAs(v, t).ok = TRUE /\ ReadAs(v, t).value = v /\ ReadAs(v, t).rest = t
      BY DEF ReadAs, Truncated
<1>2. ASSUME NEW h, NEW u, NEW l, NEW t,
             ReadUnsigned(r, 2) = ReadAs(h, u), ReadUnsigned(u, 2) = ReadAs(l, t)
      PROVE  ReadU32(r) = ReadAs(<<h, l>>, t)
      BY <1>1, <1>2 DEF ReadU32
<1>3. ASSUME NEW h, NEW u, ReadUnsigned(r, 2) = ReadAs(h, u), ReadUnsigned(u, 2) = Truncated
      PROVE  ReadU32(r) = Truncated
      BY <1>1, <1>3 DEF ReadU32
<1>4. ASSUME ReadUnsigned(r, 2) = Truncated PROVE ReadU32(r) = Truncated
      BY <1>1, <1>4 DEF ReadU32
<1>. QED BY <1>2, <1>3, <1>4

(* A signed byte is a byte below 128 or 256 less.                          *)
LEMMA S8Reads ==
    ASSUME NEW r
    PROVE  /\ \A b, t : ReadUnsigned(r, 1) = ReadAs(b, t)
                        => ReadS8(r) = ReadAs(IF b < 128 THEN b ELSE b - 256, t)
           /\ ReadUnsigned(r, 1) = Truncated => ReadS8(r) = Truncated
<1>1. /\ Truncated.ok = FALSE
      /\ \A v, t : ReadAs(v, t).ok = TRUE /\ ReadAs(v, t).value = v /\ ReadAs(v, t).rest = t
      BY DEF ReadAs, Truncated
<1>2. ASSUME NEW b, NEW t, ReadUnsigned(r, 1) = ReadAs(b, t)
      PROVE  ReadS8(r) = ReadAs(IF b < 128 THEN b ELSE b - 256, t)
      BY <1>1, <1>2 DEF ReadS8
<1>3. ASSUME ReadUnsigned(r, 1) = Truncated PROVE ReadS8(r) = Truncated
      BY <1>1, <1>3 DEF ReadS8
<1>. QED BY <1>2, <1>3

(* A number says how many bytes follow.                                    *)
LEMMA CountedReads ==
    /\ \A n, u : ReadCounted(ReadAs(n, u)) = ReadExact(u, n)
    /\ ReadCounted(Truncated) = Truncated
<1>1. /\ Truncated.ok = FALSE
      /\ \A v, t : ReadAs(v, t).ok = TRUE /\ ReadAs(v, t).value = v /\ ReadAs(v, t).rest = t
      BY DEF ReadAs, Truncated
<1>. QED BY <1>1 DEF ReadCounted

(* A string is its bytes, if these are UTF-8.                              *)
LEMMA String16Reads ==
    ASSUME NEW r
    PROVE  /\ \A s, t : ReadCounted(ReadUnsigned(r, 2)) = ReadAs(s, t)
                        => ReadString16(r) = IF IsUtf8(s) THEN ReadAs(s, t) ELSE Truncated
           /\ ReadCounted(ReadUnsigned(r, 2)) = Truncated => ReadString16(r) = Truncated
<1>1. /\ Truncated.ok = FALSE
      /\ \A v, t : ReadAs(v, t).ok = TRUE /\ ReadAs(v, t).value = v /\ ReadAs(v, t).rest = t
      BY DEF ReadAs, Truncated
<1>2. ASSUME NEW s, NEW t, ReadCounted(ReadUnsigned(r, 2)) = ReadAs(s, t)
      PROVE  ReadString16(r) = IF IsUtf8(s) THEN ReadAs(s, t) ELSE Truncated
  <2>. DEFINE text == ReadCounted(ReadUnsigned(r, 2))
  <2>1. ReadString16(r) = IF text.ok /\ IsUtf8(text.value) THEN text ELSE Truncated
        BY Zenon DEF ReadString16
  <2>2. text = ReadAs(s, t)  BY <1>2
  <2>. HIDE DEF text
  <2>. QED BY <1>1, <2>1, <2>2
<1>3. ASSUME ReadCounted(ReadUnsigned(r, 2)) = Truncated PROVE ReadString16(r) = Truncated
      BY <1>1, <1>3 DEF ReadString16
<1>. QED BY <1>2, <1>3

(* A length is a u32 whose upper half is small.                            *)
LEMMA LengthReads ==
    ASSUME NEW r
    PROVE  /\ \A h, l, t : ReadU32(r) = ReadAs(<<h, l>>, t) =>
                 ReadLength(r) = IF h < HighLimit THEN ReadAs(h * Radix + l, t) ELSE Truncated
           /\ ReadU32(r) = Truncated => ReadLength(r) = Truncated
<1>1. /\ Truncated.ok = FALSE
      /\ \A v, t : ReadAs(v, t).ok = TRUE /\ ReadAs(v, t).value = v /\ ReadAs(v, t).rest = t
      BY DEF ReadAs, Truncated
<1>2. ASSUME NEW h, NEW l, NEW t, ReadU32(r) = ReadAs(<<h, l>>, t)
      PROVE  ReadLength(r) = IF h < HighLimit THEN ReadAs(h * Radix + l, t) ELSE Truncated
  <2>1. <<h, l>>[1] = h /\ <<h, l>>[2] = l  OBVIOUS
  <2>. DEFINE size == ReadU32(r)
  <2>2. ReadLength(r) = IF size.ok /\ size.value[1] < HighLimit
                        THEN ReadAs(size.value[1] * Radix + size.value[2], size.rest) ELSE Truncated
        BY Zenon DEF ReadLength
  <2>3. size.ok = TRUE /\ size.value = <<h, l>> /\ size.rest = t  BY <1>1, <1>2
  <2>. HIDE DEF size
  <2>4. size.value[1] = h /\ size.value[2] = l  BY <2>1, <2>3
  <2>5. ReadLength(r) = IF h < HighLimit THEN ReadAs(h * Radix + l, size.rest) ELSE Truncated
        BY <2>2, <2>3, <2>4
  <2>. QED BY <2>3, <2>5
<1>3. ASSUME ReadU32(r) = Truncated PROVE ReadLength(r) = Truncated
      BY <1>1, <1>3 DEF ReadLength
<1>. QED BY <1>2, <1>3

------------------------------------------------------------------------------
(* A byte in a range, as it is written and as it is read.                  *)
LEMMA ReadByteInBack ==
    ASSUME NEW S, NEW b \in Byte, b \in S, NEW t \in Seq(Byte)
    PROVE  ReadByteIn(<<b>> \o t, S) = ReadAs(b, t)
BY ReadByteBack, ByteInReads

(* A byte that is read and checked is in the range, in front.              *)
LEMMA ReadByteInForm ==
    ASSUME NEW S, NEW r \in Seq(Byte), ReadByteIn(r, S) # Truncated
    PROVE  \E b \in Byte, t \in Seq(Byte) :
              b \in S /\ r = <<b>> \o t /\ ReadByteIn(r, S) = ReadAs(b, t)
<1>1. ReadUnsigned(r, 1) # Truncated  BY ByteInReads
<1>2. PICK b \in Byte, t \in Seq(Byte) : r = <<b>> \o t /\ ReadUnsigned(r, 1) = ReadAs(b, t)
      BY <1>1, ReadByteForm, Zenon
<1>. QED BY <1>2, ByteInReads

(* The kinds of one byte are read back.                                    *)
LEMMA ByteKindsBothWays == \A kind \in ByteKinds : Back(kind) /\ Form(kind)
<1>. SUFFICES ASSUME NEW kind \in ByteKinds PROVE Back(kind) /\ Form(kind)
     OBVIOUS
<1>. DEFINE S == ByteRange[kind]
<1>1. S \subseteq Byte /\ S \subseteq Values(kind)  BY ByteKindFacts, Zenon
<1>2. /\ \A v : Writable(kind, v) <=> v \in S
      /\ \A v : FieldWritten(kind, v) = <<v>>
      /\ \A r : ReadValue(r, kind) = ReadByteIn(r, S)
      BY ByteKindEquations, Zenon
<1>. HIDE DEF S
<1>3. \A v : v \in Accepted(kind) <=> v \in S  BY <1>1, <1>2, Zenon DEF Accepted
<1>4. ASSUME NEW v \in Accepted(kind), NEW t \in Seq(Byte)
      PROVE  /\ FieldWritten(kind, v) \in Seq(Byte)
             /\ ReadValue(FieldWritten(kind, v) \o t, kind) = ReadAs(v, t)
  <2>1. v \in S /\ v \in Byte  BY <1>1, <1>3, Zenon
  <2>2. <<v>> \in Seq(Byte)  BY <2>1
  <2>3. ReadByteIn(<<v>> \o t, S) = ReadAs(v, t)  BY <2>1, ReadByteInBack, Zenon
  <2>. QED BY <1>2, <2>2, <2>3, Zenon
<1>5. ASSUME NEW r \in Seq(Byte), ReadValue(r, kind) # Truncated
      PROVE  \E v \in Accepted(kind), t \in Seq(Byte) :
                r = FieldWritten(kind, v) \o t /\ ReadValue(r, kind) = ReadAs(v, t)
  <2>1. PICK b \in Byte, t \in Seq(Byte) :
            b \in S /\ r = <<b>> \o t /\ ReadByteIn(r, S) = ReadAs(b, t)
        BY <1>2, <1>5, ReadByteInForm, Zenon
  <2>. QED BY <1>2, <1>3, <2>1, Zenon
<1>6. Back(kind)  BY <1>4, Zenon DEF Back
<1>7. Form(kind)  BY <1>5, Zenon DEF Form
<1>. QED BY <1>6, <1>7

(* A u16 is written as two bytes.                                          *)
LEMMA WrittenU16Type == \A v \in U16s : U16(v) \in Seq(Byte) /\ Len(U16(v)) = 2
<1>1. \A a, b \in Byte : <<a, b>> \in Seq(Byte) /\ Len(<<a, b>>) = 2  OBVIOUS
<1>2. SUFFICES ASSUME NEW v \in U16s PROVE U16(v) \in Seq(Byte) /\ Len(U16(v)) = 2
      BY Zenon
<1>3. PICK a, b \in Byte : U16(v) = <<a, b>>  BY WrittenU16
<1>. QED BY <1>1, <1>3, Zenon

(* A u16 is read back.                                                     *)
LEMMA U16BothWays == Back("u16") /\ Form("u16")
<1>1. \A v : v \in Accepted("u16") <=> v \in U16s
  <2>1. U16s \subseteq Int  BY RadixFacts DEF U16s
  <2>. QED BY <2>1, KindValues, KindRanges, Zenon DEF Accepted
<1>2. ASSUME NEW v \in Accepted("u16"), NEW t \in Seq(Byte)
      PROVE  /\ FieldWritten("u16", v) \in Seq(Byte)
             /\ ReadValue(FieldWritten("u16", v) \o t, "u16") = ReadAs(v, t)
  <2>1. v \in U16s /\ FieldWritten("u16", v) = U16(v)  BY <1>1, KindWritten, Zenon
  <2>2. U16(v) \in Seq(Byte) /\ ReadUnsigned(U16(v) \o t, 2) = ReadAs(v, t)
        BY <2>1, WrittenU16Type, ReadU16Back, Zenon
  <2>. QED BY <2>1, <2>2, KindRead, Zenon
<1>3. Back("u16")  BY <1>2, Zenon DEF Back
<1>4. Form("u16")
  <2>. SUFFICES ASSUME NEW r \in Seq(Byte), ReadValue(r, "u16") # Truncated
                PROVE  \E v \in Accepted("u16"), t \in Seq(Byte) :
                          r = FieldWritten("u16", v) \o t /\ ReadValue(r, "u16") = ReadAs(v, t)
       BY Zenon DEF Form
  <2>1. ReadUnsigned(r, 2) # Truncated  BY KindRead, Zenon
  <2>2. PICK n \in U16s, t \in Seq(Byte) : r = U16(n) \o t /\ ReadUnsigned(r, 2) = ReadAs(n, t)
        BY <2>1, ReadU16Form, Zenon
  <2>. QED BY <1>1, <2>2, KindWritten, KindRead, Zenon
<1>. QED BY <1>3, <1>4

(* Bytes may be joined in any order of the joins.                          *)
LEMMA BytesAssociative == \A s, t, u \in Seq(Byte) : (s \o t) \o u = s \o (t \o u)
BY ConcatAssociative

(* A u32 is two u16s.                                                      *)
LEMMA ReadU32Back ==
    ASSUME NEW h \in U16s, NEW l \in U16s, NEW t \in Seq(Byte)
    PROVE  /\ U16(h) \o U16(l) \in Seq(Byte)
           /\ ReadU32((U16(h) \o U16(l)) \o t) = ReadAs(<<h, l>>, t)
<1>. DEFINE a == U16(h)
            b == U16(l)
            u == b \o t
<1>1. a \in Seq(Byte) /\ b \in Seq(Byte)  BY WrittenU16Type
<1>. HIDE DEF a, b
<1>2. u \in Seq(Byte) /\ a \o b \in Seq(Byte)  BY <1>1, BytesConcatenation
<1>3. (a \o b) \o t = a \o u  BY <1>1, ConcatAssociative
<1>. HIDE DEF u
<1>4. ReadUnsigned(a \o u, 2) = ReadAs(h, u)  BY <1>2, ReadU16Back, Zenon DEF a
<1>5. ReadUnsigned(u, 2) = ReadAs(l, t)  BY ReadU16Back, Zenon DEF u, b
<1>6. ReadU32(a \o u) = ReadAs(<<h, l>>, t)  BY <1>4, <1>5, U32Reads
<1>. QED BY <1>2, <1>3, <1>6, Zenon DEF a, b

(* A u32 that is read is written as the first four bytes.                  *)
LEMMA ReadU32Form ==
    ASSUME NEW r \in Seq(Byte), ReadU32(r) # Truncated
    PROVE  \E h, l \in U16s, t \in Seq(Byte) :
              r = (U16(h) \o U16(l)) \o t /\ ReadU32(r) = ReadAs(<<h, l>>, t)
<1>1. ReadUnsigned(r, 2) # Truncated  BY U32Reads
<1>2. PICK h \in U16s, u \in Seq(Byte) : r = U16(h) \o u /\ ReadUnsigned(r, 2) = ReadAs(h, u)
      BY <1>1, ReadU16Form, Zenon
<1>3. ReadUnsigned(u, 2) # Truncated  BY <1>2, U32Reads
<1>4. PICK l \in U16s, t \in Seq(Byte) : u = U16(l) \o t /\ ReadUnsigned(u, 2) = ReadAs(l, t)
      BY <1>3, ReadU16Form, Zenon
<1>5. ReadU32(r) = ReadAs(<<h, l>>, t)  BY <1>2, <1>4, U32Reads
<1>6. U16(h) \in Seq(Byte) /\ U16(l) \in Seq(Byte)  BY WrittenU16Type
<1>7. (U16(h) \o U16(l)) \o t = U16(h) \o (U16(l) \o t)  BY <1>6, BytesAssociative, Zenon
<1>. QED BY <1>2, <1>4, <1>5, <1>7, Zenon

(* A u32 is read back.                                                     *)
LEMMA U32BothWays == Back("u32") /\ Form("u32")
<1>1. \A v : v \in Accepted("u32") <=> v \in U16s \X U16s
  <2>1. U16s \X U16s \subseteq Int \X Int
    <3>1. U16s \subseteq Int  BY RadixFacts DEF U16s
    <3>. QED BY <3>1
  <2>. QED BY <2>1, KindValues, KindRanges, Zenon DEF Accepted
<1>2. ASSUME NEW v \in Accepted("u32"), NEW t \in Seq(Byte)
      PROVE  /\ FieldWritten("u32", v) \in Seq(Byte)
             /\ ReadValue(FieldWritten("u32", v) \o t, "u32") = ReadAs(v, t)
  <2>1. v[1] \in U16s /\ v[2] \in U16s /\ v = <<v[1], v[2]>>
    <3>1. v \in U16s \X U16s  BY <1>1
    <3>. QED BY <3>1
  <2>2. U16(v[1]) \o U16(v[2]) \in Seq(Byte)
        /\ ReadU32((U16(v[1]) \o U16(v[2])) \o t) = ReadAs(<<v[1], v[2]>>, t)
        BY <2>1, ReadU32Back, Zenon
  <2>. QED BY <2>1, <2>2, KindWritten, KindRead, Zenon
<1>3. ASSUME NEW r \in Seq(Byte), ReadValue(r, "u32") # Truncated
      PROVE  \E v \in Accepted("u32"), t \in Seq(Byte) :
                r = FieldWritten("u32", v) \o t /\ ReadValue(r, "u32") = ReadAs(v, t)
  <2>1. ReadU32(r) # Truncated  BY <1>3, KindRead, Zenon
  <2>2. PICK h, l \in U16s, t \in Seq(Byte) :
            r = (U16(h) \o U16(l)) \o t /\ ReadU32(r) = ReadAs(<<h, l>>, t)
        BY <2>1, ReadU32Form, Zenon
  <2>3. <<h, l>> \in Accepted("u32")  BY <1>1
  <2>4. FieldWritten("u32", <<h, l>>) = U16(h) \o U16(l)
    <3>1. <<h, l>>[1] = h /\ <<h, l>>[2] = l  OBVIOUS
    <3>. QED BY <3>1, KindWritten, Zenon
  <2>5. r = FieldWritten("u32", <<h, l>>) \o t /\ ReadValue(r, "u32") = ReadAs(<<h, l>>, t)
        BY <2>2, <2>4, KindRead, Zenon
  <2>. QED BY <2>3, <2>5, Zenon
<1>4. Back("u32")  BY <1>2, Zenon DEF Back
<1>5. Form("u32")  BY <1>3, Zenon DEF Form
<1>. QED BY <1>4, <1>5

(* A signed byte is read back.                                             *)
LEMMA S8BothWays == Back("s8") /\ Form("s8")
<1>1. \A v : v \in Accepted("s8") <=> v \in -128..127
  <2>1. -128..127 \subseteq Int  OBVIOUS
  <2>. QED BY <2>1, KindValues, KindRanges, Zenon DEF Accepted
<1>2. ASSUME NEW v \in -128..127
      PROVE  v % 256 \in Byte /\ (IF v % 256 < 128 THEN v % 256 ELSE (v % 256) - 256) = v
  <2>1. CASE v >= 0
    <3>1. v % 256 = v  BY <2>1
    <3>. QED BY <2>1, <3>1 DEF Byte
  <2>2. CASE v < 0
    <3>1. v % 256 = v + 256  BY <2>2
    <3>. QED BY <2>2, <3>1 DEF Byte
  <2>. QED BY <2>1, <2>2
<1>3. ASSUME NEW b \in Byte, NEW v, v = IF b < 128 THEN b ELSE b - 256
      PROVE  v \in -128..127 /\ v % 256 = b
  <2>1. CASE b < 128
    <3>1. v = b /\ b \in Int /\ 0 <= b  BY <1>3, <2>1 DEF Byte
    <3>2. b % 256 = b  BY <2>1, <3>1
    <3>. QED BY <2>1, <3>1, <3>2
  <2>2. CASE ~(b < 128)
    <3>1. v = b - 256 /\ b \in Int /\ b <= 255 /\ 128 <= b  BY <1>3, <2>2 DEF Byte
    <3>2. v \in Int /\ v % 256 = b  BY <3>1
    <3>. QED BY <3>1, <3>2
  <2>. QED BY <2>1, <2>2
<1>4. ASSUME NEW v \in Accepted("s8"), NEW t \in Seq(Byte)
      PROVE  /\ FieldWritten("s8", v) \in Seq(Byte)
             /\ ReadValue(FieldWritten("s8", v) \o t, "s8") = ReadAs(v, t)
  <2>. DEFINE b == v % 256
  <2>1. b \in Byte /\ (IF b < 128 THEN b ELSE b - 256) = v  BY <1>1, <1>2, Zenon
  <2>2. FieldWritten("s8", v) = <<b>>  BY KindWritten, Zenon
  <2>. HIDE DEF b
  <2>3. ReadUnsigned(<<b>> \o t, 1) = ReadAs(b, t)  BY <2>1, ReadByteBack, Zenon
  <2>4. ReadS8(<<b>> \o t) = ReadAs(v, t)
    <3>1. ReadS8(<<b>> \o t) = ReadAs(IF b < 128 THEN b ELSE b - 256, t)  BY <2>3, S8Reads
    <3>. QED BY <2>1, <3>1, Zenon
  <2>5. <<b>> \in Seq(Byte)  BY <2>1
  <2>. QED BY <2>2, <2>4, <2>5, KindRead, Zenon
<1>5. ASSUME NEW r \in Seq(Byte), ReadValue(r, "s8") # Truncated
      PROVE  \E v \in Accepted("s8"), t \in Seq(Byte) :
                r = FieldWritten("s8", v) \o t /\ ReadValue(r, "s8") = ReadAs(v, t)
  <2>1. ReadS8(r) # Truncated  BY <1>5, KindRead, Zenon
  <2>2. ReadUnsigned(r, 1) # Truncated  BY <2>1, S8Reads
  <2>3. PICK b \in Byte, t \in Seq(Byte) : r = <<b>> \o t /\ ReadUnsigned(r, 1) = ReadAs(b, t)
        BY <2>2, ReadByteForm, Zenon
  <2>9. PICK v : v = IF b < 128 THEN b ELSE b - 256  OBVIOUS
  <2>4. ReadS8(r) = ReadAs(v, t)  BY <2>3, <2>9, S8Reads
  <2>5. v \in -128..127 /\ v % 256 = b  BY <1>3, <2>9, Zenon
  <2>6. v \in Accepted("s8") /\ FieldWritten("s8", v) = <<b>>  BY <1>1, <2>5, KindWritten, Zenon
  <2>7. r = FieldWritten("s8", v) \o t /\ ReadValue(r, "s8") = ReadAs(v, t)
        BY <2>3, <2>4, <2>6, KindRead, Zenon
  <2>. QED BY <2>6, <2>7, Zenon
<1>6. Back("s8")  BY <1>4, Zenon DEF Back
<1>7. Form("s8")  BY <1>5, Zenon DEF Form
<1>. QED BY <1>6, <1>7

(* As many bytes as a length says.                                         *)
LEMMA CountedForm ==
    ASSUME NEW u \in Seq(Byte), NEW n \in Nat, ReadCounted(ReadAs(n, u)) # Truncated
    PROVE  \E s, t \in Seq(Byte) :
              Len(s) = n /\ u = s \o t /\ ReadCounted(ReadAs(n, u)) = ReadAs(s, t)
<1>1. ReadCounted(ReadAs(n, u)) = ReadExact(u, n)  BY CountedReads, Zenon
<1>2. ReadExact(u, n) # Truncated  BY <1>1
<1>3. PICK s, t \in Seq(Byte) : Len(s) = n /\ u = s \o t /\ ReadExact(u, n) = ReadAs(s, t)
      BY <1>2, ExactForm, Zenon
<1>. QED BY <1>1, <1>3, Zenon

(* Counted bytes are read back.                                            *)
LEMMA CountedBack ==
    ASSUME NEW s \in Seq(Byte), NEW t \in Seq(Byte)
    PROVE  ReadCounted(ReadAs(Len(s), s \o t)) = ReadAs(s, t)
BY CountedReads, ExactBack, Zenon

(* What is written as its length and itself, and read so.                  *)
LEMMA LengthFirst ==
    ASSUME NEW l \in Seq(Byte), NEW s \in Seq(Byte), NEW t \in Seq(Byte)
    PROVE  l \o s \in Seq(Byte) /\ (l \o s) \o t = l \o (s \o t) /\ s \o t \in Seq(Byte)
BY BytesConcatenation, BytesAssociative, Zenon

(* A string is read back.                                                  *)
LEMMA String16BothWays == Back("string16") /\ Form("string16")
<1>1. \A v : v \in Accepted("string16") <=> v \in Seq(Byte) /\ IsUtf8(v) /\ Len(v) \in U16s
      BY KindValues, KindRanges, Zenon DEF Accepted
<1>2. U16s \subseteq Nat  BY RadixFacts DEF U16s
<1>3. ASSUME NEW v \in Accepted("string16"), NEW t \in Seq(Byte)
      PROVE  /\ FieldWritten("string16", v) \in Seq(Byte)
             /\ ReadValue(FieldWritten("string16", v) \o t, "string16") = ReadAs(v, t)
  <2>1. v \in Seq(Byte) /\ IsUtf8(v) /\ Len(v) \in U16s  BY <1>1, Zenon
  <2>. DEFINE l == U16(Len(v))
              r == (l \o v) \o t
  <2>2. l \in Seq(Byte)  BY <2>1, WrittenU16Type, Zenon
  <2>3. l \o v \in Seq(Byte) /\ r = l \o (v \o t) /\ v \o t \in Seq(Byte)  BY <2>1, <2>2, LengthFirst, Zenon
  <2>4. ReadUnsigned(r, 2) = ReadAs(Len(v), v \o t)  BY <2>1, <2>3, ReadU16Back, Zenon
  <2>5. ReadCounted(ReadUnsigned(r, 2)) = ReadAs(v, t)  BY <2>1, <2>4, CountedBack, Zenon
  <2>6. ReadString16(r) = ReadAs(v, t)
    <3>. HIDE DEF r
    <3>1. ReadString16(r) = IF IsUtf8(v) THEN ReadAs(v, t) ELSE Truncated  BY <2>5, String16Reads
    <3>. QED BY <2>1, <3>1, Zenon
  <2>7. FieldWritten("string16", v) = l \o v  BY KindWritten, Zenon DEF String16
  <2>. QED BY <2>3, <2>6, <2>7, KindRead, Zenon
<1>4. ASSUME NEW r \in Seq(Byte), ReadValue(r, "string16") # Truncated
      PROVE  \E v \in Accepted("string16"), t \in Seq(Byte) :
                r = FieldWritten("string16", v) \o t /\ ReadValue(r, "string16") = ReadAs(v, t)
  <2>1. ReadString16(r) # Truncated  BY <1>4, KindRead, Zenon
  <2>2. ReadCounted(ReadUnsigned(r, 2)) # Truncated  BY <2>1, String16Reads
  <2>3. ReadUnsigned(r, 2) # Truncated  BY <2>2, CountedReads, Zenon
  <2>4. PICK n \in U16s, u \in Seq(Byte) : r = U16(n) \o u /\ ReadUnsigned(r, 2) = ReadAs(n, u)
        BY <2>3, ReadU16Form, Zenon
  <2>5. n \in Nat  BY <1>2
  <2>6. ReadCounted(ReadAs(n, u)) # Truncated  BY <2>2, <2>4, Zenon
  <2>7. PICK s, t \in Seq(Byte) :
            Len(s) = n /\ u = s \o t /\ ReadCounted(ReadAs(n, u)) = ReadAs(s, t)
        BY <2>5, <2>6, CountedForm, Zenon
  <2>8. ReadString16(r) = IF IsUtf8(s) THEN ReadAs(s, t) ELSE Truncated
        BY <2>4, <2>7, String16Reads
  <2>9. IsUtf8(s) /\ ReadString16(r) = ReadAs(s, t)  BY <2>1, <2>8
  <2>10. s \in Accepted("string16")  BY <1>1, <2>7, <2>9, Zenon
  <2>11. U16(n) \in Seq(Byte)  BY WrittenU16Type, Zenon
  <2>12. r = FieldWritten("string16", s) \o t
    <3>1. (U16(n) \o s) \o t = U16(n) \o (s \o t)  BY <2>11, LengthFirst, Zenon
    <3>2. FieldWritten("string16", s) = U16(n) \o s  BY <2>7, KindWritten, Zenon DEF String16
    <3>. QED BY <2>4, <2>7, <3>1, <3>2, Zenon
  <2>. QED BY <2>9, <2>10, <2>12, KindRead, Zenon
<1>5. Back("string16")  BY <1>3, Zenon DEF Back
<1>6. Form("string16")  BY <1>4, Zenon DEF Form
<1>. QED BY <1>5, <1>6

(* A seed is read back.                                                    *)
LEMMA SeedBothWays == Back("seed") /\ Form("seed")
<1>1. \A v : v \in Accepted("seed") <=> v \in Seq(Byte) /\ Len(v) \in 1..127
      BY KindValues, KindRanges, Zenon DEF Accepted
<1>2. 1..127 \subseteq Byte /\ 1..127 \subseteq Nat  BY DEF Byte
<1>3. ASSUME NEW v \in Accepted("seed"), NEW t \in Seq(Byte)
      PROVE  /\ FieldWritten("seed", v) \in Seq(Byte)
             /\ ReadValue(FieldWritten("seed", v) \o t, "seed") = ReadAs(v, t)
  <2>1. v \in Seq(Byte) /\ Len(v) \in 1..127 /\ Len(v) \in Byte  BY <1>1, <1>2, Zenon
  <2>. DEFINE l == <<Len(v)>>
              r == (l \o v) \o t
  <2>2. l \in Seq(Byte)  BY <2>1
  <2>3. l \o v \in Seq(Byte) /\ r = l \o (v \o t) /\ v \o t \in Seq(Byte)  BY <2>1, <2>2, LengthFirst, Zenon
  <2>4. ReadByteIn(r, 1..127) = ReadAs(Len(v), v \o t)
    <3>1. PICK b : b = Len(v)  OBVIOUS
    <3>2. PICK u : u = v \o t  OBVIOUS
    <3>3. b \in Byte /\ b \in 1..127 /\ u \in Seq(Byte)  BY <2>1, <2>3, <3>1, <3>2, Zenon
    <3>4. ReadByteIn(<<b>> \o u, 1..127) = ReadAs(b, u)  BY <3>3, ReadByteInBack
    <3>. QED BY <2>3, <3>1, <3>2, <3>4, Zenon
  <2>5. ReadCounted(ReadByteIn(r, 1..127)) = ReadAs(v, t)  BY <2>1, <2>4, CountedBack, Zenon
  <2>6. FieldWritten("seed", v) = l \o v  BY KindWritten, Zenon
  <2>. QED BY <2>3, <2>5, <2>6, KindRead, Zenon
<1>4. ASSUME NEW r \in Seq(Byte), ReadValue(r, "seed") # Truncated
      PROVE  \E v \in Accepted("seed"), t \in Seq(Byte) :
                r = FieldWritten("seed", v) \o t /\ ReadValue(r, "seed") = ReadAs(v, t)
  <2>1. ReadCounted(ReadByteIn(r, 1..127)) # Truncated  BY <1>4, KindRead, Zenon
  <2>2. ReadByteIn(r, 1..127) # Truncated  BY <2>1, CountedReads, Zenon
  <2>3. PICK n \in Byte, u \in Seq(Byte) :
            n \in 1..127 /\ r = <<n>> \o u /\ ReadByteIn(r, 1..127) = ReadAs(n, u)
        BY <2>2, ReadByteInForm, Zenon
  <2>4. n \in Nat  BY <1>2, <2>3, Zenon
  <2>5. ReadCounted(ReadAs(n, u)) # Truncated  BY <2>1, <2>3, Zenon
  <2>6. PICK s, t \in Seq(Byte) :
            Len(s) = n /\ u = s \o t /\ ReadCounted(ReadAs(n, u)) = ReadAs(s, t)
        BY <2>4, <2>5, CountedForm, Zenon
  <2>7. s \in Accepted("seed")  BY <1>1, <2>3, <2>6, Zenon
  <2>8. <<n>> \in Seq(Byte)  OBVIOUS
  <2>9. (<<n>> \o s) \o t = <<n>> \o (s \o t)  BY <2>8, LengthFirst, Zenon
  <2>10. FieldWritten("seed", s) = <<n>> \o s  BY <2>6, KindWritten, Zenon
  <2>11. r = FieldWritten("seed", s) \o t /\ ReadValue(r, "seed") = ReadAs(s, t)
         BY <2>3, <2>6, <2>9, <2>10, KindRead, Zenon
  <2>. QED BY <2>7, <2>11, Zenon
<1>5. Back("seed")  BY <1>3, Zenon DEF Back
<1>6. Form("seed")  BY <1>4, Zenon DEF Form
<1>. QED BY <1>5, <1>6

(* A length below 2^31 is two u16s, the upper one below HighLimit.         *)
LEMMA LengthHalves ==
    /\ \A n \in Nat : n \div Radix < HighLimit =>
           n \div Radix \in U16s /\ n % Radix \in U16s /\ n = (n \div Radix) * Radix + (n % Radix)
    /\ \A h, l \in U16s : /\ h * Radix + l \in Nat
                          /\ (h * Radix + l) \div Radix = h
                          /\ (h * Radix + l) % Radix = l
<1>1. HighLimit \in Int /\ HighLimit <= Radix - 1 /\ Radix \in Int /\ Radix > 0
      BY SMT DEF HighLimit, Radix
<1>2. \A n \in Nat, m \in Nat : m > 0 =>
          n \div m \in Nat /\ n % m \in 0..m - 1 /\ n = (n \div m) * m + (n % m)
      OBVIOUS
<1>3. ASSUME NEW n \in Nat, n \div Radix < HighLimit
      PROVE  n \div Radix \in U16s /\ n % Radix \in U16s /\ n = (n \div Radix) * Radix + (n % Radix)
  <2>. DEFINE h == n \div Radix
  <2>1. h \in Nat /\ n % Radix \in 0..Radix - 1 /\ n = h * Radix + (n % Radix)  BY <1>1, <1>2
  <2>. HIDE DEF h
  <2>2. h < HighLimit  BY <1>3 DEF h
  <2>3. h \in 0..Radix - 1  BY <1>1, <2>1, <2>2
  <2>. QED BY <2>1, <2>3, Zenon DEF h, U16s
<1>4. \A h, l \in U16s : h \in Nat /\ l \in Nat  BY <1>1 DEF U16s
<1>5. \A h \in Nat, l \in U16s : (h * Radix + l) \div Radix = h /\ (h * Radix + l) % Radix = l
  <2>. SUFFICES ASSUME NEW h \in Nat, NEW l \in U16s
                PROVE  (h * Radix + l) \div Radix = h /\ (h * Radix + l) % Radix = l
       BY Zenon
  <2>1. l \in Nat /\ l < Radix  BY <1>1 DEF U16s
  <2>. QED BY <2>1, SMTT(60) DEF Radix
<1>6. \A h, l \in Nat : h * Radix + l \in Nat
  <2>1. Radix \in Nat  BY <1>1
  <2>. QED BY <2>1
<1>. QED BY <1>3, <1>4, <1>5, <1>6, Zenon

(* A blob is read back.                                                    *)
LEMMA Blob32BothWays == Back("blob32") /\ Form("blob32")
<1>1. \A v : v \in Accepted("blob32") <=> v \in Seq(Byte) /\ Len(v) \div Radix < HighLimit
      BY KindValues, KindRanges, Zenon DEF Accepted
<1>2. ASSUME NEW v \in Accepted("blob32"), NEW t \in Seq(Byte)
      PROVE  /\ FieldWritten("blob32", v) \in Seq(Byte)
             /\ ReadValue(FieldWritten("blob32", v) \o t, "blob32") = ReadAs(v, t)
  <2>1. v \in Seq(Byte) /\ Len(v) \div Radix < HighLimit  BY <1>1, Zenon
  <2>2. Len(v) \in Nat  BY <2>1
  <2>. DEFINE h == Len(v) \div Radix
              m == Len(v) % Radix
              l == U16(h) \o U16(m)
              r == (l \o v) \o t
  <2>3. h \in U16s /\ m \in U16s /\ Len(v) = h * Radix + m /\ h < HighLimit
        BY <2>1, <2>2, LengthHalves, Zenon
  <2>4. FieldWritten("blob32", v) = l \o v  BY KindWritten, Zenon DEF Blob32, U32
  <2>. HIDE DEF h, m
  <2>5. l \in Seq(Byte)  BY <2>3, ReadU32Back, Zenon
  <2>6. l \o v \in Seq(Byte) /\ r = l \o (v \o t) /\ v \o t \in Seq(Byte)  BY <2>1, <2>5, LengthFirst, Zenon
  <2>7. ReadU32(r) = ReadAs(<<h, m>>, v \o t)  BY <2>3, <2>6, ReadU32Back, Zenon
  <2>. HIDE DEF l, r
  <2>8. ReadLength(r) = ReadAs(h * Radix + m, v \o t)  BY <2>3, <2>7, LengthReads
  <2>9. ReadLength(r) = ReadAs(Len(v), v \o t)  BY <2>3, <2>8, Zenon
  <2>10. ReadCounted(ReadLength(r)) = ReadAs(v, t)  BY <2>1, <2>9, CountedBack, Zenon
  <2>. QED BY <2>4, <2>6, <2>10, KindRead, Zenon DEF r
<1>3. ASSUME NEW r \in Seq(Byte), ReadValue(r, "blob32") # Truncated
      PROVE  \E v \in Accepted("blob32"), t \in Seq(Byte) :
                r = FieldWritten("blob32", v) \o t /\ ReadValue(r, "blob32") = ReadAs(v, t)
  <2>1. ReadCounted(ReadLength(r)) # Truncated  BY <1>3, KindRead, Zenon
  <2>2. ReadLength(r) # Truncated  BY <2>1, CountedReads, Zenon
  <2>3. ReadU32(r) # Truncated  BY <2>2, LengthReads
  <2>4. PICK h, m \in U16s, u \in Seq(Byte) :
            r = (U16(h) \o U16(m)) \o u /\ ReadU32(r) = ReadAs(<<h, m>>, u)
        BY <2>3, ReadU32Form, Zenon
  <2>5. h < HighLimit /\ ReadLength(r) = ReadAs(h * Radix + m, u)
    <3>1. ReadLength(r) = IF h < HighLimit THEN ReadAs(h * Radix + m, u) ELSE Truncated
          BY <2>4, LengthReads
    <3>. QED BY <2>2, <3>1, Zenon
  <2>. DEFINE n == h * Radix + m
              l == U16(h) \o U16(m)
  <2>6. n \in Nat /\ n \div Radix = h /\ n % Radix = m  BY LengthHalves, Zenon
  <2>7. ReadLength(r) = ReadAs(n, u)  BY <2>5, Zenon
  <2>. HIDE DEF n
  <2>8. ReadCounted(ReadAs(n, u)) # Truncated  BY <2>1, <2>7, Zenon
  <2>9. PICK s, t \in Seq(Byte) :
            Len(s) = n /\ u = s \o t /\ ReadCounted(ReadAs(n, u)) = ReadAs(s, t)
        BY <2>6, <2>8, CountedForm, Zenon
  <2>10. s \in Accepted("blob32")  BY <1>1, <2>5, <2>6, <2>9, Zenon
  <2>11. l \in Seq(Byte)  BY ReadU32Back, Zenon
  <2>12. FieldWritten("blob32", s) = l \o s  BY <2>6, <2>9, KindWritten, Zenon DEF Blob32, U32
  <2>13. (l \o s) \o t = l \o (s \o t)  BY <2>11, LengthFirst, Zenon
  <2>14. r = FieldWritten("blob32", s) \o t /\ ReadValue(r, "blob32") = ReadAs(s, t)
         BY <2>4, <2>7, <2>9, <2>12, <2>13, KindRead, Zenon
  <2>. QED BY <2>10, <2>14, Zenon
<1>4. Back("blob32")  BY <1>2, Zenon DEF Back
<1>5. Form("blob32")  BY <1>3, Zenon DEF Form
<1>. QED BY <1>4, <1>5

(* Every reader is the inverse of its writer: what is written is read back *)
(* and the bytes behind it are left, and what is read was written so.      *)
(* primitives.py:19-111                                                    *)
THEOREM EveryKindBothWays == \A kind \in Kinds : Back(kind) /\ Form(kind)
BY ByteKindsBothWays, U16BothWays, U32BothWays, S8BothWays, String16BothWays,
   SeedBothWays, Blob32BothWays, Zenon DEF Kinds

------------------------------------------------------------------------------
(* One after the other.                                                    *)

Chunks == Seq(Seq(Byte))

(* A function on 1..n into S is a sequence of length n.                    *)
LEMMA FunctionIsSequence ==
    \A S, n, f : n \in Nat /\ f \in [1..n -> S] => f \in Seq(S) /\ Len(f) = n
OBVIOUS

(* What is left of the chunks behind each of them.                         *)
Suffixes(chunks, rem) ==
    LET n == Len(chunks)
    IN  /\ rem \in [0..n -> Seq(Byte)]
        /\ rem[n] = <<>> /\ rem[0] = Joined(chunks)
        /\ \A i \in 1..n : rem[i - 1] = chunks[i] \o rem[i]

(* There is such a rest behind each chunk.                                 *)
LEMMA JoinedSuffixes == \A chunks \in Chunks : \E rem : Suffixes(chunks, rem)
<1>. SUFFICES ASSUME NEW chunks \in Chunks PROVE \E rem : Suffixes(chunks, rem)
     BY Zenon
<1>0. PICK n : n = Len(chunks)  OBVIOUS
<1>. DEFINE S == Seq(Byte)
            a == <<>>
            step == [x \in S \X (1..n) |-> chunks[n - x[2] + 1] \o x[1]]
            P(g) == g = [k \in 0..n |-> IF k = 0 THEN <<>> ELSE chunks[n - k + 1] \o g[k - 1]]
<1>1. n \in Nat /\ \A i \in 1..n : chunks[i] \in S
  <2>1. n \in Nat  BY <1>0 DEF Chunks
  <2>2. \A i \in 1..Len(chunks) : chunks[i] \in Seq(Byte)  BY ElementOfSeq DEF Chunks
  <2>. QED BY <1>0, <2>1, <2>2
<1>2. \A k \in 1..n : n - k + 1 \in 1..n  BY <1>1
<1>3. \A b, c \in S : b \o c \in S  BY BytesConcatenation
<1>4. a \in S  OBVIOUS
<1>. HIDE DEF S, a
<1>5. step \in [S \X (1..n) -> S] /\ \A b \in S, k \in 1..n : step[<<b, k>>] = chunks[n - k + 1] \o b
      BY <1>1, <1>2, <1>3
<1>. HIDE DEF step
<1>6. PICK g \in [0..n -> S] : g[0] = a /\ \A k \in 1..n : g[k] = step[<<g[k - 1], k>>]
  <2>1. PICK g : Recurs(g, S, n, a, step)  BY <1>1, <1>4, <1>5, RecursionUpTo, Zenon
  <2>. QED BY <2>1, Zenon DEF Recurs
<1>7. P(g)
  <2>1. ASSUME NEW k \in 0..n
        PROVE  g[k] = IF k = 0 THEN <<>> ELSE chunks[n - k + 1] \o g[k - 1]
    <3>1. k = 0 \/ (k \in 1..n /\ k - 1 \in 0..n /\ k # 0)  BY <1>1
    <3>. QED BY <1>5, <1>6, <3>1 DEF a
  <2>. QED BY <1>6, <2>1
<1>. DEFINE h == CHOOSE z : P(z)
<1>8. P(h)  BY <1>7, Zenon
<1>9. Joined(chunks) = h[n]  BY <1>0, Zenon DEF Joined
<1>. HIDE DEF h
<1>10. h[0] = <<>> /\ \A k \in 1..n : h[k] = chunks[n - k + 1] \o h[k - 1]
  <2>1. \A k \in 0..n : h[k] = IF k = 0 THEN <<>> ELSE chunks[n - k + 1] \o h[k - 1]
        BY <1>8
  <2>2. 0 \in 0..n /\ \A k \in 1..n : k \in 0..n /\ k # 0  BY <1>1
  <2>. QED BY <2>1, <2>2
<1>11. \A k \in 0..n : h[k] \in S
  <2>. DEFINE T == {k \in 0..n : h[k] \in S}
  <2>1. 0 \in T  BY <1>1, <1>4, <1>10 DEF a
  <2>2. ASSUME NEW k \in 0..n - 1, k \in T PROVE k + 1 \in T
    <3>1. k + 1 \in 1..n /\ (k + 1) - 1 = k /\ k + 1 \in 0..n  BY <1>1
    <3>2. h[k + 1] = chunks[n - (k + 1) + 1] \o h[k]  BY <1>10, <3>1
    <3>3. chunks[n - (k + 1) + 1] \in S  BY <1>1, <1>2, <3>1
    <3>. QED BY <1>3, <2>2, <3>1, <3>2, <3>3
  <2>. HIDE DEF T
  <2>3. 0..n \subseteq T  BY <1>1, <2>1, <2>2, BoundedInduction
  <2>. QED BY <2>3 DEF T
<1>. DEFINE rem == [i \in 0..n |-> h[n - i]]
<1>12. \A i \in 0..n : n - i \in 0..n  BY <1>1
<1>13. rem \in [0..n -> S]  BY <1>11, <1>12
<1>14. rem[n] = <<>> /\ rem[0] = Joined(chunks)
  <2>1. n \in 0..n /\ 0 \in 0..n /\ n - n = 0 /\ n - 0 = n  BY <1>1
  <2>2. rem[n] = h[n - n] /\ rem[0] = h[n - 0]  BY <2>1
  <2>. QED BY <1>9, <1>10, <2>1, <2>2
<1>15. ASSUME NEW i \in 1..n PROVE rem[i - 1] = chunks[i] \o rem[i]
  <2>1. /\ i - 1 \in 0..n /\ i \in 0..n /\ n - (i - 1) \in 1..n
        /\ n - (n - (i - 1)) + 1 = i /\ (n - (i - 1)) - 1 = n - i
        BY <1>1
  <2>2. rem[i - 1] = h[n - (i - 1)] /\ rem[i] = h[n - i]  BY <2>1
  <2>3. h[n - (i - 1)] = chunks[n - (n - (i - 1)) + 1] \o h[(n - (i - 1)) - 1]  BY <1>10, <2>1
  <2>. QED BY <2>1, <2>2, <2>3
<1>. HIDE DEF rem
<1>16. Suffixes(chunks, rem)  BY <1>0, <1>13, <1>14, <1>15 DEF S, Suffixes
<1>. QED BY <1>16, Zenon

(* Whatever is left of the chunks in this way is left of their joining.    *)
LEMMA JoinedUnique ==
    ASSUME NEW chunks \in Chunks, NEW n, n = Len(chunks), NEW r,
           r[n] = <<>>, \A i \in 1..n : r[i - 1] = chunks[i] \o r[i]
    PROVE  r[0] = Joined(chunks)
<1>1. PICK rem \in [0..n -> Seq(Byte)] :
          /\ rem[n] = <<>> /\ rem[0] = Joined(chunks)
          /\ \A i \in 1..n : rem[i - 1] = chunks[i] \o rem[i]
      BY JoinedSuffixes, Zenon DEF Suffixes
<1>2. n \in Nat  BY DEF Chunks
<1>. DEFINE T == {k \in 0..n : r[n - k] = rem[n - k]}
<1>3. 0 \in T
  <2>1. 0 \in 0..n /\ n - 0 = n  BY <1>2
  <2>. QED BY <1>1, <2>1
<1>4. ASSUME NEW k \in 0..n - 1, k \in T PROVE k + 1 \in T
  <2>1. n - k \in 1..n /\ (n - k) - 1 = n - (k + 1) /\ k + 1 \in 0..n  BY <1>2
  <2>2. r[n - (k + 1)] = chunks[n - k] \o r[n - k]  BY <2>1
  <2>3. rem[n - (k + 1)] = chunks[n - k] \o rem[n - k]  BY <1>1, <2>1
  <2>. QED BY <1>4, <2>1, <2>2, <2>3
<1>. HIDE DEF T
<1>5. 0..n \subseteq T  BY <1>2, <1>3, <1>4, BoundedInduction
<1>6. n \in T /\ n - n = 0  BY <1>2, <1>5
<1>. QED BY <1>1, <1>6 DEF T

(* Chunks of bytes join to bytes.                                          *)
LEMMA JoinedType == \A chunks \in Chunks : Joined(chunks) \in Seq(Byte)
<1>. SUFFICES ASSUME NEW chunks \in Chunks PROVE Joined(chunks) \in Seq(Byte)
     OBVIOUS
<1>1. PICK n : n = Len(chunks)  OBVIOUS
<1>2. PICK rem \in [0..n -> Seq(Byte)] : rem[0] = Joined(chunks)  BY <1>1, JoinedSuffixes, Zenon DEF Suffixes
<1>3. 0 \in 0..n  BY <1>1 DEF Chunks
<1>. QED BY <1>2, <1>3

(* No chunk, no bytes.                                                     *)
LEMMA JoinedEmpty == \A chunks \in Chunks : Len(chunks) = 0 => Joined(chunks) = <<>>
<1>. SUFFICES ASSUME NEW chunks \in Chunks, Len(chunks) = 0 PROVE Joined(chunks) = <<>>
     OBVIOUS
<1>1. PICK n : n = Len(chunks)  OBVIOUS
<1>2. PICK rem : rem[n] = <<>> /\ rem[0] = Joined(chunks)  BY <1>1, JoinedSuffixes, Zenon DEF Suffixes
<1>. QED BY <1>1, <1>2

(* One chunk more.                                                         *)
LEMMA JoinedAppend ==
    ASSUME NEW chunks \in Chunks, NEW c \in Seq(Byte)
    PROVE  /\ Append(chunks, c) \in Chunks
           /\ Joined(Append(chunks, c)) = Joined(chunks) \o c
<1>1. PICK n : n = Len(chunks)  OBVIOUS
<1>2. PICK rem \in [0..n -> Seq(Byte)] :
          /\ rem[n] = <<>> /\ rem[0] = Joined(chunks)
          /\ \A i \in 1..n : rem[i - 1] = chunks[i] \o rem[i]
      BY <1>1, JoinedSuffixes, Zenon DEF Suffixes
<1>3. n \in Nat /\ \A i \in 1..n : chunks[i] \in Seq(Byte)
  <2>1. n \in Nat  BY <1>1 DEF Chunks
  <2>2. \A i \in 1..Len(chunks) : chunks[i] \in Seq(Byte)  BY ElementOfSeq DEF Chunks
  <2>. QED BY <1>1, <2>1, <2>2
<1>4. PICK more : more = Append(chunks, c)  OBVIOUS
<1>5. /\ more \in Chunks /\ Len(more) = n + 1
      /\ \A i \in 1..n : more[i] = chunks[i]
      /\ more[n + 1] = c
      BY <1>1, <1>4, AppendProperties DEF Chunks
<1>. DEFINE r == [i \in 0..n + 1 |-> IF i = n + 1 THEN <<>> ELSE rem[i] \o c]
<1>6. (\A i \in 0..n : r[i] = rem[i] \o c) /\ r[n + 1] = <<>>
  <2>1. n \in Nat  BY <1>3
  <2>2. n + 1 \in 0..n + 1 /\ \A i \in 0..n : i \in 0..n + 1 /\ i # n + 1  BY <2>1
  <2>3. \A i \in 0..n + 1 : r[i] = IF i = n + 1 THEN <<>> ELSE rem[i] \o c  BY Zenon
  <2>. HIDE DEF r
  <2>4. \A i \in 0..n : r[i] = rem[i] \o c  BY <2>2, <2>3, Zenon
  <2>5. r[n + 1] = <<>>  BY <2>2, <2>3, Zenon
  <2>. QED BY <2>4, <2>5
<1>. HIDE DEF r
<1>7. ASSUME NEW i \in 1..n + 1 PROVE r[i - 1] = more[i] \o r[i]
  <2>1. CASE i = n + 1
    <3>1. i - 1 = n /\ n \in 0..n  BY <1>3, <2>1
    <3>2. r[i - 1] = <<>> \o c  BY <1>2, <1>6, <3>1
    <3>3. <<>> \o c = c /\ c \o <<>> = c  BY ConcatEmptySeq
    <3>. QED BY <1>5, <1>6, <2>1, <3>2, <3>3
  <2>2. CASE i # n + 1
    <3>1. i \in 1..n /\ i - 1 \in 0..n /\ i \in 0..n  BY <1>3, <2>2
    <3>2. r[i - 1] = (chunks[i] \o rem[i]) \o c  BY <1>2, <1>6, <3>1
    <3>3. chunks[i] \in Seq(Byte) /\ rem[i] \in Seq(Byte)  BY <1>2, <1>3, <3>1
    <3>4. (chunks[i] \o rem[i]) \o c = chunks[i] \o (rem[i] \o c)  BY <3>3, BytesAssociative, Zenon
    <3>. QED BY <1>5, <1>6, <3>1, <3>2, <3>4
  <2>. QED BY <2>1, <2>2
<1>8. r[0] = Joined(more)
  <2>1. PICK m : m = n + 1  OBVIOUS
  <2>2. m = Len(more) /\ r[m] = <<>> /\ \A i \in 1..m : r[i - 1] = more[i] \o r[i]
        BY <1>5, <1>6, <1>7, <2>1
  <2>. QED BY <1>5, <2>2, JoinedUnique
<1>9. r[0] = Joined(chunks) \o c
  <2>1. 0 \in 0..n  BY <1>3
  <2>. QED BY <1>2, <1>6, <2>1
<1>. QED BY <1>4, <1>5, <1>8, <1>9

------------------------------------------------------------------------------
(* The fields of a message or of a record.                                 *)

Field == UNION {Values(kind) : kind \in Kinds}

(* What a list may be while its values, of the set V, are read.            *)
Lists(V) == {Truncated} \cup {ReadAs(vs, t) : vs \in Seq(V), t \in Seq(Byte)}

(* A list is an error, or values and the bytes behind them.                *)
LEMMA ListsMembers ==
    \A V : /\ Truncated \in Lists(V)
           /\ \A vs \in Seq(V), t \in Seq(Byte) : ReadAs(vs, t) \in Lists(V)
           /\ \A list \in Lists(V) :
                 list = Truncated \/ \E vs \in Seq(V), t \in Seq(Byte) : list = ReadAs(vs, t)
<1>. SUFFICES ASSUME NEW V
              PROVE  /\ Truncated \in Lists(V)
                     /\ \A vs \in Seq(V), t \in Seq(Byte) : ReadAs(vs, t) \in Lists(V)
                     /\ \A list \in Lists(V) :
                           \/ list = Truncated
                           \/ \E vs \in Seq(V), t \in Seq(Byte) : list = ReadAs(vs, t)
     BY Zenon
<1>1. Truncated \in Lists(V)  BY DEF Lists
<1>2. \A vs \in Seq(V), t \in Seq(Byte) : ReadAs(vs, t) \in Lists(V)  BY DEF Lists
<1>3. ASSUME NEW list \in Lists(V), list # Truncated
      PROVE  \E vs \in Seq(V), t \in Seq(Byte) : list = ReadAs(vs, t)
      BY <1>3 DEF Lists
<1>. QED BY <1>1, <1>2, <1>3, Zenon

(* A value is appended to the list, and an error stays one.                *)
LEMMA ThenAppends ==
    ASSUME NEW vs, NEW r, NEW v, NEW t
    PROVE  Then(ReadAs(vs, r), ReadAs(v, t)) = ReadAs(Append(vs, v), t)
<1>1. PICK l : l = ReadAs(vs, r)  OBVIOUS
<1>2. PICK d : d = ReadAs(v, t)  OBVIOUS
<1>3. l.ok /\ d.ok /\ l.value = vs /\ d.value = v /\ d.rest = t
      BY <1>1, <1>2, ReadParts, Zenon
<1>4. Then(l, d) = ReadAs(Append(l.value, d.value), d.rest)  BY <1>3, Zenon DEF Then
<1>. QED BY <1>1, <1>2, <1>3, <1>4, Zenon

(* An error before the list, or in the read, is one.                       *)
LEMMA ThenReads ==
    /\ \A read : Then(Truncated, read) = Truncated
    /\ \A list : Then(list, Truncated) = Truncated
BY ReadParts, Zenon DEF Then

(* What may be written is a value of a field.                              *)
LEMMA AcceptedAreFields == \A kind \in Kinds : \A v \in Accepted(kind) : v \in Field
BY Zenon DEF Accepted, Field

(* One field more: its value, and what was written of it.                  *)
OneMore(kind, vs, r, next) ==
    \E v \in Accepted(kind), t \in Seq(Byte) :
        r = FieldWritten(kind, v) \o t /\ next = ReadAs(Append(vs, v), t)

(* The next field is read behind the last.                                 *)
LEMMA ReadNextOf ==
    \A kind : /\ ReadNext(Truncated, kind) = Truncated
              /\ \A vs, r : ReadNext(ReadAs(vs, r), kind) = Then(ReadAs(vs, r), ReadValue(r, kind))
BY ThenReads, ReadParts, Zenon DEF ReadNext

(* If it is read at all, it was written there.                             *)
LEMMA ReadNextForm ==
    \A kind \in Kinds, r \in Seq(Byte) : \A vs :
        ReadNext(ReadAs(vs, r), kind) # Truncated =>
            OneMore(kind, vs, r, ReadNext(ReadAs(vs, r), kind))
<1>. SUFFICES ASSUME NEW kind \in Kinds, NEW r \in Seq(Byte), NEW vs,
                     ReadNext(ReadAs(vs, r), kind) # Truncated
              PROVE  OneMore(kind, vs, r, ReadNext(ReadAs(vs, r), kind))
     BY Zenon
<1>1. ReadNext(ReadAs(vs, r), kind) = Then(ReadAs(vs, r), ReadValue(r, kind))
      BY ReadNextOf, Zenon
<1>2. ReadValue(r, kind) # Truncated
  <2>1. Then(ReadAs(vs, r), Truncated) = Truncated  BY ThenReads, Zenon
  <2>. QED BY <1>1, <2>1, Zenon
<1>3. PICK v \in Accepted(kind), t \in Seq(Byte) :
          r = FieldWritten(kind, v) \o t /\ ReadValue(r, kind) = ReadAs(v, t)
      BY <1>2, EveryKindBothWays, Zenon DEF Form
<1>4. Then(ReadAs(vs, r), ReadAs(v, t)) = ReadAs(Append(vs, v), t)  BY ThenAppends
<1>. QED BY <1>1, <1>3, <1>4, Zenon DEF OneMore

(* A list of values stays one.                                             *)
LEMMA ReadNextType == \A kind \in Kinds : \A list \in Lists(Field) : ReadNext(list, kind) \in Lists(Field)
<1>. SUFFICES ASSUME NEW kind \in Kinds, NEW list \in Lists(Field)
              PROVE  ReadNext(list, kind) \in Lists(Field)
     BY Zenon
<1>1. CASE list = Truncated  BY <1>1, ReadNextOf, ListsMembers, Zenon
<1>2. CASE list # Truncated
  <2>1. PICK vs \in Seq(Field), r \in Seq(Byte) : list = ReadAs(vs, r)
        BY <1>2, ListsMembers, Zenon
  <2>2. CASE ReadNext(list, kind) = Truncated  BY <2>2, ListsMembers, Zenon
  <2>3. CASE ReadNext(list, kind) # Truncated
    <3>0. OneMore(kind, vs, r, ReadNext(ReadAs(vs, r), kind))  BY <2>1, <2>3, ReadNextForm, Zenon
    <3>1. PICK v \in Accepted(kind), t \in Seq(Byte) : ReadNext(list, kind) = ReadAs(Append(vs, v), t)
          BY <2>1, <3>0, Zenon DEF OneMore
    <3>2. v \in Field  BY AcceptedAreFields, Zenon
    <3>3. Append(vs, v) \in Seq(Field)  BY <3>2, AppendProperties
    <3>. QED BY <3>1, <3>3, ListsMembers, Zenon
  <2>. QED BY <2>2, <2>3
<1>. QED BY <1>1, <1>2

(* The fields are read one after the other.                                *)
ReadSteps(list, kinds, r) ==
    /\ list[0] = ReadAs(<<>>, r)
    /\ \A i \in 1..Len(kinds) : list[i] = ReadNext(list[i - 1], kinds[i])

(* There are such steps, and ReadAll returns what the last one does.       *)
LEMMA ReadAllSteps ==
    \A kinds \in Seq(Kinds), r \in Seq(Byte) :
        \E list : ReadSteps(list, kinds, r) /\ ReadAll(kinds, r) = list[Len(kinds)]
<1>. SUFFICES ASSUME NEW kinds \in Seq(Kinds), NEW r \in Seq(Byte)
              PROVE  \E list : ReadSteps(list, kinds, r) /\ ReadAll(kinds, r) = list[Len(kinds)]
     BY Zenon
<1>0. PICK n : n = Len(kinds)  OBVIOUS
<1>1. n \in Nat /\ \A i \in 1..n : kinds[i] \in Kinds  BY <1>0, ElementOfSeq
<1>. DEFINE S == Lists(Field)
            a == ReadAs(<<>>, r)
            step == [x \in S \X (1..n) |-> ReadNext(x[1], kinds[x[2]])]
            P(g) == g = [i \in 0..n |-> IF i = 0 THEN ReadAs(<<>>, r) ELSE ReadNext(g[i - 1], kinds[i])]
<1>2. a \in S
  <2>1. <<>> \in Seq(Field)  OBVIOUS
  <2>. QED BY <2>1, ListsMembers, Zenon
<1>3. \A b \in S, i \in 1..n : ReadNext(b, kinds[i]) \in S  BY <1>1, ReadNextType, Zenon
<1>. HIDE DEF S, a
<1>4. step \in [S \X (1..n) -> S] /\ \A b \in S, i \in 1..n : step[<<b, i>>] = ReadNext(b, kinds[i])
      BY <1>3
<1>. HIDE DEF step
<1>5. PICK g \in [0..n -> S] : g[0] = a /\ \A i \in 1..n : g[i] = step[<<g[i - 1], i>>]
  <2>1. PICK g : Recurs(g, S, n, a, step)  BY <1>1, <1>2, <1>4, RecursionUpTo, Zenon
  <2>. QED BY <2>1, Zenon DEF Recurs
<1>6. P(g)
  <2>1. ASSUME NEW i \in 0..n
        PROVE  g[i] = IF i = 0 THEN ReadAs(<<>>, r) ELSE ReadNext(g[i - 1], kinds[i])
    <3>1. CASE i = 0  BY <1>5, <3>1 DEF a
    <3>2. CASE i # 0
      <4>1. i \in 1..n /\ i - 1 \in 0..n  BY <1>1, <3>2
      <4>2. g[i - 1] \in S /\ g[i] = step[<<g[i - 1], i>>]  BY <1>5, <4>1
      <4>3. g[i] = ReadNext(g[i - 1], kinds[i])  BY <1>4, <4>1, <4>2, Zenon
      <4>. QED BY <3>2, <4>3, Zenon
    <3>. QED BY <3>1, <3>2
  <2>. QED BY <1>5, <2>1
<1>. DEFINE h == CHOOSE z : P(z)
<1>7. P(h)  BY <1>6, Zenon
<1>8. ReadAll(kinds, r) = h[n]  BY <1>0, Zenon DEF ReadAll
<1>. HIDE DEF h
<1>9. ReadSteps(h, kinds, r)
  <2>1. \A i \in 0..n : h[i] = IF i = 0 THEN ReadAs(<<>>, r) ELSE ReadNext(h[i - 1], kinds[i])
        BY <1>7
  <2>2. 0 \in 0..n /\ \A i \in 1..n : i \in 0..n /\ i # 0  BY <1>1
  <2>3. h[0] = ReadAs(<<>>, r)  BY <2>1, <2>2, Zenon
  <2>4. \A i \in 1..n : h[i] = ReadNext(h[i - 1], kinds[i])  BY <2>1, <2>2, Zenon
  <2>. QED BY <1>0, <2>3, <2>4, Zenon DEF ReadSteps
<1>. QED BY <1>0, <1>8, <1>9, Zenon

(* The values of fields that a program may construct and send.             *)
Sendable(kinds, vs) ==
    /\ IsList(vs) /\ Len(vs) = Len(kinds)
    /\ \A i \in 1..Len(kinds) : vs[i] \in Accepted(kinds[i])

(* They are those of the right type that the writers accept.               *)
LEMMA SendableIs ==
    \A kinds, vs : Sendable(kinds, vs) <=> Typed(kinds, vs) /\ FieldsWritable(kinds, vs)
BY Zenon DEF Sendable, Typed, FieldsWritable, Accepted

(* The chunks that the fields are written as.                              *)
LEMMA FieldChunks ==
    ASSUME NEW kinds \in Seq(Kinds), NEW vs, NEW n, n = Len(kinds),
           \A i \in 1..n : vs[i] \in Accepted(kinds[i])
    PROVE  \E c \in Chunks : /\ Len(c) = n
                             /\ \A i \in 1..n : c[i] = FieldWritten(kinds[i], vs[i])
                             /\ FieldsWritten(kinds, vs) = Joined(c)
<1>1. n \in Nat /\ \A i \in 1..n : kinds[i] \in Kinds  BY ElementOfSeq
<1>2. PICK c : c = [i \in 1..Len(kinds) |-> FieldWritten(kinds[i], vs[i])]  OBVIOUS
<1>3. \A i \in 1..n : FieldWritten(kinds[i], vs[i]) \in Seq(Byte)
  <2>1. <<>> \in Seq(Byte)  OBVIOUS
  <2>2. \A kind \in Kinds : \A v \in Accepted(kind) : FieldWritten(kind, v) \in Seq(Byte)
        BY <2>1, EveryKindBothWays, Zenon DEF Back
  <2>. QED BY <1>1, <2>2, Zenon
<1>4. c \in [1..n -> Seq(Byte)] /\ \A i \in 1..n : c[i] = FieldWritten(kinds[i], vs[i])
      BY <1>2, <1>3
<1>5. c \in Chunks /\ Len(c) = n  BY <1>1, <1>4, FunctionIsSequence, Zenon DEF Chunks
<1>6. FieldsWritten(kinds, vs) = Joined(c)  BY <1>2, Zenon DEF FieldsWritten
<1>. QED BY <1>4, <1>5, <1>6, Zenon

(* The first values, one more of them.                                     *)
LEMMA FirstAppend ==
    ASSUME NEW vs, NEW k \in Nat, NEW i, i = k + 1
    PROVE  Append([j \in 1..k |-> vs[j]], vs[i]) = [j \in 1..i |-> vs[j]]
<1>. DEFINE S == {vs[j] : j \in 1..i}
<1>1. PICK p : p = [j \in 1..k |-> vs[j]]  OBVIOUS
<1>2. PICK q : q = [j \in 1..i |-> vs[j]]  OBVIOUS
<1>3. PICK v : v = vs[i]  OBVIOUS
<1>4. /\ p \in [1..k -> S] /\ q \in [1..i -> S] /\ v \in S
      /\ \A j \in 1..k : p[j] = vs[j]
      /\ \A j \in 1..i : q[j] = vs[j]
      BY <1>1, <1>2, <1>3
<1>. HIDE DEF S
<1>5. i \in Nat  OBVIOUS
<1>6. p \in Seq(S) /\ Len(p) = k /\ q \in Seq(S) /\ Len(q) = i
      BY <1>4, <1>5, FunctionIsSequence, Zenon
<1>7. PICK a : a = Append(p, v)  OBVIOUS
<1>8. /\ a \in Seq(S) /\ Len(a) = Len(p) + 1
      /\ \A j \in 1..Len(p) : a[j] = p[j]
      /\ a[Len(p) + 1] = v
      BY <1>4, <1>6, <1>7, AppendProperties
<1>9. \A j \in 1..i : j \in 1..k \/ j = i  OBVIOUS
<1>10. ASSUME NEW j \in 1..i PROVE a[j] = q[j]
  <2>1. CASE j \in 1..k  BY <1>4, <1>6, <1>8, <2>1
  <2>2. CASE j = i  BY <1>3, <1>4, <1>6, <1>8, <2>2
  <2>. QED BY <1>9, <2>1, <2>2
<1>11. Len(a) = Len(q)  BY <1>6, <1>8
<1>12. a = q  BY <1>6, <1>8, <1>10, <1>11, SeqEqual
<1>. QED BY <1>1, <1>2, <1>3, <1>7, <1>12

(* Fields that are written are read back, and what is behind them is left. *)
LEMMA FieldsBack ==
    ASSUME NEW kinds \in Seq(Kinds), NEW vs, Sendable(kinds, vs), NEW t \in Seq(Byte)
    PROVE  /\ FieldsWritten(kinds, vs) \in Seq(Byte)
           /\ ReadAll(kinds, FieldsWritten(kinds, vs) \o t) = ReadAs(vs, t)
<1>0. PICK n : n = Len(kinds)  OBVIOUS
<1>1. n \in Nat /\ \A i \in 1..n : kinds[i] \in Kinds  BY <1>0, ElementOfSeq
<1>2. \A i \in 1..n : vs[i] \in Accepted(kinds[i])  BY <1>0, Zenon DEF Sendable
<1>3. PICK c \in Chunks : /\ Len(c) = n
                          /\ \A i \in 1..n : c[i] = FieldWritten(kinds[i], vs[i])
                          /\ FieldsWritten(kinds, vs) = Joined(c)
      BY <1>0, <1>2, FieldChunks
<1>4. PICK rem : Suffixes(c, rem)  BY JoinedSuffixes, Zenon
<1>5. /\ rem \in [0..n -> Seq(Byte)]
      /\ rem[n] = <<>> /\ rem[0] = Joined(c)
      /\ \A i \in 1..n : rem[i - 1] = c[i] \o rem[i]
      BY <1>3, <1>4, Zenon DEF Suffixes
<1>6. 0 \in 0..n /\ n \in 0..n  BY <1>1
<1>7. Joined(c) \in Seq(Byte)  BY <1>5, <1>6
<1>8. PICK r : r = Joined(c) \o t  OBVIOUS
<1>9. r \in Seq(Byte)  BY <1>7, <1>8, BytesConcatenation, Zenon
<1>10. PICK list : ReadSteps(list, kinds, r) /\ ReadAll(kinds, r) = list[Len(kinds)]
       BY <1>9, ReadAllSteps, Zenon
<1>11. /\ list[0] = ReadAs(<<>>, r)
       /\ \A i \in 1..n : list[i] = ReadNext(list[i - 1], kinds[i])
       BY <1>0, <1>10, Zenon DEF ReadSteps
<1>. DEFINE Prefix(i) == [j \in 1..i |-> vs[j]]
            T == {i \in 0..n : list[i] = ReadAs(Prefix(i), rem[i] \o t)}
<1>12. 0 \in T
  <2>1. Prefix(0) = <<>>  OBVIOUS
  <2>. QED BY <1>5, <1>6, <1>8, <1>11, <2>1
<1>13. ASSUME NEW k \in 0..n - 1, k \in T PROVE k + 1 \in T
  <2>1. PICK i : i = k + 1  OBVIOUS
  <2>2. i \in 1..n /\ i \in 0..n /\ i - 1 = k /\ k \in 0..n /\ i \in Nat /\ k \in Nat
        BY <1>1, <2>1
  <2>. DEFINE v == vs[i]
              u == rem[i] \o t
  <2>3. rem[k] \o t = FieldWritten(kinds[i], v) \o u
    <3>1. c[i] \in Seq(Byte) /\ rem[i] \in Seq(Byte)
      <4>1. i \in 1..Len(c)  BY <1>3, <2>2
      <4>2. c[i] \in Seq(Byte)  BY <4>1, ElementOfSeq, Zenon DEF Chunks
      <4>. QED BY <1>5, <2>2, <4>2
    <3>2. rem[k] = c[i] \o rem[i]  BY <1>5, <2>2
    <3>3. (c[i] \o rem[i]) \o t = c[i] \o (rem[i] \o t)  BY <3>1, BytesAssociative, Zenon
    <3>4. c[i] = FieldWritten(kinds[i], v)  BY <1>3, <2>2
    <3>. QED BY <3>2, <3>3, <3>4
  <2>4. ReadValue(rem[k] \o t, kinds[i]) = ReadAs(v, u)
    <3>1. rem[i] \in Seq(Byte)  BY <1>5, <2>2
    <3>2. u \in Seq(Byte)  BY <3>1, BytesConcatenation, Zenon
    <3>3. kinds[i] \in Kinds /\ v \in Accepted(kinds[i])  BY <1>1, <1>2, <2>2
    <3>. HIDE DEF u, v
    <3>4. ReadValue(FieldWritten(kinds[i], v) \o u, kinds[i]) = ReadAs(v, u)
          BY <3>2, <3>3, EveryKindBothWays, Zenon DEF Back
    <3>. QED BY <2>3, <3>4, Zenon
  <2>5. list[i] = ReadNext(list[k], kinds[i])  BY <1>11, <2>2
  <2>6. list[k] = ReadAs(Prefix(k), rem[k] \o t)  BY <1>13
  <2>. HIDE DEF u, v, Prefix
  <2>7. list[i] = Then(ReadAs(Prefix(k), rem[k] \o t), ReadAs(v, u))
        BY <2>4, <2>5, <2>6, ReadNextOf, Zenon
  <2>8. list[i] = ReadAs(Append(Prefix(k), v), u)  BY <2>7, ThenAppends
  <2>9. Append(Prefix(k), v) = Prefix(i)  BY <2>1, <2>2, FirstAppend DEF Prefix, v
  <2>10. list[i] = ReadAs(Prefix(i), rem[i] \o t)  BY <2>8, <2>9, Zenon DEF u
  <2>. QED BY <2>1, <2>2, <2>10
<1>. HIDE DEF T, Prefix
<1>14. 0..n \subseteq T  BY <1>1, <1>12, <1>13, BoundedInduction
<1>15. list[n] = ReadAs(Prefix(n), rem[n] \o t)  BY <1>6, <1>14 DEF T
<1>16. Prefix(n) = vs  BY <1>0, Zenon DEF Prefix, Sendable, IsList
<1>17. rem[n] \o t = t  BY <1>5, ConcatEmptySeq
<1>. QED BY <1>0, <1>3, <1>7, <1>8, <1>10, <1>15, <1>16, <1>17, Zenon

(* What is known after i fields: their values, and what they were read from. *)
AfterFields(kinds, r, state, i) ==
    \E vs \in Seq(Field), c \in Chunks, t \in Seq(Byte) :
        /\ Len(vs) = i /\ Len(c) = i
        /\ \A j \in 1..i : vs[j] \in Accepted(kinds[j]) /\ c[j] = FieldWritten(kinds[j], vs[j])
        /\ r = Joined(c) \o t
        /\ state = ReadAs(vs, t)

(* The next field keeps it.                                                *)
LEMMA AfterNextField ==
    ASSUME NEW kinds, NEW r \in Seq(Byte), NEW list, NEW k \in Nat, NEW i, i = k + 1,
           kinds[i] \in Kinds, AfterFields(kinds, r, list, k),
           ReadNext(list, kinds[i]) # Truncated
    PROVE  AfterFields(kinds, r, ReadNext(list, kinds[i]), i)
<1>1. PICK vs \in Seq(Field), c \in Chunks, t \in Seq(Byte) :
          /\ Len(vs) = k /\ Len(c) = k
          /\ \A j \in 1..k : vs[j] \in Accepted(kinds[j]) /\ c[j] = FieldWritten(kinds[j], vs[j])
          /\ r = Joined(c) \o t
          /\ list = ReadAs(vs, t)
      BY Zenon DEF AfterFields
<1>2. PICK kind : kind = kinds[i]  OBVIOUS
<1>3. OneMore(kind, vs, t, ReadNext(list, kind))
  <2>1. ReadNext(ReadAs(vs, t), kind) # Truncated /\ kind \in Kinds  BY <1>1, <1>2
  <2>. QED BY <1>1, <2>1, ReadNextForm, Zenon
<1>4. PICK v \in Accepted(kind), u \in Seq(Byte) :
          t = FieldWritten(kind, v) \o u /\ ReadNext(list, kind) = ReadAs(Append(vs, v), u)
      BY <1>3, Zenon DEF OneMore
<1>5. PICK d : d = FieldWritten(kind, v)  OBVIOUS
<1>6. kind \in Kinds /\ v \in Field  BY <1>2, AcceptedAreFields, Zenon
<1>7. d \in Seq(Byte)  BY <1>4, <1>5, <1>6, EveryKindBothWays, Zenon DEF Back
<1>8. PICK vs2 : vs2 = Append(vs, v)  OBVIOUS
<1>9. /\ vs2 \in Seq(Field) /\ Len(vs2) = i
      /\ \A j \in 1..k : vs2[j] = vs[j]
      /\ vs2[i] = v
      BY <1>1, <1>6, <1>8, AppendProperties
<1>10. PICK c2 : c2 = Append(c, d)  OBVIOUS
<1>11. /\ c2 \in Chunks /\ Len(c2) = i
       /\ \A j \in 1..k : c2[j] = c[j]
       /\ c2[i] = d
       BY <1>1, <1>7, <1>10, AppendProperties DEF Chunks
<1>12. r = Joined(c2) \o u
  <2>1. Joined(c2) = Joined(c) \o d  BY <1>7, <1>10, JoinedAppend
  <2>2. Joined(c) \in Seq(Byte)  BY JoinedType, Zenon
  <2>3. (Joined(c) \o d) \o u = Joined(c) \o (d \o u)  BY <1>7, <2>2, BytesAssociative, Zenon
  <2>. QED BY <1>1, <1>4, <1>5, <2>1, <2>3, Zenon
<1>13. ASSUME NEW j \in 1..i
       PROVE  vs2[j] \in Accepted(kinds[j]) /\ c2[j] = FieldWritten(kinds[j], vs2[j])
  <2>1. j \in 1..k \/ j = i  OBVIOUS
  <2>2. CASE j \in 1..k  BY <1>1, <1>9, <1>11, <2>2, Zenon
  <2>3. CASE j = i  BY <1>2, <1>4, <1>5, <1>9, <1>11, <2>3, Zenon
  <2>. QED BY <2>1, <2>2, <2>3
<1>14. ReadNext(list, kinds[i]) = ReadAs(vs2, u)  BY <1>2, <1>4, <1>8, Zenon
<1>. QED BY <1>9, <1>11, <1>12, <1>13, <1>14, Zenon DEF AfterFields

(* Fields that are read are sendable and were written so.                  *)
LEMMA FieldsForm ==
    ASSUME NEW kinds \in Seq(Kinds), NEW r \in Seq(Byte), ReadAll(kinds, r) # Truncated
    PROVE  \E vs, t : /\ Sendable(kinds, vs) /\ t \in Seq(Byte)
                      /\ FieldsWritten(kinds, vs) \in Seq(Byte)
                      /\ r = FieldsWritten(kinds, vs) \o t
                      /\ ReadAll(kinds, r) = ReadAs(vs, t)
<1>0. PICK n : n = Len(kinds)  OBVIOUS
<1>1. n \in Nat /\ \A i \in 1..n : kinds[i] \in Kinds  BY <1>0, ElementOfSeq
<1>2. PICK list : ReadSteps(list, kinds, r) /\ ReadAll(kinds, r) = list[Len(kinds)]
      BY ReadAllSteps, Zenon
<1>3. /\ list[0] = ReadAs(<<>>, r)
      /\ \A i \in 1..n : list[i] = ReadNext(list[i - 1], kinds[i])
      BY <1>0, <1>2, Zenon DEF ReadSteps
<1>. DEFINE T == {i \in 0..n : list[i] = Truncated \/ AfterFields(kinds, r, list[i], i)}
<1>4. 0 \in T
  <2>1. <<>> \in Seq(Field) /\ <<>> \in Chunks /\ Len(<<>>) = 0 /\ \A j \in 1..0 : FALSE
        BY DEF Chunks
  <2>2. Joined(<<>>) = <<>>  BY <2>1, JoinedEmpty, Zenon
  <2>3. r = Joined(<<>>) \o r  BY <2>2, ConcatEmptySeq
  <2>4. AfterFields(kinds, r, list[0], 0)  BY <1>3, <2>1, <2>3, Zenon DEF AfterFields
  <2>. QED BY <1>1, <2>4
<1>5. ASSUME NEW k \in 0..n - 1, k \in T PROVE k + 1 \in T
  <2>1. PICK i : i = k + 1  OBVIOUS
  <2>2. i \in 1..n /\ i \in 0..n /\ i - 1 = k /\ k \in Nat  BY <1>1, <2>1
  <2>3. list[i] = ReadNext(list[k], kinds[i]) /\ kinds[i] \in Kinds  BY <1>1, <1>3, <2>2
  <2>4. CASE list[k] = Truncated
    <3>1. list[i] = Truncated  BY <2>3, <2>4, ReadNextOf, Zenon
    <3>. QED BY <2>1, <2>2, <3>1
  <2>5. CASE AfterFields(kinds, r, list[k], k) /\ list[i] # Truncated
    <3>1. AfterFields(kinds, r, ReadNext(list[k], kinds[i]), i)
          BY <2>1, <2>2, <2>3, <2>5, AfterNextField
    <3>. QED BY <2>1, <2>2, <2>3, <3>1
  <2>6. CASE list[i] = Truncated  BY <2>1, <2>2, <2>6
  <2>. QED BY <1>5, <2>4, <2>5, <2>6
<1>. HIDE DEF T
<1>6. 0..n \subseteq T  BY <1>1, <1>4, <1>5, BoundedInduction
<1>7. n \in 0..n  BY <1>1
<1>8. AfterFields(kinds, r, list[n], n)
  <2>1. list[n] # Truncated  BY <1>0, <1>2
  <2>. QED BY <1>6, <1>7, <2>1 DEF T
<1>9. PICK vs \in Seq(Field), c \in Chunks, t \in Seq(Byte) :
          /\ Len(vs) = n /\ Len(c) = n
          /\ \A j \in 1..n : vs[j] \in Accepted(kinds[j]) /\ c[j] = FieldWritten(kinds[j], vs[j])
          /\ r = Joined(c) \o t
          /\ list[n] = ReadAs(vs, t)
      BY <1>8, Zenon DEF AfterFields
<1>10. Sendable(kinds, vs)
  <2>1. IsList(vs)
    <3>1. Len(vs) \in Nat /\ vs = [i \in 1..Len(vs) |-> vs[i]]  OBVIOUS
    <3>. QED BY <3>1, Zenon DEF IsList
  <2>. QED BY <1>0, <1>9, <2>1, Zenon DEF Sendable
<1>11. FieldsWritten(kinds, vs) = Joined(c)
  <2>1. PICK d \in Chunks : /\ Len(d) = n
                            /\ \A i \in 1..n : d[i] = FieldWritten(kinds[i], vs[i])
                            /\ FieldsWritten(kinds, vs) = Joined(d)
        BY <1>0, <1>9, FieldChunks
  <2>2. \A i \in 1..n : d[i] = c[i]  BY <1>9, <2>1
  <2>3. d = c  BY <1>9, <2>1, <2>2, SeqEqual DEF Chunks
  <2>. QED BY <2>1, <2>3
<1>12. Joined(c) \in Seq(Byte)  BY JoinedType, Zenon
<1>. QED BY <1>0, <1>2, <1>9, <1>10, <1>11, <1>12, Zenon

------------------------------------------------------------------------------
(* A record.                                                               *)

RecordValues == Int \X Seq(Field)

SendableRecord(rec) == IsRecord(rec) /\ RecordWritable(rec)

(* A record's fields are of these kinds, whatever its id.                  *)
LEMMA RecordKinds == \A id : RecordSchema(id) \in Seq(Kinds)
<1>1. <<"string16">> \in Seq(Kinds)  BY DEF Kinds
<1>2. <<"u8", "u8", "u8", "u8", "u32", "string16">> \in Seq(Kinds)  BY DEF Kinds, ByteKinds
<1>. QED BY <1>1, <1>2 DEF RecordSchema

(* The ids a byte stands for, and the bytes of the ids that are written.   *)
LEMMA AreaIds ==
    /\ \A b \in Byte : AreaId(b) \in Int /\ AreaId(b) % 256 = b
    /\ \A id : AreaIdWritable(id) => id % 256 \in Byte /\ AreaId(id % 256) = id
<1>1. ASSUME NEW b \in Byte PROVE AreaId(b) \in Int /\ AreaId(b) % 256 = b
  <2>1. b \in 0..255  BY DEF Byte
  <2>. QED BY <2>1 DEF AreaId
<1>2. ASSUME NEW id, AreaIdWritable(id) PROVE id % 256 \in Byte /\ AreaId(id % 256) = id
  <2>1. id = -1 \/ id \in 0..127  BY <1>2 DEF AreaIdWritable
  <2>2. CASE id = -1
    <3>0. \A v \in -128..127 : v < 0 => v % 256 = v + 256  OBVIOUS
    <3>1. id \in -128..127 /\ id < 0 /\ id + 256 = 255  BY <2>2
    <3>2. id % 256 = 255  BY <3>0, <3>1
    <3>. QED BY <2>2, <3>2 DEF AreaId, Byte
  <2>3. CASE id \in 0..127
    <3>1. id % 256 = id /\ id # 255 /\ id \in 0..255  BY <2>3
    <3>. QED BY <3>1 DEF AreaId, Byte
  <2>. QED BY <2>1, <2>2, <2>3
<1>. QED BY <1>1, <1>2

(* A record is its id and the fields that the id asks for.                 *)
LEMMA RecordReads ==
    ASSUME NEW r
    PROVE  /\ ReadUnsigned(r, 1) = Truncated => ReadRecord(r) = Truncated
           /\ \A b, u : ReadUnsigned(r, 1) = ReadAs(b, u) =>
                 /\ ReadAll(RecordSchema(AreaId(b)), u) = Truncated => ReadRecord(r) = Truncated
                 /\ \A vs, t : ReadAll(RecordSchema(AreaId(b)), u) = ReadAs(vs, t) =>
                       ReadRecord(r) = ReadAs(<<AreaId(b), vs>>, t)
<1>1. ASSUME ReadUnsigned(r, 1) = Truncated PROVE ReadRecord(r) = Truncated
      BY <1>1, ReadParts, Zenon DEF ReadRecord
<1>2. ASSUME NEW b, NEW u, ReadUnsigned(r, 1) = ReadAs(b, u)
      PROVE  /\ ReadAll(RecordSchema(AreaId(b)), u) = Truncated => ReadRecord(r) = Truncated
             /\ \A vs, t : ReadAll(RecordSchema(AreaId(b)), u) = ReadAs(vs, t) =>
                   ReadRecord(r) = ReadAs(<<AreaId(b), vs>>, t)
  <2>1. PICK raw : raw = ReadUnsigned(r, 1)  OBVIOUS
  <2>2. raw.ok /\ raw.value = b /\ raw.rest = u
    <3>1. ReadAs(b, u).ok /\ ReadAs(b, u).value = b /\ ReadAs(b, u).rest = u  BY ReadParts, Zenon
    <3>. QED BY <1>2, <2>1, <3>1, Zenon
  <2>3. PICK f : f = ReadAll(RecordSchema(AreaId(b)), u)  OBVIOUS
  <2>4. ReadRecord(r) = IF f.ok THEN ReadAs(<<AreaId(b), f.value>>, f.rest) ELSE Truncated
        BY <2>1, <2>2, <2>3 DEF ReadRecord
  <2>5. ASSUME f = Truncated PROVE ReadRecord(r) = Truncated
        BY <2>4, <2>5, ReadParts, Zenon
  <2>6. ASSUME NEW vs, NEW t, f = ReadAs(vs, t)
        PROVE  ReadRecord(r) = ReadAs(<<AreaId(b), vs>>, t)
    <3>1. f.ok /\ f.value = vs /\ f.rest = t  BY <2>6, ReadParts, Zenon
    <3>. QED BY <2>4, <3>1
  <2>. QED BY <2>3, <2>5, <2>6, Zenon
<1>. QED BY <1>1, <1>2, Zenon

(* A record that may be sent is read back, and is a byte at least.         *)
LEMMA RecordBack ==
    ASSUME NEW rec, SendableRecord(rec), NEW t \in Seq(Byte)
    PROVE  /\ RecordWritten(rec) \in Seq(Byte)
           /\ Len(RecordWritten(rec)) >= 1
           /\ ReadRecord(RecordWritten(rec) \o t) = ReadAs(rec, t)
<1>1. PICK id : id = rec[1]  OBVIOUS
<1>2. PICK vs : vs = rec[2]  OBVIOUS
<1>3. PICK kinds : kinds = RecordSchema(id)  OBVIOUS
<1>4. rec = <<id, vs>> /\ Typed(kinds, vs) /\ AreaIdWritable(id) /\ FieldsWritable(kinds, vs)
      BY <1>1, <1>2, <1>3, Zenon DEF SendableRecord, IsRecord, RecordWritable
<1>5. kinds \in Seq(Kinds) /\ Sendable(kinds, vs)  BY <1>3, <1>4, RecordKinds, SendableIs, Zenon
<1>6. PICK b : b = id % 256  OBVIOUS
<1>7. b \in Byte /\ AreaId(b) = id  BY <1>4, <1>6, AreaIds, Zenon
<1>8. PICK w : w = FieldsWritten(kinds, vs)  OBVIOUS
<1>9. w \in Seq(Byte) /\ ReadAll(kinds, w \o t) = ReadAs(vs, t)  BY <1>5, <1>8, FieldsBack
<1>10. RecordWritten(rec) = <<b>> \o w  BY <1>1, <1>2, <1>3, <1>6, <1>8, Zenon DEF RecordWritten
<1>11. <<b>> \in Seq(Byte) /\ Len(<<b>>) = 1  BY <1>7
<1>12. <<b>> \o w \in Seq(Byte) /\ (<<b>> \o w) \o t = <<b>> \o (w \o t) /\ w \o t \in Seq(Byte)
       BY <1>9, <1>11, LengthFirst, Zenon
<1>13. Len(<<b>> \o w) >= 1
  <2>1. Len(<<b>> \o w) = Len(<<b>>) + Len(w)  BY <1>9, <1>11, BytesConcatenation, Zenon
  <2>2. Len(w) \in Nat  BY <1>9
  <2>. QED BY <1>11, <2>1, <2>2
<1>14. PICK g : g = w \o t  OBVIOUS
<1>15. PICK r : r = <<b>> \o g  OBVIOUS
<1>16. ReadUnsigned(r, 1) = ReadAs(b, g)  BY <1>7, <1>12, <1>14, <1>15, ReadByteBack, Zenon
<1>17. ReadAll(RecordSchema(AreaId(b)), g) = ReadAs(vs, t)  BY <1>3, <1>7, <1>9, <1>14
<1>18. ReadRecord(r) = ReadAs(<<AreaId(b), vs>>, t)
  <2>1. \A b2, u : ReadUnsigned(r, 1) = ReadAs(b2, u) =>
            \A vs2, t2 : ReadAll(RecordSchema(AreaId(b2)), u) = ReadAs(vs2, t2) =>
                ReadRecord(r) = ReadAs(<<AreaId(b2), vs2>>, t2)
        BY RecordReads
  <2>. QED BY <1>16, <1>17, <2>1, Zenon
<1>. QED BY <1>4, <1>7, <1>10, <1>12, <1>13, <1>14, <1>15, <1>18, Zenon

(* A record that is read was written so.                                   *)
ReadFrom(r, rec, t) ==
    /\ RecordWritten(rec) \in Seq(Byte)
    /\ r = RecordWritten(rec) \o t
    /\ ReadRecord(r) = ReadAs(rec, t)

(* And every record that is read, at the front of what is there.           *)
LEMMA RecordForm ==
    ASSUME NEW r \in Seq(Byte), ReadRecord(r) # Truncated
    PROVE  \E rec \in RecordValues, t \in Seq(Byte) : ReadFrom(r, rec, t)
<1>1. ReadUnsigned(r, 1) # Truncated  BY RecordReads
<1>2. PICK b \in Byte, u \in Seq(Byte) : r = <<b>> \o u /\ ReadUnsigned(r, 1) = ReadAs(b, u)
      BY <1>1, ReadByteForm, Zenon
<1>3. PICK id : id = AreaId(b)  OBVIOUS
<1>4. PICK kinds : kinds = RecordSchema(id)  OBVIOUS
<1>5. kinds \in Seq(Kinds) /\ id \in Int /\ id % 256 = b  BY <1>3, <1>4, RecordKinds, AreaIds, Zenon
<1>6. ReadAll(kinds, u) # Truncated  BY <1>2, <1>3, <1>4, RecordReads
<1>7. PICK vs, t : /\ Sendable(kinds, vs) /\ t \in Seq(Byte)
                   /\ FieldsWritten(kinds, vs) \in Seq(Byte)
                   /\ u = FieldsWritten(kinds, vs) \o t
                   /\ ReadAll(kinds, u) = ReadAs(vs, t)
      BY <1>5, <1>6, FieldsForm
<1>8. PICK rec : rec = <<id, vs>>  OBVIOUS
<1>9. rec[1] = id /\ rec[2] = vs  BY <1>8
<1>10. ReadRecord(r) = ReadAs(rec, t)
  <2>1. \A vs2, t2 : ReadAll(RecordSchema(AreaId(b)), u) = ReadAs(vs2, t2) =>
            ReadRecord(r) = ReadAs(<<AreaId(b), vs2>>, t2)
        BY <1>2, RecordReads
  <2>. QED BY <1>3, <1>4, <1>7, <1>8, <2>1, Zenon
<1>11. PICK w : w = FieldsWritten(kinds, vs)  OBVIOUS
<1>12. RecordWritten(rec) = <<b>> \o w  BY <1>4, <1>5, <1>9, <1>11, Zenon DEF RecordWritten
<1>13. w \in Seq(Byte) /\ u = w \o t  BY <1>7, <1>11, Zenon
<1>14. <<b>> \in Seq(Byte)  OBVIOUS
<1>15. <<b>> \o w \in Seq(Byte) /\ (<<b>> \o w) \o t = <<b>> \o (w \o t)
       BY <1>7, <1>13, <1>14, LengthFirst, Zenon
<1>16. ReadFrom(r, rec, t)  BY <1>2, <1>10, <1>12, <1>13, <1>15, Zenon DEF ReadFrom
<1>17. rec \in RecordValues
  <2>1. PICK n : n = Len(kinds)  OBVIOUS
  <2>2. n \in Nat /\ \A i \in 1..n : kinds[i] \in Kinds  BY <1>5, <2>1, ElementOfSeq
  <2>3. /\ Len(vs) = n /\ vs = [i \in 1..Len(vs) |-> vs[i]]
        /\ \A i \in 1..n : vs[i] \in Accepted(kinds[i])
        BY <1>7, <2>1, Zenon DEF Sendable, IsList
  <2>4. \A i \in 1..n : vs[i] \in Field  BY <2>2, <2>3, AcceptedAreFields, Zenon
  <2>5. vs \in [1..n -> Field]  BY <2>3, <2>4
  <2>6. vs \in Seq(Field)  BY <2>2, <2>5, FunctionIsSequence, Zenon
  <2>. QED BY <1>5, <1>8, <2>6 DEF RecordValues
<1>. QED BY <1>7, <1>16, <1>17, Zenon

------------------------------------------------------------------------------
(* The list of records, to the payload's end.                              *)

(* What is known of a list of records: what it was read from.              *)
AfterRecords(r, state) ==
    \E recs \in Seq(RecordValues), c \in Chunks, t \in Seq(Byte) :
        /\ Len(recs) = Len(c)
        /\ \A j \in 1..Len(c) : c[j] = RecordWritten(recs[j])
        /\ r = Joined(c) \o t
        /\ state = ReadAs(recs, t)

(* The next record is behind the last, and at the end there is none.       *)
LEMMA NextRecordOf ==
    /\ NextRecord(Truncated) = Truncated
    /\ \A vs : NextRecord(ReadAs(vs, <<>>)) = ReadAs(vs, <<>>)
    /\ \A vs, r : r # <<>> => NextRecord(ReadAs(vs, r)) = Then(ReadAs(vs, r), ReadRecord(r))
<1>1. NextRecord(Truncated) = Truncated  BY ReadParts, Zenon DEF NextRecord
<1>2. ASSUME NEW vs PROVE NextRecord(ReadAs(vs, <<>>)) = ReadAs(vs, <<>>)
  <2>1. PICK l : l = ReadAs(vs, <<>>)  OBVIOUS
  <2>2. l.rest = <<>>  BY <2>1, ReadParts, Zenon
  <2>. QED BY <2>1, <2>2, Zenon DEF NextRecord
<1>3. ASSUME NEW vs, NEW r, r # <<>>
      PROVE  NextRecord(ReadAs(vs, r)) = Then(ReadAs(vs, r), ReadRecord(r))
  <2>1. PICK l : l = ReadAs(vs, r)  OBVIOUS
  <2>2. l.rest = r  BY <2>1, ReadParts, Zenon
  <2>3. NextRecord(l) = Then(l, ReadRecord(l.rest))  BY <1>3, <2>2, Zenon DEF NextRecord
  <2>. QED BY <2>1, <2>2, <2>3, Zenon
<1>. QED BY <1>1, <1>2, <1>3, Zenon

(* The next record, or the end, keeps it.                                  *)
LEMMA AfterNextRecord ==
    ASSUME NEW r \in Seq(Byte), NEW list, AfterRecords(r, list), NextRecord(list) # Truncated
    PROVE  AfterRecords(r, NextRecord(list))
<1>1. PICK recs \in Seq(RecordValues), c \in Chunks, t \in Seq(Byte) :
          /\ Len(recs) = Len(c)
          /\ \A j \in 1..Len(c) : c[j] = RecordWritten(recs[j])
          /\ r = Joined(c) \o t
          /\ list = ReadAs(recs, t)
      BY Zenon DEF AfterRecords
<1>2. CASE t = <<>>
  <2>1. NextRecord(ReadAs(recs, <<>>)) = ReadAs(recs, <<>>)  BY NextRecordOf, Zenon
  <2>2. NextRecord(list) = list  BY <1>1, <1>2, <2>1, Zenon
  <2>. QED BY <2>2, Zenon
<1>3. CASE t # <<>>
  <2>1. NextRecord(list) = Then(ReadAs(recs, t), ReadRecord(t))  BY <1>1, <1>3, NextRecordOf, Zenon
  <2>2. ReadRecord(t) # Truncated
    <3>1. Then(ReadAs(recs, t), Truncated) = Truncated  BY ThenReads, Zenon
    <3>. QED BY <2>1, <3>1, Zenon
  <2>3. PICK rec \in RecordValues, u \in Seq(Byte) : ReadFrom(t, rec, u)
        BY <2>2, RecordForm
  <2>4. PICK d : d = RecordWritten(rec)  OBVIOUS
  <2>5. d \in Seq(Byte) /\ t = d \o u /\ ReadRecord(t) = ReadAs(rec, u)
        BY <2>3, <2>4, Zenon DEF ReadFrom
  <2>6. Then(ReadAs(recs, t), ReadAs(rec, u)) = ReadAs(Append(recs, rec), u)  BY ThenAppends
  <2>7. PICK k : k = Len(c)  OBVIOUS
  <2>8. PICK recs2 : recs2 = Append(recs, rec)  OBVIOUS
  <2>9. PICK c2 : c2 = Append(c, d)  OBVIOUS
  <2>10. /\ recs2 \in Seq(RecordValues) /\ Len(recs2) = k + 1
         /\ \A j \in 1..k : recs2[j] = recs[j]
         /\ recs2[k + 1] = rec
         BY <1>1, <2>7, <2>8, AppendProperties
  <2>11. /\ c2 \in Chunks /\ Len(c2) = k + 1
         /\ \A j \in 1..k : c2[j] = c[j]
         /\ c2[k + 1] = d
         BY <2>5, <2>7, <2>9, AppendProperties DEF Chunks
  <2>12. ASSUME NEW j \in 1..k + 1 PROVE c2[j] = RecordWritten(recs2[j])
    <3>1. k \in Nat  BY <2>7 DEF Chunks
    <3>2. j \in 1..k \/ j = k + 1  BY <3>1
    <3>3. CASE j \in 1..k  BY <1>1, <2>7, <2>10, <2>11, <3>3, Zenon
    <3>4. CASE j = k + 1  BY <2>4, <2>10, <2>11, <3>4, Zenon
    <3>. QED BY <3>2, <3>3, <3>4
  <2>13. r = Joined(c2) \o u
    <3>1. Joined(c2) = Joined(c) \o d  BY <2>5, <2>9, JoinedAppend
    <3>2. Joined(c) \in Seq(Byte)  BY JoinedType, Zenon
    <3>3. (Joined(c) \o d) \o u = Joined(c) \o (d \o u)  BY <2>5, <3>2, BytesAssociative, Zenon
    <3>. QED BY <1>1, <2>5, <3>1, <3>3, Zenon
  <2>14. NextRecord(list) = ReadAs(recs2, u)  BY <2>1, <2>5, <2>6, <2>8, Zenon
  <2>15. Len(recs2) = Len(c2) /\ \A j \in 1..Len(c2) : c2[j] = RecordWritten(recs2[j])
         BY <2>10, <2>11, <2>12, Zenon
  <2>. QED BY <2>10, <2>11, <2>13, <2>14, <2>15, Zenon DEF AfterRecords
<1>. QED BY <1>2, <1>3

(* The records are read one after the other.                               *)
RecordSteps(list, r) ==
    /\ list[0] = ReadAs(<<>>, r)
    /\ \A i \in 1..Len(r) : list[i] = NextRecord(list[i - 1])

(* A state of the list of records read from r.                             *)
RecordStates(r) == {Truncated} \cup {s \in Lists(RecordValues) : AfterRecords(r, s)}

(* The empty list is such a state,                                         *)
LEMMA FirstRecordState == \A r \in Seq(Byte) : ReadAs(<<>>, r) \in RecordStates(r)
<1>. SUFFICES ASSUME NEW r \in Seq(Byte) PROVE ReadAs(<<>>, r) \in RecordStates(r)
     BY Zenon
<1>1. <<>> \in Seq(RecordValues) /\ <<>> \in Chunks /\ Len(<<>>) = 0 /\ \A j \in 1..0 : FALSE
      BY DEF Chunks
<1>2. Joined(<<>>) = <<>>  BY <1>1, JoinedEmpty, Zenon
<1>3. r = Joined(<<>>) \o r  BY <1>2, ConcatEmptySeq
<1>4. AfterRecords(r, ReadAs(<<>>, r))  BY <1>1, <1>3, Zenon DEF AfterRecords
<1>5. ReadAs(<<>>, r) \in Lists(RecordValues)  BY <1>1, ListsMembers, Zenon
<1>. QED BY <1>4, <1>5 DEF RecordStates

(* and the next record leads to another.                                   *)
LEMMA NextRecordState ==
    \A r \in Seq(Byte) : \A s \in RecordStates(r) : NextRecord(s) \in RecordStates(r)
<1>. SUFFICES ASSUME NEW r \in Seq(Byte), NEW s \in RecordStates(r), NextRecord(s) # Truncated
              PROVE  NextRecord(s) \in RecordStates(r)
     BY DEF RecordStates
<1>1. s # Truncated  BY NextRecordOf, Zenon
<1>2. AfterRecords(r, s)  BY <1>1 DEF RecordStates
<1>3. AfterRecords(r, NextRecord(s))  BY <1>2, AfterNextRecord
<1>4. NextRecord(s) \in Lists(RecordValues)  BY <1>3, ListsMembers, Zenon DEF AfterRecords
<1>. QED BY <1>3, <1>4 DEF RecordStates

(* There are such steps, and ReadRecords returns what the last one does.   *)
LEMMA ReadRecordsSteps ==
    \A r \in Seq(Byte) :
        \E list : /\ RecordSteps(list, r) /\ ReadRecords(r) = list[Len(r)]
                  /\ ReadRecords(r) \in RecordStates(r)
<1>. SUFFICES ASSUME NEW r \in Seq(Byte)
              PROVE  \E list : /\ RecordSteps(list, r) /\ ReadRecords(r) = list[Len(r)]
                               /\ ReadRecords(r) \in RecordStates(r)
     BY Zenon
<1>0. PICK n : n = Len(r)  OBVIOUS
<1>1. n \in Nat  BY <1>0
<1>. DEFINE S == RecordStates(r)
            a == ReadAs(<<>>, r)
            step == [x \in S \X (1..n) |-> NextRecord(x[1])]
            P(g) == g = [i \in 0..n |-> IF i = 0 THEN ReadAs(<<>>, r) ELSE NextRecord(g[i - 1])]
<1>2. a \in S  BY FirstRecordState, Zenon
<1>3. \A b \in S, i \in 1..n : NextRecord(b) \in S  BY NextRecordState, Zenon
<1>. HIDE DEF S, a
<1>4. step \in [S \X (1..n) -> S] /\ \A b \in S, i \in 1..n : step[<<b, i>>] = NextRecord(b)
      BY <1>3
<1>. HIDE DEF step
<1>5. PICK g \in [0..n -> S] : g[0] = a /\ \A i \in 1..n : g[i] = step[<<g[i - 1], i>>]
  <2>1. PICK g : Recurs(g, S, n, a, step)  BY <1>1, <1>2, <1>4, RecursionUpTo, Zenon
  <2>. QED BY <2>1, Zenon DEF Recurs
<1>6. P(g)
  <2>1. ASSUME NEW i \in 0..n
        PROVE  g[i] = IF i = 0 THEN ReadAs(<<>>, r) ELSE NextRecord(g[i - 1])
    <3>1. CASE i = 0  BY <1>5, <3>1 DEF a
    <3>2. CASE i # 0
      <4>1. i \in 1..n /\ i - 1 \in 0..n  BY <1>1, <3>2
      <4>2. g[i - 1] \in S /\ g[i] = step[<<g[i - 1], i>>]  BY <1>5, <4>1
      <4>3. g[i] = NextRecord(g[i - 1])  BY <1>4, <4>1, <4>2, Zenon
      <4>. QED BY <3>2, <4>3, Zenon
    <3>. QED BY <3>1, <3>2
  <2>. QED BY <1>5, <2>1
<1>. DEFINE h == CHOOSE z : P(z)
<1>7. P(h)  BY <1>6, Zenon
<1>8. ReadRecords(r) = h[n]  BY <1>0, Zenon DEF ReadRecords
<1>. HIDE DEF h
<1>9. RecordSteps(h, r)
  <2>1. \A i \in 0..n : h[i] = IF i = 0 THEN ReadAs(<<>>, r) ELSE NextRecord(h[i - 1])
        BY <1>7
  <2>2. 0 \in 0..n /\ \A i \in 1..n : i \in 0..n /\ i # 0  BY <1>1
  <2>3. h[0] = ReadAs(<<>>, r)  BY <2>1, <2>2, Zenon
  <2>4. \A i \in 1..n : h[i] = NextRecord(h[i - 1])  BY <2>1, <2>2, Zenon
  <2>. QED BY <1>0, <2>3, <2>4, Zenon DEF RecordSteps
<1>10. h[n] \in S
  <2>. DEFINE T == {i \in 0..n : h[i] \in S}
  <2>1. h[0] = a /\ \A i \in 1..n : h[i] = NextRecord(h[i - 1])
        BY <1>0, <1>9, Zenon DEF RecordSteps, a
  <2>2. 0 \in T  BY <1>1, <1>2, <2>1
  <2>3. ASSUME NEW k \in 0..n - 1, k \in T PROVE k + 1 \in T
    <3>1. k + 1 \in 1..n /\ (k + 1) - 1 = k /\ k + 1 \in 0..n  BY <1>1
    <3>2. h[k + 1] = NextRecord(h[k]) /\ h[k] \in S  BY <2>1, <2>3, <3>1
    <3>. QED BY <1>3, <3>1, <3>2
  <2>. HIDE DEF T
  <2>4. 0..n \subseteq T  BY <1>1, <2>2, <2>3, BoundedInduction
  <2>5. n \in 0..n  BY <1>1
  <2>. QED BY <2>4, <2>5 DEF T
<1>. QED BY <1>0, <1>8, <1>9, <1>10, Zenon DEF S

(* A list of records that is read to the end was written so.               *)
LEMMA RecordsForm ==
    ASSUME NEW r \in Seq(Byte), Finished(ReadRecords(r)) # Truncated
    PROVE  \E recs : /\ IsList(recs)
                     /\ r = RecordsWritten(recs)
                     /\ ReadRecords(r) = ReadAs(recs, <<>>)
<1>1. PICK s : s = ReadRecords(r)  OBVIOUS
<1>2. s \in RecordStates(r)
  <2>1. PICK list : ReadRecords(r) \in RecordStates(r)  BY ReadRecordsSteps, Zenon
  <2>. QED BY <1>1, <2>1
<1>3. s # Truncated /\ s.rest = <<>>
  <2>1. Finished(s) # Truncated  BY <1>1
  <2>. QED BY <2>1, Zenon DEF Finished
<1>4. AfterRecords(r, s)  BY <1>2, <1>3 DEF RecordStates
<1>5. PICK recs \in Seq(RecordValues), c \in Chunks, t \in Seq(Byte) :
          /\ Len(recs) = Len(c)
          /\ \A j \in 1..Len(c) : c[j] = RecordWritten(recs[j])
          /\ r = Joined(c) \o t
          /\ s = ReadAs(recs, t)
      BY <1>4, Zenon DEF AfterRecords
<1>6. t = <<>>
  <2>1. s.rest = t  BY <1>5, ReadParts, Zenon
  <2>. QED BY <1>3, <2>1
<1>7. r = Joined(c)
  <2>1. Joined(c) \in Seq(Byte)  BY JoinedType, Zenon
  <2>. QED BY <1>5, <1>6, <2>1, ConcatEmptySeq
<1>8. Len(recs) \in Nat /\ recs = [i \in 1..Len(recs) |-> recs[i]]  OBVIOUS
<1>9. c = [i \in 1..Len(recs) |-> RecordWritten(recs[i])]
  <2>1. c = [i \in 1..Len(c) |-> c[i]]  BY DEF Chunks
  <2>. QED BY <1>5, <2>1
<1>10. RecordsWritten(recs) = Joined(c)  BY <1>9, Zenon DEF RecordsWritten
<1>. QED BY <1>1, <1>5, <1>6, <1>7, <1>8, <1>10, Zenon DEF IsList

(* The chunks that the records are written as, none of them empty.         *)
LEMMA RecordChunks ==
    ASSUME NEW recs, IsList(recs), NEW n, n = Len(recs),
           \A i \in 1..n : SendableRecord(recs[i])
    PROVE  \E c \in Chunks : /\ Len(c) = n
                             /\ \A i \in 1..n : c[i] = RecordWritten(recs[i]) /\ Len(c[i]) >= 1
                             /\ RecordsWritten(recs) = Joined(c)
<1>1. n \in Nat  BY Zenon DEF IsList
<1>2. PICK c : c = [i \in 1..Len(recs) |-> RecordWritten(recs[i])]  OBVIOUS
<1>3. ASSUME NEW i \in 1..n
      PROVE  RecordWritten(recs[i]) \in Seq(Byte) /\ Len(RecordWritten(recs[i])) >= 1
  <2>1. <<>> \in Seq(Byte)  OBVIOUS
  <2>2. PICK rec : rec = recs[i]  OBVIOUS
  <2>3. SendableRecord(rec)  BY <2>2
  <2>4. RecordWritten(rec) \in Seq(Byte) /\ Len(RecordWritten(rec)) >= 1  BY <2>1, <2>3, RecordBack
  <2>. QED BY <2>2, <2>4
<1>4. c \in [1..n -> Seq(Byte)] /\ \A i \in 1..n : c[i] = RecordWritten(recs[i])
      BY <1>2, <1>3
<1>5. c \in Chunks /\ Len(c) = n  BY <1>1, <1>4, FunctionIsSequence, Zenon DEF Chunks
<1>6. RecordsWritten(recs) = Joined(c)  BY <1>2, Zenon DEF RecordsWritten
<1>. QED BY <1>3, <1>4, <1>5, <1>6

(* Bytes of n chunks that are not empty are n at least.                    *)
LEMMA JoinedLength ==
    ASSUME NEW c \in Chunks, NEW n, n = Len(c), \A i \in 1..n : Len(c[i]) >= 1
    PROVE  Len(Joined(c)) >= n
<1>1. PICK rem : Suffixes(c, rem)  BY JoinedSuffixes, Zenon
<1>2. /\ rem \in [0..n -> Seq(Byte)]
      /\ rem[n] = <<>> /\ rem[0] = Joined(c)
      /\ \A i \in 1..n : rem[i - 1] = c[i] \o rem[i]
      BY <1>1, Zenon DEF Suffixes
<1>3. n \in Nat /\ \A i \in 1..n : c[i] \in Seq(Byte)
  <2>1. n \in Nat  BY DEF Chunks
  <2>2. \A i \in 1..Len(c) : c[i] \in Seq(Byte)  BY ElementOfSeq DEF Chunks
  <2>. QED BY <2>1, <2>2
<1>. DEFINE T == {k \in 0..n : Len(rem[n - k]) >= k}
<1>4. 0 \in T
  <2>1. 0 \in 0..n /\ n - 0 = n /\ Len(<<>>) = 0  BY <1>3
  <2>. QED BY <1>2, <2>1
<1>5. ASSUME NEW k \in 0..n - 1, k \in T PROVE k + 1 \in T
  <2>1. PICK i : i = n - k  OBVIOUS
  <2>2. i \in 1..n /\ i \in 0..n /\ i - 1 = n - (k + 1) /\ k + 1 \in 0..n  BY <1>3, <2>1
  <2>3. PICK d : d = c[i]  OBVIOUS
  <2>4. PICK u : u = rem[i]  OBVIOUS
  <2>5. PICK w : w = rem[i - 1]  OBVIOUS
  <2>6. d \in Seq(Byte) /\ u \in Seq(Byte) /\ w = d \o u /\ k \in Int
    <3>1. d \in Seq(Byte)  BY <1>3, <2>2, <2>3
    <3>2. u \in Seq(Byte)  BY <1>2, <2>2, <2>4
    <3>3. w = d \o u  BY <1>2, <2>2, <2>3, <2>4, <2>5
    <3>4. k \in Int  BY <1>3
    <3>. QED BY <3>1, <3>2, <3>3, <3>4
  <2>8. Len(w) = Len(d) + Len(u)  BY <2>6, BytesConcatenation, Zenon
  <2>9. Len(u) >= k /\ Len(d) >= 1  BY <1>5, <2>1, <2>2, <2>3, <2>4
  <2>10. Len(d) \in Nat /\ Len(u) \in Nat  BY <2>6
  <2>11. Len(w) >= k + 1  BY <2>6, <2>8, <2>9, <2>10
  <2>7. Len(rem[n - (k + 1)]) >= k + 1  BY <2>2, <2>5, <2>11
  <2>. QED BY <2>2, <2>7
<1>. HIDE DEF T
<1>6. 0..n \subseteq T  BY <1>3, <1>4, <1>5, BoundedInduction
<1>7. n \in 0..n /\ n - n = 0  BY <1>3
<1>8. Len(rem[n - n]) >= n  BY <1>6, <1>7 DEF T
<1>. QED BY <1>2, <1>7, <1>8

(* Records that are written are read back, to the payload's end.           *)
LEMMA RecordsBack ==
    ASSUME NEW recs, IsList(recs), \A i \in 1..Len(recs) : SendableRecord(recs[i])
    PROVE  /\ RecordsWritten(recs) \in Seq(Byte)
           /\ ReadRecords(RecordsWritten(recs)) = ReadAs(recs, <<>>)
<1>0. PICK n : n = Len(recs)  OBVIOUS
<1>1. n \in Nat /\ \A i \in 1..n : SendableRecord(recs[i])  BY <1>0, Zenon DEF IsList
<1>3. PICK c \in Chunks : /\ Len(c) = n
                          /\ \A i \in 1..n : c[i] = RecordWritten(recs[i]) /\ Len(c[i]) >= 1
                          /\ RecordsWritten(recs) = Joined(c)
      BY <1>0, <1>1, RecordChunks
<1>4. PICK rem : Suffixes(c, rem)  BY JoinedSuffixes, Zenon
<1>5. /\ rem \in [0..n -> Seq(Byte)]
      /\ rem[n] = <<>> /\ rem[0] = Joined(c)
      /\ \A i \in 1..n : rem[i - 1] = c[i] \o rem[i]
      BY <1>3, <1>4, Zenon DEF Suffixes
<1>6. PICK r : r = Joined(c)  OBVIOUS
<1>7. PICK m : m = Len(r)  OBVIOUS
<1>8. r \in Seq(Byte) /\ m \in Nat /\ m >= n
  <2>1. Joined(c) \in Seq(Byte)  BY JoinedType, Zenon
  <2>2. Len(Joined(c)) >= n  BY <1>3, JoinedLength
  <2>. QED BY <1>6, <1>7, <2>1, <2>2
<1>10. PICK list : RecordSteps(list, r) /\ ReadRecords(r) = list[Len(r)]
       BY <1>8, ReadRecordsSteps, Zenon
<1>11. /\ list[0] = ReadAs(<<>>, r)
       /\ \A i \in 1..m : list[i] = NextRecord(list[i - 1])
       BY <1>7, <1>10, Zenon DEF RecordSteps
<1>. DEFINE Prefix(i) == [j \in 1..i |-> recs[j]]
            T == {i \in 0..n : list[i] = ReadAs(Prefix(i), rem[i])}
<1>12. 0 \in T
  <2>1. Prefix(0) = <<>> /\ 0 \in 0..n  BY <1>1
  <2>. QED BY <1>5, <1>6, <1>11, <2>1
<1>13. ASSUME NEW k \in 0..n - 1, k \in T PROVE k + 1 \in T
  <2>1. PICK i : i = k + 1  OBVIOUS
  <2>2. /\ i \in 1..n /\ i \in 0..n /\ i - 1 = k /\ k \in 0..n
        /\ i \in Nat /\ k \in Nat /\ i \in 1..m
        BY <1>1, <1>8, <2>1
  <2>3. PICK v : v = recs[i]  OBVIOUS
  <2>4. PICK u : u = rem[i]  OBVIOUS
  <2>5. PICK w : w = rem[k]  OBVIOUS
  <2>6. u \in Seq(Byte) /\ w = RecordWritten(v) \o u /\ SendableRecord(v)
        BY <1>1, <1>3, <1>5, <2>2, <2>3, <2>4, <2>5
  <2>7. /\ RecordWritten(v) \in Seq(Byte) /\ Len(RecordWritten(v)) >= 1
        /\ ReadRecord(w) = ReadAs(v, u)
        BY <2>6, RecordBack
  <2>8. w # <<>>
    <3>1. Len(w) = Len(RecordWritten(v)) + Len(u)  BY <2>6, <2>7, BytesConcatenation, Zenon
    <3>2. Len(u) \in Nat /\ Len(RecordWritten(v)) \in Nat  BY <2>6, <2>7
    <3>3. Len(w) >= 1  BY <2>7, <3>1, <3>2
    <3>. QED BY <3>3
  <2>9. list[i] = NextRecord(list[k])  BY <1>11, <2>2
  <2>10. PICK p : p = Prefix(k)  OBVIOUS
  <2>11. list[k] = ReadAs(p, w)  BY <1>13, <2>5, <2>10
  <2>. HIDE DEF Prefix
  <2>12. list[i] = Then(ReadAs(p, w), ReadAs(v, u))
         BY <2>7, <2>8, <2>9, <2>11, NextRecordOf, Zenon
  <2>13. list[i] = ReadAs(Append(p, v), u)  BY <2>12, ThenAppends
  <2>14. Append(p, v) = Prefix(i)  BY <2>1, <2>2, <2>3, <2>10, FirstAppend DEF Prefix
  <2>15. list[i] = ReadAs(Prefix(i), rem[i])  BY <2>4, <2>13, <2>14, Zenon
  <2>. QED BY <2>1, <2>2, <2>15
<1>. HIDE DEF T, Prefix
<1>14. 0..n \subseteq T  BY <1>1, <1>12, <1>13, BoundedInduction
<1>15. list[n] = ReadAs(recs, <<>>)
  <2>1. n \in 0..n  BY <1>1
  <2>2. list[n] = ReadAs(Prefix(n), rem[n])  BY <1>14, <2>1 DEF T
  <2>3. Prefix(n) = recs  BY <1>0, Zenon DEF Prefix, IsList
  <2>. QED BY <1>5, <2>2, <2>3, Zenon
<1>16. list[m] = ReadAs(recs, <<>>)
  <2>. DEFINE U == {k \in 0..m - n : list[n + k] = ReadAs(recs, <<>>)}
  <2>1. 0 \in U  BY <1>1, <1>8, <1>15
  <2>2. ASSUME NEW k \in 0..(m - n) - 1, k \in U PROVE k + 1 \in U
    <3>1. PICK i : i = n + (k + 1)  OBVIOUS
    <3>2. i \in 1..m /\ i - 1 = n + k /\ k + 1 \in 0..m - n  BY <1>1, <1>8, <3>1
    <3>3. list[i] = NextRecord(ReadAs(recs, <<>>))  BY <1>11, <2>2, <3>2
    <3>4. list[i] = ReadAs(recs, <<>>)  BY <3>3, NextRecordOf, Zenon
    <3>. QED BY <3>1, <3>2, <3>4
  <2>. HIDE DEF U
  <2>3. PICK d : d = m - n  OBVIOUS
  <2>4. d \in Nat /\ d \in 0..m - n /\ n + d = m  BY <1>1, <1>8, <2>3
  <2>5. 0..d \subseteq U
    <3>1. \A k \in 0..d - 1 : k \in U => k + 1 \in U  BY <2>2, <2>3
    <3>. QED BY <2>1, <2>4, <3>1, BoundedInduction
  <2>6. d \in U  BY <2>4, <2>5
  <2>. QED BY <2>4, <2>6 DEF U
<1>. QED BY <1>3, <1>6, <1>7, <1>8, <1>10, <1>16, Zenon

------------------------------------------------------------------------------
(* A message.                                                              *)

LEMMA SchemaKinds == \A class \in DOMAIN Schema : Schema[class] \in Seq(Kinds)
<1>. DEFINE K == Seq(Kinds)
<1>1. \A a, b, c, d \in Kinds : /\ <<a>> \in K /\ <<a, b>> \in K /\ <<a, b, c>> \in K
                               /\ <<a, b, c, d>> \in K
      OBVIOUS
<1>2. /\ "u8" \in Kinds /\ "zero8" \in Kinds /\ "not1" \in Kinds /\ "literal0" \in Kinds
      /\ "literal1" \in Kinds /\ "literal2" \in Kinds /\ "u16" \in Kinds /\ "u32" \in Kinds
      /\ "s8" \in Kinds /\ "string16" \in Kinds /\ "seed" \in Kinds /\ "blob32" \in Kinds
      BY DEF Kinds, ByteKinds
<1>. HIDE DEF K
<1>3. /\ HandshakeResponse \in K
      /\ ClientSessionRequest \in K
      /\ ClientTransportSync0 \in K
      /\ ServerTransportReset2 \in K
      /\ ClientPostResetStatus \in K
      BY <1>1, <1>2, Zenon DEF HandshakeResponse, ClientSessionRequest, ClientTransportSync0,
             ServerTransportReset2, ClientPostResetStatus
<1>4. /\ ClientPrelogin72 \in K
      /\ ServerPreloginStatus \in K
      /\ ClientU32B2 \in K
      /\ ClientC6Selection \in K
      /\ ServerSessionResponse \in K
      BY <1>1, <1>2, Zenon DEF ClientPrelogin72, ServerPreloginStatus, ClientU32B2,
             ClientC6Selection, ServerSessionResponse
<1>5. /\ BootstrapVersions \in K
      /\ ClientAreaRequest \in K
      /\ ServerAreaList \in K
      /\ ScreenBootstrapResponse \in K
      /\ ScreenResourceManifestResponse \in K
      BY <1>1, <1>2, Zenon DEF BootstrapVersions, ClientAreaRequest, ServerAreaList,
             ScreenBootstrapResponse, ScreenResourceManifestResponse
<1>6. /\ ScreenResourceItemResponse \in K
      /\ BootstrapDaResponse \in K
      /\ BootstrapE1Response \in K
      /\ BootstrapE0EmptyResponse \in K
      BY <1>1, <1>2, Zenon DEF ScreenResourceItemResponse, BootstrapDaResponse, BootstrapE1Response,
             BootstrapE0EmptyResponse
<1>7. \A class \in DOMAIN Schema : Schema[class] \in K
      BY <1>3, <1>4, <1>5, <1>6 DEF Schema
<1>. QED BY <1>7 DEF K

(* A class decodes its own command.                                        *)
LEMMA DecodersOfClasses ==
    \A class \in DOMAIN Schema : /\ DecodersFor(class) \subseteq DOMAIN Schema
                                 /\ class \in DecodersFor(class)
BY DEF Schema, DecodersFor, ScreenResponses

(* What a decoder returns: a message, or nothing of its class.             *)
Accepts(class, vs, recs) == [ok |-> TRUE, class |-> class, fields |-> vs, records |-> recs]

(* What ends with bytes left is an error.                                  *)
LEMMA FinishedReads ==
    /\ Finished(Truncated) = Truncated
    /\ \A vs : Finished(ReadAs(vs, <<>>)) = ReadAs(vs, <<>>)
    /\ \A s : Finished(s) # Truncated => s # Truncated /\ s.rest = <<>> /\ Finished(s) = s
<1>1. Finished(Truncated) = Truncated  BY ReadParts, Zenon DEF Finished
<1>2. ASSUME NEW vs PROVE Finished(ReadAs(vs, <<>>)) = ReadAs(vs, <<>>)
  <2>1. PICK s : s = ReadAs(vs, <<>>)  OBVIOUS
  <2>2. s.ok /\ s.rest = <<>>  BY <2>1, ReadParts, Zenon
  <2>3. Finished(s) = s  BY <2>2, Zenon DEF Finished
  <2>. QED BY <2>1, <2>3, Zenon
<1>3. ASSUME NEW s, Finished(s) # Truncated
      PROVE  s # Truncated /\ s.rest = <<>> /\ Finished(s) = s
  <2>1. s.ok /\ s.rest = <<>>  BY <1>3, Zenon DEF Finished
  <2>2. Finished(s) = s  BY <2>1, Zenon DEF Finished
  <2>. QED BY <1>3, <2>1, <2>2, Zenon
<1>. QED BY <1>1, <1>2, <1>3, Zenon

(* A decoder accepts when fields and records are read, to the end.         *)
LEMMA DecodedReads ==
    ASSUME NEW class, NEW bytes
    PROVE  /\ \A vs, t, recs : /\ ReadAll(Schema[class], bytes) = ReadAs(vs, t)
                               /\ Finished(RecordsOf(class, t)) = ReadAs(recs, <<>>)
                 => DecodedBy(class, bytes) = Accepts(class, vs, recs)
           /\ ReadAll(Schema[class], bytes) = Truncated =>
                  DecodedBy(class, bytes) = Rejected(class)
           /\ \A vs, t : /\ ReadAll(Schema[class], bytes) = ReadAs(vs, t)
                         /\ Finished(RecordsOf(class, t)) = Truncated
                 => DecodedBy(class, bytes) = Rejected(class)
<1>1. PICK f : f = ReadAll(Schema[class], bytes)  OBVIOUS
<1>2. PICK g : g = Finished(RecordsOf(class, f.rest))  OBVIOUS
<1>3. DecodedBy(class, bytes) =
          IF f.ok /\ g.ok
          THEN [ok |-> TRUE, class |-> class, fields |-> f.value, records |-> g.value]
          ELSE Rejected(class)
      BY <1>1, <1>2, Zenon DEF DecodedBy
<1>4. ASSUME NEW vs, NEW t, NEW recs, f = ReadAs(vs, t),
             Finished(RecordsOf(class, t)) = ReadAs(recs, <<>>)
      PROVE  DecodedBy(class, bytes) = Accepts(class, vs, recs)
  <2>1. f.ok /\ f.value = vs /\ f.rest = t  BY <1>4, ReadParts, Zenon
  <2>2. g = ReadAs(recs, <<>>)  BY <1>2, <1>4, <2>1, Zenon
  <2>3. g.ok /\ g.value = recs  BY <2>2, ReadParts, Zenon
  <2>. QED BY <1>3, <2>1, <2>3, Zenon DEF Accepts
<1>5. ASSUME f = Truncated PROVE DecodedBy(class, bytes) = Rejected(class)
  <2>1. ~f.ok  BY <1>5, ReadParts, Zenon
  <2>. QED BY <1>3, <2>1, Zenon
<1>6. ASSUME NEW vs, NEW t, f = ReadAs(vs, t), Finished(RecordsOf(class, t)) = Truncated
      PROVE  DecodedBy(class, bytes) = Rejected(class)
  <2>1. f.rest = t  BY <1>6, ReadParts, Zenon
  <2>2. g = Truncated  BY <1>2, <1>6, <2>1, Zenon
  <2>3. ~g.ok  BY <2>2, ReadParts, Zenon
  <2>. QED BY <1>3, <2>3, Zenon
<1>. QED BY <1>1, <1>4, <1>5, <1>6, Zenon

(* What a decoder that rejects returns,                                    *)
LEMMA DecodedParts == \A class : ~Rejected(class).ok /\ Rejected(class).class = class
BY DEF Rejected

(* and one that accepts.                                                   *)
LEMMA AcceptsParts ==
    ASSUME NEW class, NEW vs, NEW recs, NEW d, d = Accepts(class, vs, recs)
    PROVE  d.ok /\ d.class = class /\ d.fields = vs /\ d.records = recs
BY DEF Accepts

(* No record, no bytes.                                                    *)
LEMMA NoRecordsWritten == RecordsWritten(<<>>) = <<>>
<1>1. <<>> \in Chunks /\ Len(<<>>) = 0  BY DEF Chunks
<1>2. [i \in 1..Len(<<>>) |-> RecordWritten(<<>>[i])] = <<>>  BY <1>1
<1>3. Joined(<<>>) = <<>>  BY <1>1, JoinedEmpty, Zenon
<1>. QED BY <1>2, <1>3, Zenon DEF RecordsWritten

(* A message that may be sent is decoded to itself.                        *)
LEMMA MessageBack ==
    ASSUME NEW m, Constructible(m), EncodeAccepts(m)
    PROVE  /\ Encoded(m) \in Seq(Byte)
           /\ DecodedBy(m.class, Encoded(m)) = Accepts(m.class, m.fields, m.records)
<1>1. PICK class : class = m.class  OBVIOUS
<1>2. PICK vs : vs = m.fields  OBVIOUS
<1>3. PICK recs : recs = m.records  OBVIOUS
<1>4. PICK kinds : kinds = Schema[class]  OBVIOUS
<1>5. /\ class \in DOMAIN Schema /\ Typed(kinds, vs)
      /\ IsList(recs) /\ \A i \in 1..Len(recs) : IsRecord(recs[i])
      /\ HasRecords(class) \/ recs = <<>>
      BY <1>1, <1>2, <1>3, <1>4, Zenon DEF Constructible
<1>6. /\ FieldsWritable(kinds, vs)
      /\ \A i \in 1..Len(recs) : RecordWritable(recs[i])
      /\ HasRecords(class) => recs # <<>>
      BY <1>1, <1>2, <1>3, <1>4, Zenon DEF EncodeAccepts
<1>7. kinds \in Seq(Kinds) /\ Sendable(kinds, vs)  BY <1>4, <1>5, <1>6, SchemaKinds, SendableIs, Zenon
<1>8. \A i \in 1..Len(recs) : SendableRecord(recs[i])  BY <1>5, <1>6, Zenon DEF SendableRecord
<1>9. PICK t : t = RecordsWritten(recs)  OBVIOUS
<1>10. t \in Seq(Byte) /\ ReadRecords(t) = ReadAs(recs, <<>>)  BY <1>5, <1>8, <1>9, RecordsBack
<1>11. Finished(RecordsOf(class, t)) = ReadAs(recs, <<>>)
  <2>1. RecordsOf(class, t) = ReadAs(recs, <<>>)
    <3>1. CASE HasRecords(class)
      <4>1. ReadRecords(t).value # <<>>  BY <1>6, <1>10, <3>1, ReadParts, Zenon
      <4>. QED BY <1>10, <3>1, <4>1, Zenon DEF RecordsOf
    <3>2. CASE ~HasRecords(class)
      <4>1. recs = <<>> /\ t = <<>>  BY <1>5, <1>9, <3>2, NoRecordsWritten, Zenon
      <4>. QED BY <3>2, <4>1, Zenon DEF RecordsOf
    <3>. QED BY <3>1, <3>2
  <2>. QED BY <2>1, FinishedReads, Zenon
<1>12. PICK w : w = FieldsWritten(kinds, vs)  OBVIOUS
<1>13. w \in Seq(Byte) /\ ReadAll(kinds, w \o t) = ReadAs(vs, t)  BY <1>7, <1>10, <1>12, FieldsBack
<1>14. Encoded(m) = w \o t  BY <1>1, <1>2, <1>3, <1>4, <1>9, <1>12, Zenon DEF Encoded
<1>15. w \o t \in Seq(Byte)  BY <1>10, <1>13, BytesConcatenation, Zenon
<1>16. PICK bytes : bytes = w \o t  OBVIOUS
<1>17. DecodedBy(class, bytes) = Accepts(class, vs, recs)
  <2>1. ReadAll(Schema[class], bytes) = ReadAs(vs, t)  BY <1>4, <1>13, <1>16, Zenon
  <2>. QED BY <1>11, <2>1, DecodedReads
<1>. QED BY <1>1, <1>2, <1>3, <1>14, <1>15, <1>16, <1>17, Zenon

(* What a decoder accepts is what is encoded of the message it returns.    *)
AcceptedAs(class, bytes, vs, recs) ==
    /\ DecodedBy(class, bytes) = Accepts(class, vs, recs)
    /\ Sendable(Schema[class], vs)
    /\ FieldsWritten(Schema[class], vs) \in Seq(Byte)
    /\ RecordsWritten(recs) \in Seq(Byte)
    /\ bytes = FieldsWritten(Schema[class], vs) \o RecordsWritten(recs)

(* Whatever the payload, if it is accepted.                                *)
LEMMA MessageForm ==
    ASSUME NEW class \in DOMAIN Schema, NEW bytes \in Seq(Byte), DecodedBy(class, bytes).ok
    PROVE  \E vs, recs : AcceptedAs(class, bytes, vs, recs)
<1>1. PICK kinds : kinds = Schema[class]  OBVIOUS
<1>2. kinds \in Seq(Kinds)  BY <1>1, SchemaKinds, Zenon
<1>3. DecodedBy(class, bytes) # Rejected(class)  BY DecodedParts, Zenon
<1>4. ReadAll(kinds, bytes) # Truncated  BY <1>1, <1>3, DecodedReads
<1>5. PICK vs, t : /\ Sendable(kinds, vs) /\ t \in Seq(Byte)
                   /\ FieldsWritten(kinds, vs) \in Seq(Byte)
                   /\ bytes = FieldsWritten(kinds, vs) \o t
                   /\ ReadAll(kinds, bytes) = ReadAs(vs, t)
      BY <1>2, <1>4, FieldsForm
<1>6. PICK s : s = RecordsOf(class, t)  OBVIOUS
<1>7. Finished(s) # Truncated  BY <1>1, <1>3, <1>5, <1>6, DecodedReads
<1>8. s # Truncated /\ s.rest = <<>> /\ Finished(s) = s  BY <1>7, FinishedReads, Zenon
<1>9. \E recs : t = RecordsWritten(recs) /\ s = ReadAs(recs, <<>>)
  <2>1. CASE HasRecords(class)
    <3>1. s = ReadRecords(t)  BY <1>6, <1>8, <2>1, Zenon DEF RecordsOf
    <3>2. Finished(ReadRecords(t)) # Truncated  BY <1>7, <3>1
    <3>3. PICK recs : t = RecordsWritten(recs) /\ ReadRecords(t) = ReadAs(recs, <<>>)
          BY <1>5, <3>2, RecordsForm
    <3>. QED BY <3>1, <3>3, Zenon
  <2>2. CASE ~HasRecords(class)
    <3>1. s = ReadAs(<<>>, t)  BY <1>6, <2>2, Zenon DEF RecordsOf
    <3>2. t = <<>>
      <4>1. ReadAs(<<>>, t).rest = t  BY ReadParts, Zenon
      <4>. QED BY <1>8, <3>1, <4>1, Zenon
    <3>. QED BY <3>1, <3>2, NoRecordsWritten, Zenon
  <2>. QED BY <2>1, <2>2
<1>10. PICK recs : t = RecordsWritten(recs) /\ s = ReadAs(recs, <<>>)  BY <1>9, Zenon
<1>11. DecodedBy(class, bytes) = Accepts(class, vs, recs)
  <2>1. ReadAll(Schema[class], bytes) = ReadAs(vs, t)  BY <1>1, <1>5, Zenon
  <2>2. Finished(RecordsOf(class, t)) = ReadAs(recs, <<>>)  BY <1>6, <1>8, <1>10, Zenon
  <2>. QED BY <2>1, <2>2, DecodedReads
<1>12. AcceptedAs(class, bytes, vs, recs)  BY <1>1, <1>5, <1>10, <1>11, Zenon DEF AcceptedAs
<1>. QED BY <1>12, Zenon

(* What the first byte of an accepted payload says, where it is a selector. *)
LEMMA FirstByte ==
    ASSUME NEW class \in DOMAIN Schema, NEW bytes \in Seq(Byte), DecodedBy(class, bytes).ok,
           NEW kind \in ByteKinds, kind = Schema[class][1], Len(Schema[class]) >= 1
    PROVE  bytes[1] \in ByteRange[kind]
<1>1. PICK vs, recs : AcceptedAs(class, bytes, vs, recs)  BY MessageForm
<1>2. PICK kinds : kinds = Schema[class]  OBVIOUS
<1>3. PICK n : n = Len(kinds)  OBVIOUS
<1>4. PICK t : t = RecordsWritten(recs)  OBVIOUS
<1>5. /\ kinds \in Seq(Kinds) /\ Sendable(kinds, vs) /\ t \in Seq(Byte)
      /\ bytes = FieldsWritten(kinds, vs) \o t
      BY <1>1, <1>2, <1>4, SchemaKinds, Zenon DEF AcceptedAs
<1>6. n \in Nat /\ n >= 1 /\ \A i \in 1..n : vs[i] \in Accepted(kinds[i])
  <2>1. \A i \in 1..n : vs[i] \in Accepted(kinds[i])  BY <1>3, <1>5, Zenon DEF Sendable
  <2>2. n \in Nat /\ n >= 1  BY <1>2, <1>3, <1>5
  <2>. QED BY <2>1, <2>2
<1>7. PICK c \in Chunks : /\ Len(c) = n
                          /\ \A i \in 1..n : c[i] = FieldWritten(kinds[i], vs[i])
                          /\ FieldsWritten(kinds, vs) = Joined(c)
      BY <1>3, <1>5, <1>6, FieldChunks
<1>8. PICK rem : Suffixes(c, rem)  BY JoinedSuffixes, Zenon
<1>9. /\ rem \in [0..n -> Seq(Byte)] /\ rem[0] = Joined(c)
      /\ \A i \in 1..n : rem[i - 1] = c[i] \o rem[i]
      BY <1>7, <1>8, Zenon DEF Suffixes
<1>10. 1 \in 1..n /\ 1 \in 0..n /\ 1 - 1 = 0  BY <1>6
<1>11. PICK v : v = vs[1]  OBVIOUS
<1>12. PICK u : u = rem[1]  OBVIOUS
<1>13. kind = kinds[1]  BY <1>2
<1>14. v \in ByteRange[kind] /\ v \in Byte /\ c[1] = <<v>>
  <2>1. v \in Accepted(kind)  BY <1>6, <1>10, <1>11, <1>13
  <2>2. v \in ByteRange[kind]  BY <2>1, ByteKindEquations, Zenon DEF Accepted
  <2>3. v \in Byte  BY <2>2, ByteKindFacts, Zenon
  <2>4. c[1] = FieldWritten(kind, v)  BY <1>7, <1>10, <1>11, <1>13, Zenon
  <2>5. FieldWritten(kind, v) = <<v>>  BY ByteKindEquations, Zenon
  <2>. QED BY <2>2, <2>3, <2>4, <2>5
<1>15. u \in Seq(Byte) /\ Joined(c) = <<v>> \o u
  <2>1. u \in Seq(Byte)  BY <1>9, <1>10, <1>12
  <2>2. rem[0] = c[1] \o rem[1]  BY <1>9, <1>10
  <2>. QED BY <1>9, <1>12, <1>14, <2>1, <2>2
<1>16. <<v>> \in Seq(Byte) /\ Len(<<v>>) = 1 /\ <<v>>[1] = v  BY <1>14
<1>17. PICK l : l = <<v>>  OBVIOUS
<1>18. bytes[1] = v
  <2>1. PICK w : w = u \o t  OBVIOUS
  <2>2. l \in Seq(Byte) /\ Len(l) = 1 /\ l[1] = v  BY <1>16, <1>17
  <2>3. w \in Seq(Byte) /\ (l \o u) \o t = l \o w  BY <1>5, <1>15, <2>1, <2>2, LengthFirst
  <2>4. bytes = l \o w  BY <1>5, <1>7, <1>15, <1>17, <2>3, Zenon
  <2>5. \A i \in 1..Len(l) : (l \o w)[i] = l[i]  BY <2>2, <2>3, BytesConcatenation, Zenon
  <2>6. 1 \in 1..Len(l)  BY <2>2
  <2>7. (l \o w)[1] = l[1]  BY <2>5, <2>6, Zenon
  <2>. QED BY <2>2, <2>4, <2>7
<1>. QED BY <1>14, <1>18

(* The selectors of the three responses of the server's 0xC4 differ.       *)
LEMMA Selectors ==
    /\ ScreenResponses \subseteq DOMAIN Schema
    /\ \A class \in ScreenResponses :
          Schema[class][1] \in ByteKinds /\ Len(Schema[class]) >= 1
    /\ \A class, other \in ScreenResponses : \A b :
          b \in ByteRange[Schema[class][1]] /\ b \in ByteRange[Schema[other][1]] => class = other
<1>1. /\ "ScreenBootstrapResponse" \in DOMAIN Schema
      /\ "ScreenResourceManifestResponse" \in DOMAIN Schema
      /\ "ScreenResourceItemResponse" \in DOMAIN Schema
      /\ Schema["ScreenBootstrapResponse"] = ScreenBootstrapResponse
      /\ Schema["ScreenResourceManifestResponse"] = ScreenResourceManifestResponse
      /\ Schema["ScreenResourceItemResponse"] = ScreenResourceItemResponse
      BY DEF Schema
<1>2. /\ ScreenBootstrapResponse[1] = "literal0" /\ Len(ScreenBootstrapResponse) = 3
      /\ ScreenResourceManifestResponse[1] = "literal1" /\ Len(ScreenResourceManifestResponse) = 3
      /\ ScreenResourceItemResponse[1] = "literal2" /\ Len(ScreenResourceItemResponse) = 3
      BY DEF ScreenBootstrapResponse, ScreenResourceManifestResponse, ScreenResourceItemResponse
<1>3. ByteRange["literal0"] = {0} /\ ByteRange["literal1"] = {1} /\ ByteRange["literal2"] = {2}
      BY DEF ByteRange
<1>4. "literal0" \in ByteKinds /\ "literal1" \in ByteKinds /\ "literal2" \in ByteKinds
      BY DEF ByteKinds
<1>. QED BY <1>1, <1>2, <1>3, <1>4 DEF ScreenResponses

(* No other class of the command decodes what was encoded.                 *)
LEMMA OtherRejects ==
    ASSUME NEW m, Constructible(m), EncodeAccepts(m),
           NEW class \in DecodersFor(m.class), DecodedBy(class, Encoded(m)).ok
    PROVE  class = m.class
<1>1. PICK own : own = m.class  OBVIOUS
<1>2. PICK bytes : bytes = Encoded(m)  OBVIOUS
<1>3. own \in DOMAIN Schema  BY <1>1, Zenon DEF Constructible
<1>4. bytes \in Seq(Byte) /\ DecodedBy(own, bytes) = Accepts(own, m.fields, m.records)
      BY <1>1, <1>2, MessageBack
<1>5. DecodedBy(own, bytes).ok  BY <1>4, AcceptsParts
<1>6. CASE own \notin ScreenResponses  BY <1>1, <1>6 DEF DecodersFor
<1>7. CASE own \in ScreenResponses
  <2>1. class \in ScreenResponses  BY <1>1, <1>7 DEF DecodersFor
  <2>2. class \in DOMAIN Schema  BY <2>1, Selectors, Zenon
  <2>3. DecodedBy(class, bytes).ok  BY <1>2
  <2>4. bytes[1] \in ByteRange[Schema[own][1]]
    <3>1. PICK kind : kind = Schema[own][1]  OBVIOUS
    <3>2. kind \in ByteKinds /\ Len(Schema[own]) >= 1  BY <1>7, <3>1, Selectors, Zenon
    <3>3. bytes[1] \in ByteRange[kind]  BY <1>3, <1>4, <1>5, <3>1, <3>2, FirstByte
    <3>. QED BY <3>1, <3>3
  <2>5. bytes[1] \in ByteRange[Schema[class][1]]
    <3>1. PICK kind : kind = Schema[class][1]  OBVIOUS
    <3>2. kind \in ByteKinds /\ Len(Schema[class]) >= 1  BY <2>1, <3>1, Selectors, Zenon
    <3>3. bytes[1] \in ByteRange[kind]  BY <1>4, <2>2, <2>3, <3>1, <3>2, FirstByte
    <3>. QED BY <3>1, <3>3
  <2>. QED BY <1>1, <1>7, <2>1, <2>4, <2>5, Selectors, Zenon
<1>. QED BY <1>6, <1>7

------------------------------------------------------------------------------
(* The codec run.                                                          *)

(* The inductive invariant: bytes arrive, as long as nothing changed them  *)
(* they are the message's, and what was decoded is what arrived.           *)
CodecIInv ==
    /\ message \in Messages
    /\ tampers \in Nat
    /\ stage \in {"constructed", "refused", "encoded", "decoded"}
    /\ stage \in {"encoded", "decoded"} => payload \in Seq(Byte)
    /\ stage \in {"encoded", "decoded"} /\ tampers = 0 =>
          EncodeAccepts(message) /\ payload = Encoded(message)
    /\ stage = "decoded" =>
          \E class \in DecodersFor(message.class) : decoded = DecodedBy(class, payload)

(* The messages are constructible.                                         *)
LEMMA MessagesConstructible == \A m \in Messages : Constructible(m)
BY MessagesAssumption, Zenon

(* It holds at first,                                                      *)
LEMMA CodecStart == CodecInit => CodecIInv
BY DEF CodecInit, CodecIInv

(* encode_payload keeps it,                                                *)
LEMMA EncodeKeeps == CodecIInv /\ EncodePayload => CodecIInv'
<1>. SUFFICES ASSUME CodecIInv, EncodePayload PROVE CodecIInv'
     OBVIOUS
<1>1. message' = message /\ tampers' = tampers /\ message \in Messages /\ tampers \in Nat
      BY DEF CodecIInv, EncodePayload
<1>2. CASE EncodeAccepts(message)
  <2>1. stage' = "encoded" /\ payload' = Encoded(message)  BY <1>2 DEF EncodePayload
  <2>2. Constructible(message)  BY <1>1, MessagesConstructible, Zenon
  <2>3. PICK m : m = message  OBVIOUS
  <2>4. Constructible(m) /\ EncodeAccepts(m)  BY <1>2, <2>2, <2>3
  <2>5. Encoded(m) \in Seq(Byte)  BY <2>4, MessageBack
  <2>6. payload' \in Seq(Byte)  BY <2>1, <2>3, <2>5
  <2>. QED BY <1>1, <1>2, <2>1, <2>6 DEF CodecIInv
<1>3. CASE ~EncodeAccepts(message)
  <2>1. stage' = "refused"  BY <1>3 DEF EncodePayload
  <2>. QED BY <1>1, <2>1 DEF CodecIInv
<1>. QED BY <1>2, <1>3

(* A payload that was changed is a payload still.                          *)
LEMMA TamperedKeeps ==
    ASSUME CodecIInv, Tampered, payload' \in Seq(Byte)
    PROVE  CodecIInv'
<1>1. /\ message' = message /\ stage' = "encoded" /\ stage' = stage /\ tampers' = tampers + 1
      /\ message \in Messages /\ tampers \in Nat
      BY DEF CodecIInv, Tampered
<1>2. tampers' \in Nat /\ tampers' # 0  BY <1>1
<1>. QED BY <1>1, <1>2 DEF CodecIInv

(* and a payload that is cut, extended or overwritten is one,              *)
LEMMA TamperedPayload ==
    ASSUME CodecIInv, Cut \/ Extend \/ Overwrite
    PROVE  Tampered /\ payload \in Seq(Byte) /\ payload' \in Seq(Byte)
<1>1. Tampered /\ payload \in Seq(Byte)
  <2>1. Tampered  BY DEF Cut, Extend, Overwrite
  <2>. QED BY <2>1 DEF Tampered, CodecIInv
<1>2. Bytes \subseteq Byte  BY MessagesAssumption, Zenon DEF Byte
<1>3. CASE Cut
  <2>1. PICK n \in 0..Len(payload) - 1 : payload' = SubSeq(payload, 1, n)  BY <1>3 DEF Cut
  <2>. QED BY <1>1, <2>1
<1>4. CASE Extend
  <2>1. PICK b \in Byte : payload' = Append(payload, b)  BY <1>2, <1>4 DEF Extend
  <2>. QED BY <1>1, <2>1
<1>5. CASE Overwrite
  <2>1. PICK i \in DOMAIN payload, b \in Byte : payload' = [payload EXCEPT ![i] = b]
        BY <1>2, <1>5 DEF Overwrite
  <2>. QED BY <1>1, <2>1
<1>. QED BY <1>1, <1>3, <1>4, <1>5

(* decode_payload keeps it,                                                *)
LEMMA DecodeKeeps == CodecIInv /\ DecodePayload => CodecIInv'
<1>. SUFFICES ASSUME CodecIInv, DecodePayload PROVE CodecIInv'
     OBVIOUS
<1>1. /\ message' = message /\ payload' = payload /\ tampers' = tampers
      /\ stage = "encoded" /\ stage' = "decoded"
      BY DEF DecodePayload
<1>2. /\ message \in Messages /\ tampers \in Nat /\ payload \in Seq(Byte)
      /\ tampers = 0 => EncodeAccepts(message) /\ payload = Encoded(message)
      BY <1>1 DEF CodecIInv
<1>3. PICK class \in DecodersFor(message.class) : decoded' = DecodedBy(class, payload)
      BY DEF DecodePayload
<1>4. \E c \in DecodersFor(message'.class) : decoded' = DecodedBy(c, payload')
      BY <1>1, <1>3
<1>. QED BY <1>1, <1>2, <1>4 DEF CodecIInv

(* and so does every step.                                                 *)
LEMMA CodecStep == CodecIInv /\ [CodecNext]_codecVars => CodecIInv'
<1>. SUFFICES ASSUME CodecIInv, [CodecNext]_codecVars PROVE CodecIInv'
     OBVIOUS
<1>1. CASE EncodePayload  BY <1>1, EncodeKeeps
<1>2. CASE Cut \/ Extend \/ Overwrite
  <2>1. Tampered /\ payload' \in Seq(Byte)  BY <1>2, TamperedPayload
  <2>. QED BY <2>1, TamperedKeeps
<1>3. CASE DecodePayload  BY <1>3, DecodeKeeps
<1>4. CASE UNCHANGED codecVars  BY <1>4 DEF codecVars, CodecIInv
<1>. QED BY <1>1, <1>2, <1>3, <1>4 DEF CodecNext

(* What was decoded, of which class, from which bytes.                     *)
LEMMA CodecRoundTrip == CodecIInv => RoundTrip
<1>. SUFFICES ASSUME CodecIInv, stage = "decoded", tampers = 0
              PROVE  /\ decoded.ok <=> decoded.class = message.class
                     /\ decoded.ok => /\ decoded.fields = message.fields
                                      /\ decoded.records = message.records
     BY DEF RoundTrip
<1>1. PICK m : m = message  OBVIOUS
<1>2. PICK class \in DecodersFor(m.class) : decoded = DecodedBy(class, payload)
      BY <1>1 DEF CodecIInv
<1>3. PICK d : d = DecodedBy(class, Encoded(m))  OBVIOUS
<1>4. m \in Messages /\ EncodeAccepts(m) /\ payload = Encoded(m)  BY <1>1 DEF CodecIInv
<1>5. decoded = d  BY <1>2, <1>3, <1>4
<1>6. Constructible(m)  BY <1>4, MessagesConstructible, Zenon
<1>7. CASE class = m.class
  <2>1. d = Accepts(m.class, m.fields, m.records)  BY <1>3, <1>4, <1>6, <1>7, MessageBack
  <2>2. d.ok /\ d.class = m.class /\ d.fields = m.fields /\ d.records = m.records
        BY <2>1, AcceptsParts
  <2>. QED BY <1>1, <1>5, <2>2
<1>8. CASE class # m.class
  <2>1. ~d.ok  BY <1>3, <1>4, <1>6, <1>8, OtherRejects
  <2>2. d.class = class
    <3>1. \/ d = Rejected(class)
          \/ \E vs, recs : d = Accepts(class, vs, recs)
          BY <1>3, Zenon DEF DecodedBy, Accepts
    <3>2. CASE d = Rejected(class)  BY <3>2, DecodedParts, Zenon
    <3>3. CASE \E vs, recs : d = Accepts(class, vs, recs)  BY <3>3, AcceptsParts
    <3>. QED BY <3>1, <3>2, <3>3
  <2>. QED BY <1>1, <1>5, <1>8, <2>1, <2>2
<1>. QED BY <1>7, <1>8

(* What was accepted is what is encoded of it.                             *)
LEMMA CodecOneEncoding == CodecIInv => OneEncoding
<1>. SUFFICES ASSUME CodecIInv, stage = "decoded", decoded.ok
              PROVE  payload = Encoded(decoded)
     BY DEF OneEncoding
<1>1. PICK class \in DecodersFor(message.class) : decoded = DecodedBy(class, payload)
      BY DEF CodecIInv
<1>2. PICK bytes : bytes = payload  OBVIOUS
<1>3. bytes \in Seq(Byte) /\ message \in Messages  BY <1>2 DEF CodecIInv
<1>4. message.class \in DOMAIN Schema  BY <1>3, MessagesConstructible, Zenon DEF Constructible
<1>5. class \in DOMAIN Schema  BY <1>1, <1>4, DecodersOfClasses, Zenon
<1>6. DecodedBy(class, bytes).ok  BY <1>1, <1>2
<1>7. PICK vs, recs : AcceptedAs(class, bytes, vs, recs)  BY <1>3, <1>5, <1>6, MessageForm
<1>8. PICK d : d = DecodedBy(class, bytes)  OBVIOUS
<1>9. /\ d = Accepts(class, vs, recs)
      /\ bytes = FieldsWritten(Schema[class], vs) \o RecordsWritten(recs)
      BY <1>7, <1>8, Zenon DEF AcceptedAs
<1>10. d.class = class /\ d.fields = vs /\ d.records = recs  BY <1>9, AcceptsParts
<1>11. bytes = Encoded(d)  BY <1>9, <1>10, Zenon DEF Encoded
<1>12. decoded = d  BY <1>1, <1>2, <1>8
<1>. QED BY <1>2, <1>11, <1>12

(* Every reachable state of a message on its way satisfies the invariant.  *)
(* messages.py:74-107, 399-492                                             *)
THEOREM CodecInvariant == CodecSpec => []CodecIInv
<1>1. CodecInit => CodecIInv  BY CodecStart
<1>2. CodecIInv /\ [CodecNext]_codecVars => CodecIInv'  BY CodecStep
<1>. QED BY <1>1, <1>2, PTL DEF CodecSpec

(* encode_payload and decode_payload are inverse: a message that may be    *)
(* sent is decoded to itself, and by no other class of its command.        *)
(* messages.py:74-107, 399-492, 497-636                                    *)
THEOREM RoundTrips == CodecSpec => []RoundTrip
<1>1. CodecIInv => RoundTrip  BY CodecRoundTrip
<1>. QED BY <1>1, CodecInvariant, PTL

(* A decoder takes no payload but the encoding of the message it returns:  *)
(* nothing is dropped, replaced or ignored.  messages.py:93-107, 470-492,  *)
(* primitives.py:19-78                                                     *)
THEOREM OneEncodings == CodecSpec => []OneEncoding
<1>1. CodecIInv => OneEncoding  BY CodecOneEncoding
<1>. QED BY <1>1, CodecInvariant, PTL
==============================================================================
