---------------------------- MODULE MCFrameStream ----------------------------
(* FrameStream on three-byte keys and a handful of short packets.          *)
EXTENDS FrameStream, Bitwise

XorTable == [a \in Byte |-> [k \in Byte |-> a ^^ k]]
MCXorByte(a, k) == XorTable[a][k]

MCKey == <<10, 20, 30>>

(* Client packets of up to four payload bytes, one more than the limit.    *)
ClientPackets ==
    {[command |-> 229, payload |-> <<>>],
     [command |-> 58,  payload |-> <<1>>],
     [command |-> 187, payload |-> <<0, 7, 0>>],
     [command |-> 114, payload |-> <<1, 1, 0, 9>>]}

(* A wide frame (0xC4), a wide empty one (0xE1) and two narrow ones.       *)
ServerPackets ==
    {[command |-> 196, payload |-> <<0, 5>>],
     [command |-> 225, payload |-> <<>>],
     [command |-> 154, payload |-> <<>>],
     [command |-> 253, payload |-> <<1>>]}

(* What the server reads, as app.py reads it, and what it writes, under    *)
(* the transform from the start, fed with and without max_packets.         *)
MCLinks ==
    {[direction |-> ClientToServer, max |-> 3, packets |-> ClientPackets,
      plain |-> 1, limits |-> {1}],
     [direction |-> ServerToClient, max |-> 1, packets |-> ServerPackets,
      plain |-> 0, limits |-> {0, 1}]}
==============================================================================
