---------------------------- MODULE MCConnection -----------------------------
(* Connection with a three-byte seed, so that a lost, doubled or misplaced *)
(* key byte shows (LoginSession's own seed, one zero byte, hides it), and  *)
(* with texts of at most one byte.                                         *)
EXTENDS Connection, Bitwise

XorTable == [a \in Byte |-> [k \in Byte |-> a ^^ k]]
MCXorByte(a, k) == XorTable[a][k]

MCSeed == <<10, 30, 10>>
MCKey  == FromSeed(MCSeed)
MCLocalText == <<108>>
MCAreaName == <<>>

(* One greeting, one silent request, a burst, a wide reply, the move to    *)
(* ready; then a packet no state accepts and one that is too long.         *)
MCClientPackets ==
    {Message(HANDSHAKE, <<>>),
     Message(CLIENT_SESSION, <<0, 0, 0, 0, 1>>),
     Message(POST_RESET_STATUS, <<1>>),
     Message(BOOTSTRAP_E1, <<>>),
     Message(BOOTSTRAP_READY, <<>>),
     Message(HEARTBEAT, <<>>),
     Message(CLIENT_TEXT_72, <<1, 1, 0, 2, 97, 98>>)}

MCSplashRevisions == {-1}
==============================================================================
