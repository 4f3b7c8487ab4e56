--------------------------- MODULE MCLoginSession ----------------------------
(* LoginSession on every command, each with a payload its decoder takes and*)
(* several with one that it refuses.                                       *)
EXTENDS LoginSession

MCSeed == <<0>>
MCLocalText == <<108>>
MCAreaName == <<75>>

Empty(command) == Message(command, <<>>)

GoodPackets ==
    {Empty(c) : c \in EmptyRequests} \cup
    {Message(POST_RESET_STATUS, <<1>>),
     Message(CLIENT_TEXT_72, <<1, 1, 0, 1, 114>>),
     Message(TRANSPORT_SYNC, <<0, 0, 0>> \o U32(0) \o U32(1)),
     Message(CLIENT_U32_B2, U32(1)),
     Message(CLIENT_SESSION, String16(<<97>>) \o String16(<<>>) \o <<1>>),
     Message(CLIENT_SELECTION, String16(<<>>) \o <<1>>),
     Message(AREA, <<0>>)}

(* Payload where none is due, mode 2, marker 0, area mode 1, a truncated   *)
(* string, text that is not UTF-8, a command no client sends.              *)
BadPackets ==
    {Message(HANDSHAKE, <<0>>),
     Message(BOOTSTRAP_READY, <<0>>),
     Message(CLIENT_SESSION, String16(<<>>) \o String16(<<>>) \o <<2>>),
     Message(CLIENT_SELECTION, String16(<<>>) \o <<0>>),
     Message(AREA, <<1>>),
     Message(CLIENT_TEXT_72, <<1, 1, 0, 5, 114>>),
     Message(CLIENT_TEXT_72, <<1, 1, 0, 2, 192, 128>>),
     Empty(HEARTBEAT)}

MCClientPackets == GoodPackets \cup BadPackets

MCSplashRevisions == {None, -1}
==============================================================================
