------------------------------ MODULE Payloads -------------------------------
(***************************************************************************)
(* The message codecs of server/army3_protocol/messages.py over the strict *)
(* readers and writers of primitives.py.  A client payload is described by *)
(* the sequence of its fields; the packets the server builds are given     *)
(* whole.  Strings are their UTF-8 bytes.                                  *)
(***************************************************************************)
EXTENDS Primitives

CONSTANTS Seed,       \* LoginSession._SEED
          SeedShift,  \* LoginSession._SHIFT
          LocalText,  \* LoginSession._LOCAL_TEXT, as bytes
          AreaName    \* ServerAreaRecord.name's default, as bytes

ASSUME PayloadsAssumption ==
    /\ Seed \in Seq(0..255) /\ Len(Seed) \in 1..127
    /\ SeedShift \in 0..255
    /\ LocalText \in Seq(0..255) /\ Len(LocalText) <= 65535
    /\ AreaName \in Seq(0..255) /\ Len(AreaName) <= 65535

(* class Command *)
UNKNOWN_07         == 7
POST_RESET_STATUS  == 58
CLIENT_TEXT_72     == 114
HEARTBEAT          == 154
TRANSPORT_SYNC     == 169
CLIENT_U32_B2      == 178
CLIENT_SESSION     == 187
SCREEN_BOOTSTRAP   == 196
CLIENT_SELECTION   == 198
BOOTSTRAP_DA       == 218
BOOTSTRAP_READY    == 219
BOOTSTRAP_E0       == 224
BOOTSTRAP_E1       == 225
BOOTSTRAP_VERSIONS == 226
AREA               == 228
HANDSHAKE          == 229
PRELOGIN_STATUS    == 253

------------------------------------------------------------------------------
(* What the client may send.                                               *)

EmptyRequests == {UNKNOWN_07, BOOTSTRAP_DA, BOOTSTRAP_READY, BOOTSTRAP_E0,
                  BOOTSTRAP_E1, HANDSHAKE, PRELOGIN_STATUS, SCREEN_BOOTSTRAP}

FieldRequests == {POST_RESET_STATUS, CLIENT_TEXT_72, TRANSPORT_SYNC, CLIENT_U32_B2,
                  CLIENT_SESSION, CLIENT_SELECTION, AREA}

ClientSchema(command) ==
    CASE command \in EmptyRequests    -> <<>>
      [] command = POST_RESET_STATUS  -> <<"u8">>
      [] command = CLIENT_TEXT_72     -> <<"u8", "u8", "string16">>
      [] command = TRANSPORT_SYNC     -> <<"u8", "string16", "u32", "u32">>
      [] command = CLIENT_U32_B2      -> <<"u32">>
      [] command = CLIENT_SESSION     -> <<"string16", "string16", "u8">>
      [] command = CLIENT_SELECTION   -> <<"string16", "u8">>
      [] command = AREA               -> <<"u8">>

(* The literal bytes the decoders insist on.  That the 0xBB mode is 0 or 1 *)
(* is LoginSession's own check.                                            *)
LiteralsHold(command, fields) ==
    CASE command = TRANSPORT_SYNC   -> fields[1] = 0
      [] command = CLIENT_SELECTION -> fields[2] = 1
      [] command = AREA             -> fields[1] = 0
      [] command = CLIENT_SESSION   -> fields[3] \in {0, 1}
      [] OTHER                      -> TRUE

WellFormed(packet) ==
    /\ packet.command \in EmptyRequests \cup FieldRequests
    /\ LET request == Decode(ClientSchema(packet.command), packet.payload)
       IN  request.ok /\ LiteralsHold(packet.command, request.value)

------------------------------------------------------------------------------
(* What the server sends.                                                  *)

Message(command, payload) == [command |-> command, payload |-> payload]

HandshakeResponse ==
    Message(HANDSHAKE, <<Len(Seed)>> \o Seed \o <<SeedShift>> \o String16(LocalText))

ServerTransportReset2 == Message(TRANSPORT_SYNC, <<2>>)

ServerPreloginStatus == Message(PRELOGIN_STATUS, <<1>>)

ServerSessionResponse ==
    Message(CLIENT_SESSION, String16(LocalText) \o String16(LocalText)
                            \o String16(LocalText) \o String16(LocalText))

BootstrapVersions(version) == Message(BOOTSTRAP_VERSIONS, <<version, version, version>>)

BootstrapDaResponse(version) == Message(BOOTSTRAP_DA, <<version>> \o Blob32(<<0>>))

BootstrapE1Response(version) ==
    Message(BOOTSTRAP_E1, <<version>> \o Blob32(<<0, 0>>) \o Blob32(<<0, 0>>) \o Blob32(<<0>>))

BootstrapE0EmptyResponse(version) == Message(BOOTSTRAP_E0, <<version, 0>> \o U16(0))

(* Mutant: without the & 0xFF.                                             *)
ScreenBootstrapUnmasked(revision) ==
    Message(SCREEN_BOOTSTRAP, <<0, revision>> \o String16(<<>>))

(* revision is an s8, written as & 0xFF.                                   *)
ScreenBootstrapResponse(revision) ==
    Message(SCREEN_BOOTSTRAP, <<0, revision % 256>> \o String16(<<>>))

(* One record: area 0, two zero flags, nobody of eight, no money.          *)
ServerAreaList ==
    Message(AREA, <<0>> \o <<0, 0, 0, 0, 8>> \o U32(0) \o String16(AreaName))

Heartbeat == Message(HEARTBEAT, <<>>)
==============================================================================
