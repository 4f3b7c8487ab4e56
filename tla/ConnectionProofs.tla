-------------------------- MODULE ConnectionProofs ---------------------------
(***************************************************************************)
(* A session keeps its invariants and LoginPromise for every client, every *)
(* configuration and sessions of any length.  A connection keeps its own   *)
(* and its session's for every key and seed as well, however many packets  *)
(* the client sends and however its bytes are joined, cut and interleaved  *)
(* with replies and heartbeats.                                            *)
(***************************************************************************)
EXTENDS Connection, FramingProofs

------------------------------------------------------------------------------
(* The session.                                                            *)

(* A string16 length is two bytes.                                         *)
LEMMA Length16Type ==
    ASSUME NEW n \in Nat, n <= 65535
    PROVE  U16(n) \in Seq(0..255)
<1>1. n \div 256 \in Int /\ n \div 256 >= 0 /\ n \div 256 <= 255  OBVIOUS
<1>2. n % 256 \in Int /\ n % 256 >= 0 /\ n % 256 <= 255  OBVIOUS
<1>. QED BY <1>1, <1>2 DEF U16

(* The small numbers that are written as a u16 or a u32.                   *)
LEMMA SmallNumbers ==
    \A n \in 0..2 : /\ U16(n) \in Seq(0..255) /\ Len(U16(n)) = 2
                    /\ U32(n) \in Seq(0..255) /\ Len(U32(n)) = 4
<1>1. \A n \in 0..2 : U16(n) = <<0, n>>  BY DEF U16
<1>2. \A n \in 0..2 : n \div Radix = 0 /\ n % Radix = n
  <2>1. \A n \in Nat : n < 65536 => n \div 65536 = 0 /\ n % 65536 = n  BY SMT
  <2>. QED BY <2>1 DEF Radix
<1>3. 0 \in 0..2  OBVIOUS
<1>4. \A n \in 0..2 : U32(n) = <<0, 0>> \o <<0, n>>  BY <1>1, <1>2, <1>3, Zenon DEF U32
<1>5. \A n \in 0..2 : /\ <<0, n>> \in Seq(0..255) /\ Len(<<0, n>>) = 2
                      /\ <<0, 0>> \o <<0, n>> \in Seq(0..255) /\ Len(<<0, 0>> \o <<0, n>>) = 4
      OBVIOUS
<1>. QED BY <1>1, <1>4, <1>5, Zenon

(* A string16 is bytes.                                                    *)
LEMMA String16Type ==
    ASSUME NEW text \in Seq(0..255), Len(text) <= 65535
    PROVE  String16(text) \in Seq(0..255)
<1>1. Len(text) \in Nat  OBVIOUS
<1>2. U16(Len(text)) \in Seq(0..255)  BY <1>1, Length16Type
<1>. QED BY <1>2 DEF String16

(* Every packet the server builds is a command byte and payload bytes.     *)
LEMMA ServerPacketTypes ==
    /\ HandshakeResponse \in Reply
    /\ ServerTransportReset2 \in Reply
    /\ ServerPreloginStatus \in Reply
    /\ ServerSessionResponse \in Reply
    /\ BootstrapVersions(_VERSION) \in Reply
    /\ BootstrapDaResponse(_VERSION) \in Reply
    /\ BootstrapE1Response(_VERSION) \in Reply
    /\ BootstrapE0EmptyResponse(_VERSION) \in Reply
    /\ ServerAreaList \in Reply
    /\ \A r \in -128..127 : ScreenBootstrapResponse(r) \in Reply
<1>1. String16(LocalText) \in Seq(0..255) /\ String16(AreaName) \in Seq(0..255)
      BY String16Type, PayloadsAssumption
<1>2. HandshakeResponse \in Reply
  <2>1. <<Len(Seed)>> \in Seq(0..255) /\ <<SeedShift>> \in Seq(0..255) /\ Seed \in Seq(0..255)
        BY PayloadsAssumption
  <2>2. <<Len(Seed)>> \o Seed \o <<SeedShift>> \o String16(LocalText) \in Seq(0..255)
        BY <1>1, <2>1
  <2>. QED BY <2>2 DEF HandshakeResponse, Message, Reply, HANDSHAKE
<1>3. ServerTransportReset2 \in Reply /\ ServerPreloginStatus \in Reply
      BY DEF ServerTransportReset2, ServerPreloginStatus, Message, Reply,
             TRANSPORT_SYNC, PRELOGIN_STATUS
<1>4. ServerSessionResponse \in Reply
      BY <1>1 DEF ServerSessionResponse, Message, Reply, CLIENT_SESSION
<1>5. BootstrapVersions(_VERSION) \in Reply
      BY DEF BootstrapVersions, _VERSION, Message, Reply, BOOTSTRAP_VERSIONS
<1>6. Blob32(<<0>>) \in Seq(0..255) /\ Blob32(<<0, 0>>) \in Seq(0..255) /\ U32(0) \in Seq(0..255)
  <2>1. U32(0) \in Seq(0..255) /\ U32(1) \in Seq(0..255) /\ U32(2) \in Seq(0..255)
    <3>1. 0 \in 0..2 /\ 1 \in 0..2 /\ 2 \in 0..2  OBVIOUS
    <3>. QED BY <3>1, SmallNumbers
  <2>. QED BY <2>1 DEF Blob32
<1>7. BootstrapDaResponse(_VERSION) \in Reply
      BY <1>6 DEF BootstrapDaResponse, _VERSION, Message, Reply, BOOTSTRAP_DA
<1>8. BootstrapE1Response(_VERSION) \in Reply
      BY <1>6 DEF BootstrapE1Response, _VERSION, Message, Reply, BOOTSTRAP_E1
<1>9. BootstrapE0EmptyResponse(_VERSION) \in Reply
  <2>1. U16(0) \in Seq(0..255)  BY  Length16Type
  <2>. QED BY <2>1 DEF BootstrapE0EmptyResponse, _VERSION, Message, Reply, BOOTSTRAP_E0
<1>10. ServerAreaList \in Reply
      BY <1>1, <1>6 DEF ServerAreaList, Message, Reply, AREA
<1>11. ASSUME NEW r \in -128..127 PROVE ScreenBootstrapResponse(r) \in Reply
  <2>1. String16(<<>>) \in Seq(0..255)
    <3>1. Len(<<>>) = 0  OBVIOUS
    <3>2. U16(0) \in Seq(0..255)  BY Length16Type
    <3>. QED BY <3>1, <3>2 DEF String16
  <2>. r \in Int  OBVIOUS
  <2>2. r % 256 \in Int /\ r % 256 >= 0 /\ r % 256 <= 255  OBVIOUS
  <2>. QED BY <2>1, <2>2 DEF ScreenBootstrapResponse, Message, Reply, SCREEN_BOOTSTRAP
<1>. QED BY <1>2, <1>3, <1>4, <1>5, <1>7, <1>8, <1>9, <1>10, <1>11

------------------------------------------------------------------------------
(* What a reply contains.                                                  *)

(* Every acknowledgement is a sequence of packets.                         *)
LEMMA RepliesType == ASSUME NEW c PROVE Replies(c) \in Seq(Reply)
BY ServerPacketTypes DEF Replies

(* A packet that is merely acknowledged brings back its own command or     *)
(* nothing, and no greeting, barrier or splash.                            *)
LEMMA AcknowledgedReplies ==
    ASSUME NEW s \in States, NEW c \in Acknowledged(s)
    PROVE  /\ ~HasCommand(Replies(c), HANDSHAKE)
           /\ ~HasCommand(Replies(c), BOOTSTRAP_VERSIONS)
           /\ ~HasCommand(Replies(c), SCREEN_BOOTSTRAP)
           /\ HasCommand(Replies(c), AREA) => c = AREA
           /\ c = CLIENT_SESSION => s = "ACCOUNT_PANEL_READY"
           /\ c # BOOTSTRAP_READY \/ s = "ACCOUNT_PANEL_READY"
           /\ s # "AWAIT_CLIENT_E5"
           /\ c \in 0..255
<1>. USE DEF UNKNOWN_07, POST_RESET_STATUS, CLIENT_TEXT_72, TRANSPORT_SYNC, CLIENT_U32_B2,
             CLIENT_SESSION, SCREEN_BOOTSTRAP, CLIENT_SELECTION, BOOTSTRAP_DA, BOOTSTRAP_READY,
             BOOTSTRAP_E0, BOOTSTRAP_E1, BOOTSTRAP_VERSIONS, AREA, HANDSHAKE, PRELOGIN_STATUS
<1>1. c \in {7, 58, 114, 169, 178, 187, 196, 198, 218, 219, 224, 225, 228, 253}
      BY DEF Acknowledged, States
<1>2. \/ Replies(c) = <<>>
      \/ \E r : Replies(c) = <<r>> /\ r.command = c /\ c # SCREEN_BOOTSTRAP
      BY <1>1, SMTT(30) DEF Replies, Message, ServerTransportReset2, ServerPreloginStatus,
                  ServerSessionResponse, ServerAreaList, BootstrapDaResponse,
                  BootstrapE1Response, BootstrapE0EmptyResponse
<1>3. \A x : HasCommand(Replies(c), x) => x = c /\ c # SCREEN_BOOTSTRAP
      BY <1>2 DEF HasCommand
<1>4. /\ c = CLIENT_SESSION => s = "ACCOUNT_PANEL_READY"
      /\ c # BOOTSTRAP_READY \/ s = "ACCOUNT_PANEL_READY"
      /\ s # "AWAIT_CLIENT_E5"
      BY DEF Acknowledged, States
<1>. QED BY <1>1, <1>3, <1>4

(* The reply to 0xE5 contains 0xE5 and nothing else.                       *)
LEMMA GreetingReply ==
    /\ <<HandshakeResponse>> \in Seq(Reply)
    /\ \A x : HasCommand(<<HandshakeResponse>>, x) <=> x = HANDSHAKE
<1>1. HandshakeResponse.command = HANDSHAKE  BY DEF HandshakeResponse, Message
<1>. QED BY <1>1, ServerPacketTypes DEF HasCommand

(* The push is one 0xE4 while it is due, and empty otherwise.              *)
LEMMA AreaPushReply ==
    /\ AreaPushIfEnabled \in Seq(Reply)
    /\ \A x : HasCommand(AreaPushIfEnabled, x) <=> AreaPushDue /\ x = AREA
<1>1. ServerAreaList.command = AREA  BY DEF ServerAreaList, Message
<1>2. CASE AreaPushDue
  <2>1. AreaPushIfEnabled = <<ServerAreaList>>  BY <1>2 DEF AreaPushIfEnabled
  <2>. QED BY <1>1, <1>2, <2>1, ServerPacketTypes DEF HasCommand
<1>3. CASE ~AreaPushDue
  <2>1. AreaPushIfEnabled = <<>>  BY <1>3 DEF AreaPushIfEnabled
  <2>. QED BY <1>3, <2>1 DEF HasCommand
<1>. QED BY <1>2, <1>3

(* The barrier is 0xBB, 0xE2 and, while the splash is due, 0xC4; the 0xE2  *)
(* carries the three versions.                                             *)
LEMMA BarrierReply ==
    ASSUME experimentalSplashRevision \in SplashRevisions
    PROVE  /\ InitialBootstrapResponses \in Seq(Reply)
           /\ Len(InitialBootstrapResponses) >= 2
           /\ InitialBootstrapResponses[1].command = CLIENT_SESSION
           /\ InitialBootstrapResponses[2] = BootstrapVersions(_VERSION)
           /\ \A x : HasCommand(InitialBootstrapResponses, x) <=>
                        \/ x \in {CLIENT_SESSION, BOOTSTRAP_VERSIONS}
                        \/ SplashDue /\ x = SCREEN_BOOTSTRAP
<1>. DEFINE R == InitialBootstrapResponses
            a == ServerSessionResponse
            b == BootstrapVersions(_VERSION)
            z == ScreenBootstrapResponse(experimentalSplashRevision)
<1>1. a.command = CLIENT_SESSION /\ b.command = BOOTSTRAP_VERSIONS
      /\ z.command = SCREEN_BOOTSTRAP
      BY DEF ServerSessionResponse, BootstrapVersions, ScreenBootstrapResponse, Message
<1>2. a \in Reply /\ b \in Reply  BY ServerPacketTypes
<1>3. CASE SplashDue
  <2>1. experimentalSplashRevision \in -128..127
        BY <1>3, LoginSessionAssumption DEF SplashDue
  <2>2. z \in Reply  BY <2>1, ServerPacketTypes
  <2>. HIDE DEF a, b, z
  <2>3. R = <<a, b>> \o <<z>>  BY <1>3 DEF InitialBootstrapResponses, a, b, z
  <2>4. <<a, b>> \in Seq(Reply) /\ <<z>> \in Seq(Reply)  BY <1>2, <2>2
  <2>. HIDE DEF R
  <2>5. R \in Seq(Reply) /\ Len(R) = 3 /\ R[1] = a /\ R[2] = b /\ R[3] = z
        BY <2>3, <2>4
  <2>. QED BY <1>1, <1>2, <1>3, <2>2, <2>5 DEF HasCommand, R, b
<1>4. CASE ~SplashDue
  <2>. HIDE DEF a, b, z
  <2>3. R = <<a, b>>  BY <1>4 DEF InitialBootstrapResponses, a, b, z
  <2>. QED BY <1>1, <1>2, <1>4, <2>3 DEF HasCommand, b
<1>. QED BY <1>3, <1>4

------------------------------------------------------------------------------
(* One step of the session.                                                *)

(* The n-th entry of the log is e, and the earlier ones are as they were.  *)
Logged(n, e) ==
    /\ outcome' \in [outbound : Seq(Reply), enableTransform : BOOLEAN]
    /\ log' \in Seq(Entry) /\ Len(log') = n
    /\ \A i \in 1..n - 1 : log'[i] = log[i]
    /\ log'[n] = e
    /\ \A i \in 1..n - 1 : \A x : Sends(i, x)' <=> Sends(i, x)
    /\ \A x : Sends(n, x)' <=> HasCommand(e.outbound, x)

(* A step with an outcome appends it to the log.                           *)
LEMMA LogGrows ==
    ASSUME TypeOK, NEW p, NEW out \in Seq(Reply), NEW t \in BOOLEAN,
           p.command \in 0..255, Outcome(p, out, t),
           NEW CONSTANT n \in Nat, n = Len(log) + 1
    PROVE  Logged(n, [state |-> state, command |-> p.command, outbound |-> out,
                      enableTransform |-> t])
<1>. DEFINE e == [state |-> state, command |-> p.command, outbound |-> out,
                  enableTransform |-> t]
<1>1. e \in Entry  BY DEF TypeOK, Entry
<1>2. log \in Seq(Entry) /\ log' = Append(log, e)  BY DEF TypeOK, Outcome
<1>3. outcome' \in [outbound : Seq(Reply), enableTransform : BOOLEAN]  BY DEF Outcome
<1>. HIDE DEF e
<1>4. /\ log' \in Seq(Entry) /\ Len(log') = n
      /\ \A i \in 1..n - 1 : log'[i] = log[i]
      /\ log'[n] = e
      BY <1>1, <1>2
<1>5. ASSUME NEW i \in 1..n - 1, NEW x PROVE Sends(i, x)' <=> Sends(i, x)
  <2>1. log'[i].outbound = log[i].outbound  BY <1>4
  <2>. QED BY <2>1 DEF Sends
<1>6. ASSUME NEW x PROVE Sends(n, x)' <=> HasCommand(e.outbound, x)
      BY <1>4 DEF Sends
<1>7. Logged(n, e)  BY <1>3, <1>4, <1>5, <1>6 DEF Logged
<1>. QED BY <1>7 DEF e

(* The inductive invariant: the history invariants alone are not           *)
(* inductive, because what a step may send depends on the fields;          *)
(* FieldsTellHistory ties the fields to the history.                       *)
IInv == /\ TypeOK
        /\ TransformOnce
        /\ VersionBarrier
        /\ SplashOnce
        /\ AreaPushOnce
        /\ ReadySinceFirstDB
        /\ FieldsTellHistory

(* It holds before the first packet.                                       *)
LEMMA InitIInv == SessionInit => IInv
<1>. SUFFICES ASSUME SessionInit PROVE IInv  OBVIOUS
<1>1. Len(log) = 0 /\ log \in Seq(Entry)  BY DEF SessionInit
<1>2. outcome \in [outbound : Seq(Reply), enableTransform : BOOLEAN]
      BY DEF SessionInit, NoOutcome
<1>3. TypeOK  BY <1>1, <1>2, Zenon DEF SessionInit, TypeOK, States
<1>. QED BY <1>1, <1>3 DEF SessionInit, IInv, TransformOnce, VersionBarrier, SplashOnce,
         AreaPushOnce, ReadySinceFirstDB, FieldsTellHistory

(* The greeting establishes the history of one entry.                      *)
LEMMA GreetingStep ==
    ASSUME IInv, NEW p, HandleE5(p)
    PROVE  IInv'
<1>. DEFINE out == <<HandshakeResponse>>
            e == [state |-> state, command |-> p.command, outbound |-> out,
                  enableTransform |-> TRUE]
<1>1. /\ state = "AWAIT_CLIENT_E5" /\ state' = "AWAIT_INITIAL_BB"
      /\ p.command = HANDSHAKE /\ Outcome(p, out, TRUE)
      /\ experimentalSplashRevision' = experimentalSplashRevision
      /\ experimentalAreaPush' = experimentalAreaPush
      /\ splashTransitionSent' = splashTransitionSent /\ areaPushSent' = areaPushSent
      BY Zenon DEF HandleE5, config, out
<1>2. TypeOK /\ p.command \in 0..255  BY <1>1 DEF IInv, HANDSHAKE
<1>3. out \in Seq(Reply) /\ (\A x : HasCommand(out, x) <=> x = HANDSHAKE)  BY GreetingReply
<1>4. Len(log) = 0  BY <1>1, <1>2 DEF IInv, FieldsTellHistory
<1>. HIDE DEF out
<1>5. Logged(1, e)
  <2>1. 1 \in Nat /\ 1 = Len(log) + 1  BY <1>4
  <2>. QED BY <1>1, <1>2, <1>3, <2>1, LogGrows, Zenon
<1>6. /\ log' \in Seq(Entry) /\ Len(log') = 1 /\ log'[1].state = "AWAIT_CLIENT_E5"
      /\ log'[1].command = HANDSHAKE /\ log'[1].enableTransform = TRUE
      /\ log'[1].outbound = out
      BY <1>1, <1>5 DEF Logged
<1>7. \A x : Sends(1, x)' <=> x = HANDSHAKE  BY <1>3, <1>5 DEF Logged
<1>. USE DEF HANDSHAKE, CLIENT_SESSION, BOOTSTRAP_VERSIONS, SCREEN_BOOTSTRAP, AREA,
             BOOTSTRAP_READY
<1>8. TypeOK'  BY <1>1, <1>2, <1>5 DEF TypeOK, States, Logged
<1>9. TransformOnce'  BY <1>6, <1>7 DEF TransformOnce, out
<1>10. VersionBarrier'  BY <1>6, <1>7 DEF VersionBarrier
<1>11. SplashOnce'  BY <1>6, <1>7 DEF SplashOnce
<1>12. AreaPushOnce'  BY <1>6, <1>7 DEF AreaPushOnce
<1>13. ReadySinceFirstDB'  BY <1>1, <1>6 DEF ReadySinceFirstDB
<1>14. FieldsTellHistory'
  <2>1. ~splashTransitionSent /\ ~areaPushSent
        BY <1>1, <1>4 DEF IInv, FieldsTellHistory
  <2>2. Len(log') # 0  BY <1>6
  <2>5. state' # "AWAIT_CLIENT_E5" /\ state' # "ACCOUNT_PANEL_READY"
    <3>1. state' = "AWAIT_INITIAL_BB"  BY <1>1, Zenon
    <3>. QED BY <3>1
  <2>3. ~splashTransitionSent' /\ ~areaPushSent'  BY <1>1, <2>1, Zenon
  <2>4. \A i \in 1..Len(log') : i = 1 /\ ~Sends(i, BOOTSTRAP_VERSIONS)'
                                /\ log'[i].state = "AWAIT_CLIENT_E5"
        BY <1>6, <1>7
  <2>. QED BY <2>2, <2>3, <2>4, <2>5, Zenon DEF FieldsTellHistory
<1>. QED BY <1>8, <1>9, <1>10, <1>11, <1>12, <1>13, <1>14 DEF IInv

(* What every entry after the greeting does to the reply history and to    *)
(* the fields, with the fields read before the step.                       *)
Fresh(e) == e.command = CLIENT_SESSION /\ e.state # "ACCOUNT_PANEL_READY"

Lawful(e) ==
    /\ e.state = state /\ state # "AWAIT_CLIENT_E5" /\ state' # "AWAIT_CLIENT_E5"
    /\ ~e.enableTransform /\ ~HasCommand(e.outbound, HANDSHAKE)
    /\ Fresh(e) => /\ Len(e.outbound) >= 2
                   /\ e.outbound[1].command = CLIENT_SESSION
                   /\ e.outbound[2] = BootstrapVersions(_VERSION)
    /\ HasCommand(e.outbound, BOOTSTRAP_VERSIONS) \/ HasCommand(e.outbound, SCREEN_BOOTSTRAP)
           => Fresh(e)
    /\ HasCommand(e.outbound, SCREEN_BOOTSTRAP) <=>
           SplashDue /\ HasCommand(e.outbound, BOOTSTRAP_VERSIONS)
    /\ (e.command # AREA /\ HasCommand(e.outbound, AREA)) <=>
           /\ experimentalAreaPush /\ e.command = BOOTSTRAP_READY
           /\ e.state # "ACCOUNT_PANEL_READY"
    /\ state' = "ACCOUNT_PANEL_READY" <=>
           state = "ACCOUNT_PANEL_READY" \/ e.command = BOOTSTRAP_READY
    /\ splashTransitionSent' <=>
           \/ splashTransitionSent
           \/ SplashDue /\ HasCommand(e.outbound, BOOTSTRAP_VERSIONS)
    /\ areaPushSent' <=> experimentalAreaPush /\ state' = "ACCOUNT_PANEL_READY"
    /\ experimentalSplashRevision' = experimentalSplashRevision
    /\ experimentalAreaPush' = experimentalAreaPush

(* A lawful entry preserves the invariant.                                 *)
LEMMA LawfulStep ==
    ASSUME IInv, TypeOK', NEW e, NEW CONSTANT n \in Nat, n = Len(log) + 1,
           Logged(n, e), Lawful(e)
    PROVE  IInv'
<1>1. /\ Len(log) \in Nat /\ Len(log') = n /\ n - 1 = Len(log)
      /\ \A i \in 1..Len(log') : i \in 1..n - 1 \/ i = n
      /\ \A i \in 1..n - 1 : i # n /\ i \in 1..Len(log) /\ i \in 1..Len(log')
      /\ n \in 1..Len(log')
      BY DEF IInv, TypeOK, Logged
<1>2. n # 1 /\ 1 \in 1..n - 1
      BY <1>1 DEF IInv, FieldsTellHistory, Lawful
<1>3. /\ \A i \in 1..n - 1 : log'[i] = log[i]
      /\ \A i \in 1..n - 1 : \A x : Sends(i, x)' <=> Sends(i, x)
      /\ log'[n] = e /\ \A x : Sends(n, x)' <=> HasCommand(e.outbound, x)
      BY DEF Logged
<1>4. TransformOnce'
  <2>1. ASSUME NEW i \in 1..n - 1
        PROVE  /\ log'[i].enableTransform <=> i = 1
               /\ Sends(i, HANDSHAKE)' <=> i = 1
               /\ i = 1 => log'[i].outbound = <<HandshakeResponse>>
        BY <1>1, <1>3 DEF IInv, TransformOnce
  <2>2. ~log'[n].enableTransform /\ ~Sends(n, HANDSHAKE)'
        BY <1>3 DEF Lawful
  <2>. QED BY <1>1, <1>2, <2>1, <2>2 DEF TransformOnce
<1>5. VersionBarrier'
  <2>. DEFINE ok(i) ==
          LET reply == log[i].outbound
              fresh == log[i].command = CLIENT_SESSION /\ log[i].state # "ACCOUNT_PANEL_READY"
          IN  /\ fresh => /\ Len(reply) >= 2
                          /\ reply[1].command = CLIENT_SESSION
                          /\ reply[2] = BootstrapVersions(_VERSION)
              /\ Sends(i, BOOTSTRAP_VERSIONS) \/ Sends(i, SCREEN_BOOTSTRAP) => fresh
  <2>1. ASSUME NEW i \in 1..n - 1 PROVE ok(i)'
        BY <1>1, <1>3 DEF IInv, VersionBarrier
  <2>2. /\ Fresh(e) => /\ Len(e.outbound) >= 2
                       /\ e.outbound[1].command = CLIENT_SESSION
                       /\ e.outbound[2] = BootstrapVersions(_VERSION)
        /\ Sends(n, BOOTSTRAP_VERSIONS)' \/ Sends(n, SCREEN_BOOTSTRAP)' => Fresh(e)
        BY <1>3 DEF Lawful
  <2>3. ok(n)'  BY <1>3, <2>2 DEF Fresh
  <2>. QED BY <1>1, <2>1, <2>3 DEF VersionBarrier
<1>6. SplashDue <=> /\ experimentalSplashRevision # None
                    /\ \A i \in 1..n - 1 : ~Sends(i, BOOTSTRAP_VERSIONS)'
  <2>1. splashTransitionSent <=>
            /\ experimentalSplashRevision # None
            /\ \E i \in 1..Len(log) : Sends(i, BOOTSTRAP_VERSIONS)
        BY DEF IInv, FieldsTellHistory
  <2>. QED BY <1>1, <1>3, <2>1 DEF SplashDue
<1>7. SplashOnce'
  <2>1. ASSUME NEW i \in 1..n - 1
        PROVE  Sends(i, SCREEN_BOOTSTRAP)' <=>
                  /\ experimentalSplashRevision' # None
                  /\ Sends(i, BOOTSTRAP_VERSIONS)'
                  /\ \A j \in 1..i - 1 : ~Sends(j, BOOTSTRAP_VERSIONS)'
    <3>1. \A j \in 1..i - 1 : j \in 1..n - 1  OBVIOUS
    <3>2. experimentalSplashRevision' = experimentalSplashRevision  BY DEF Lawful
    <3>. QED BY <1>1, <1>3, <3>1, <3>2 DEF IInv, SplashOnce
  <2>2. Sends(n, SCREEN_BOOTSTRAP)' <=>
                  /\ experimentalSplashRevision' # None
                  /\ Sends(n, BOOTSTRAP_VERSIONS)'
                  /\ \A j \in 1..n - 1 : ~Sends(j, BOOTSTRAP_VERSIONS)'
        BY <1>3, <1>6 DEF Lawful
  <2>. QED BY <1>1, <2>1, <2>2 DEF SplashOnce
<1>8. AreaPushOnce'
  <2>1. experimentalAreaPush' = experimentalAreaPush  BY DEF Lawful
  <2>2. ASSUME NEW i \in 1..n - 1
        PROVE  (log'[i].command # AREA /\ Sends(i, AREA)') <=>
                  /\ experimentalAreaPush'
                  /\ log'[i].command = BOOTSTRAP_READY
                  /\ log'[i].state # "ACCOUNT_PANEL_READY"
        BY <1>1, <1>3, <2>1 DEF IInv, AreaPushOnce
  <2>3. (log'[n].command # AREA /\ Sends(n, AREA)') <=>
                  /\ experimentalAreaPush'
                  /\ log'[n].command = BOOTSTRAP_READY
                  /\ log'[n].state # "ACCOUNT_PANEL_READY"
        BY <1>3, <2>1 DEF Lawful
  <2>. QED BY <1>1, <2>2, <2>3 DEF AreaPushOnce
<1>9. ReadySinceFirstDB'
  <2>1. /\ \A i \in 1..n - 1 : log[i].state = "ACCOUNT_PANEL_READY" <=>
                   \E j \in 1..i - 1 : log[j].command = BOOTSTRAP_READY
        /\ state = "ACCOUNT_PANEL_READY" <=>
                   \E j \in 1..n - 1 : log[j].command = BOOTSTRAP_READY
        BY <1>1 DEF IInv, ReadySinceFirstDB
  <2>2. \A i \in 1..n : \A j \in 1..i - 1 : j \in 1..n - 1  OBVIOUS
  <2>3. \A i \in 1..n : (\E j \in 1..i - 1 : log'[j].command = BOOTSTRAP_READY) <=>
                        \E j \in 1..i - 1 : log[j].command = BOOTSTRAP_READY
        BY <1>3, <2>2
  <2>4. /\ log'[n].state = state
        /\ state' = "ACCOUNT_PANEL_READY" <=>
              state = "ACCOUNT_PANEL_READY" \/ log'[n].command = BOOTSTRAP_READY
        BY <1>3 DEF Lawful
  <2>5. \A i \in 1..n : log'[i].state = "ACCOUNT_PANEL_READY" <=>
                   \E j \in 1..i - 1 : log'[j].command = BOOTSTRAP_READY
        BY <1>1, <1>3, <2>1, <2>3, <2>4
  <2>6. state' = "ACCOUNT_PANEL_READY" <=>
                   \E j \in 1..n : log'[j].command = BOOTSTRAP_READY
        BY <1>1, <1>3, <2>1, <2>4
  <2>. QED BY <1>1, <2>5, <2>6 DEF ReadySinceFirstDB
<1>10. FieldsTellHistory'
  <2>1. state' = "AWAIT_CLIENT_E5" <=> Len(log') = 0
        BY <1>1 DEF Lawful
  <2>2. \A i \in 1..Len(log') : log'[i].state = "AWAIT_CLIENT_E5" <=> i = 1
    <3>1. \A i \in 1..n - 1 : log'[i].state = "AWAIT_CLIENT_E5" <=> i = 1
          BY <1>1, <1>3 DEF IInv, FieldsTellHistory
    <3>2. log'[n].state # "AWAIT_CLIENT_E5"  BY <1>3 DEF Lawful
    <3>. QED BY <1>1, <1>2, <3>1, <3>2
  <2>3. splashTransitionSent' <=>
            /\ experimentalSplashRevision' # None
            /\ \E i \in 1..Len(log') : Sends(i, BOOTSTRAP_VERSIONS)'
    <3>1. /\ experimentalSplashRevision' = experimentalSplashRevision
          /\ splashTransitionSent' <=>
                \/ splashTransitionSent
                \/ SplashDue /\ Sends(n, BOOTSTRAP_VERSIONS)'
          BY <1>3 DEF Lawful
    <3>2. splashTransitionSent <=>
            /\ experimentalSplashRevision # None
            /\ \E i \in 1..n - 1 : Sends(i, BOOTSTRAP_VERSIONS)'
          BY <1>1, <1>3 DEF IInv, FieldsTellHistory
    <3>3. (\E i \in 1..Len(log') : Sends(i, BOOTSTRAP_VERSIONS)') <=>
              \/ \E i \in 1..n - 1 : Sends(i, BOOTSTRAP_VERSIONS)'
              \/ Sends(n, BOOTSTRAP_VERSIONS)'
          BY <1>1
    <3>. QED BY <1>6, <3>1, <3>2, <3>3
  <2>4. areaPushSent' <=> experimentalAreaPush' /\ state' = "ACCOUNT_PANEL_READY"
        BY DEF Lawful
  <2>. QED BY <2>1, <2>2, <2>3, <2>4 DEF FieldsTellHistory
<1>. QED BY <1>4, <1>5, <1>7, <1>8, <1>9, <1>10 DEF IInv

------------------------------------------------------------------------------
(* The actions after the greeting obey that law.                           *)

NewEntry(p, out) ==
    [state |-> state, command |-> p.command, outbound |-> out, enableTransform |-> FALSE]

(* The typing of a step that logs a reply and keeps the configuration.     *)
LEMMA AnswerTyped ==
    ASSUME TypeOK, NEW p, p.command \in 0..255, NEW out \in Seq(Reply), Answer(p, out),
           state' \in States, splashTransitionSent' \in BOOLEAN, areaPushSent' \in BOOLEAN,
           UNCHANGED config,
           NEW CONSTANT n \in Nat, n = Len(log) + 1
    PROVE  TypeOK' /\ Logged(n, NewEntry(p, out))
<1>1. Outcome(p, out, FALSE)  BY Zenon DEF Answer
<1>2. FALSE \in BOOLEAN  OBVIOUS
<1>3. Logged(n, NewEntry(p, out))  BY <1>1, <1>2, LogGrows, Zenon DEF NewEntry
<1>4. /\ log' \in Seq(Entry)
      /\ outcome' \in [outbound : Seq(Reply), enableTransform : BOOLEAN]
      BY <1>3, Zenon DEF Logged
<1>5. /\ experimentalSplashRevision' = experimentalSplashRevision
      /\ experimentalAreaPush' = experimentalAreaPush
      BY Zenon DEF config
<1>6. TypeOK'  BY <1>4, <1>5, Zenon DEF TypeOK
<1>. QED BY <1>3, <1>6

(* Packets that are merely acknowledged are lawful.                        *)
LEMMA AcknowledgeStep ==
    ASSUME IInv, NEW p, Acknowledge(p)
    PROVE  IInv'
<1>. DEFINE out == Replies(p.command)
            n == Len(log) + 1
            e == NewEntry(p, out)
<1>1. /\ p.command \in Acknowledged(state) /\ Answer(p, out)
      /\ state' = state /\ UNCHANGED config
      /\ splashTransitionSent' = splashTransitionSent /\ areaPushSent' = areaPushSent
      BY Zenon DEF Acknowledge, UnchangedSession
<1>2. TypeOK /\ state \in States /\ n \in Nat  BY DEF IInv, TypeOK
<1>3. out \in Seq(Reply)  BY RepliesType
<1>4. /\ ~HasCommand(out, HANDSHAKE)
      /\ ~HasCommand(out, BOOTSTRAP_VERSIONS)
      /\ ~HasCommand(out, SCREEN_BOOTSTRAP)
      /\ HasCommand(out, AREA) => p.command = AREA
      /\ p.command = CLIENT_SESSION => state = "ACCOUNT_PANEL_READY"
      /\ p.command # BOOTSTRAP_READY \/ state = "ACCOUNT_PANEL_READY"
      /\ state # "AWAIT_CLIENT_E5" /\ p.command \in 0..255
      BY <1>1, <1>2, AcknowledgedReplies
<1>5. state' \in States /\ splashTransitionSent' \in BOOLEAN /\ areaPushSent' \in BOOLEAN
      BY <1>1, <1>2, Zenon DEF TypeOK
<1>. HIDE DEF out, n
<1>6. TypeOK' /\ Logged(n, e)
  <2>1. n = Len(log) + 1  BY DEF n
  <2>. QED BY <1>1, <1>2, <1>3, <1>4, <1>5, <2>1, AnswerTyped, Zenon
<1>7. areaPushSent <=> experimentalAreaPush /\ state = "ACCOUNT_PANEL_READY"
      BY DEF IInv, FieldsTellHistory
<1>8. Lawful(e)
  <2>1. /\ e.state = state /\ e.command = p.command /\ e.outbound = out
        /\ e.enableTransform = FALSE
        BY DEF NewEntry
  <2>2. /\ experimentalSplashRevision' = experimentalSplashRevision
        /\ experimentalAreaPush' = experimentalAreaPush
        BY <1>1, Zenon DEF config
  <2>. QED BY <1>1, <1>4, <1>7, <2>1, <2>2, Zenon DEF Lawful, Fresh
<1>9. n = Len(log) + 1  BY DEF n
<1>. HIDE DEF e
<1>. QED BY <1>2, <1>6, <1>8, <1>9, LawfulStep, Zenon

(* So is the 0xDB that makes the panel ready.                              *)
LEMMA BootstrapReadyStep ==
    ASSUME IInv, NEW p, BootstrapReady(p),
           state \in {"AWAIT_INITIAL_BB", "BOOTSTRAP"}
    PROVE  IInv'
<1>. DEFINE out == AreaPushIfEnabled
            n == Len(log) + 1
            e == NewEntry(p, out)
<1>1. /\ p.command = BOOTSTRAP_READY /\ Answer(p, out)
      /\ state' = "ACCOUNT_PANEL_READY" /\ UNCHANGED config
      /\ splashTransitionSent' = splashTransitionSent
      /\ areaPushSent' = (areaPushSent \/ AreaPushDue)
      BY Zenon DEF BootstrapReady
<1>2. TypeOK /\ n \in Nat /\ p.command \in 0..255
      BY <1>1 DEF IInv, TypeOK, BOOTSTRAP_READY
<1>3. out \in Seq(Reply) /\ \A x : HasCommand(out, x) <=> AreaPushDue /\ x = AREA
      BY AreaPushReply
<1>4. state' \in States /\ splashTransitionSent' \in BOOLEAN /\ areaPushSent' \in BOOLEAN
      BY <1>1, <1>2, Zenon DEF TypeOK, States
<1>. HIDE DEF out, n
<1>5. n = Len(log) + 1  BY DEF n
<1>6. TypeOK' /\ Logged(n, e)
      BY <1>1, <1>2, <1>3, <1>4, <1>5, AnswerTyped, Zenon
<1>7. Lawful(e)
  <2>1. /\ e.state = state /\ e.command = p.command /\ e.outbound = out
        /\ e.enableTransform = FALSE
        BY DEF NewEntry
  <2>2. /\ experimentalSplashRevision' = experimentalSplashRevision
        /\ experimentalAreaPush' = experimentalAreaPush
        BY <1>1, Zenon DEF config
  <2>3. /\ state # "AWAIT_CLIENT_E5" /\ state # "ACCOUNT_PANEL_READY"
        /\ "ACCOUNT_PANEL_READY" # "AWAIT_CLIENT_E5"
        OBVIOUS
  <2>4. ~areaPushSent  BY <2>3 DEF IInv, FieldsTellHistory
  <2>5. areaPushSent' <=> experimentalAreaPush
        BY <1>1, <2>4, Zenon DEF AreaPushDue
  <2>6. AreaPushDue <=> experimentalAreaPush  BY <2>4, Zenon DEF AreaPushDue
  <2>7. /\ ~HasCommand(out, HANDSHAKE) /\ ~HasCommand(out, BOOTSTRAP_VERSIONS)
        /\ ~HasCommand(out, SCREEN_BOOTSTRAP)
        /\ HasCommand(out, AREA) <=> AreaPushDue
        BY <1>3 DEF HANDSHAKE, BOOTSTRAP_VERSIONS, SCREEN_BOOTSTRAP, AREA
  <2>8. BOOTSTRAP_READY # CLIENT_SESSION /\ BOOTSTRAP_READY # AREA
        BY DEF BOOTSTRAP_READY, CLIENT_SESSION, AREA
  <2>. QED BY <1>1, <2>1, <2>2, <2>3, <2>5, <2>6, <2>7, <2>8, Zenon DEF Lawful, Fresh
<1>. HIDE DEF e
<1>. QED BY <1>2, <1>5, <1>6, <1>7, LawfulStep, Zenon

(* So is a 0xBB before that.                                               *)
LEMMA SessionRequestStep ==
    ASSUME IInv, NEW p, SessionRequest(p),
           state \in {"AWAIT_INITIAL_BB", "BOOTSTRAP"}
    PROVE  IInv'
<1>. DEFINE out == InitialBootstrapResponses
            n == Len(log) + 1
            e == NewEntry(p, out)
<1>1. /\ p.command = CLIENT_SESSION /\ Answer(p, out)
      /\ state' = "BOOTSTRAP" /\ UNCHANGED config
      /\ splashTransitionSent' = (splashTransitionSent \/ SplashDue)
      /\ areaPushSent' = areaPushSent
      BY Zenon DEF SessionRequest
<1>2. TypeOK /\ n \in Nat /\ p.command \in 0..255
      BY <1>1 DEF IInv, TypeOK, CLIENT_SESSION
<1>3. /\ out \in Seq(Reply) /\ Len(out) >= 2
      /\ out[1].command = CLIENT_SESSION /\ out[2] = BootstrapVersions(_VERSION)
      /\ \A x : HasCommand(out, x) <=> \/ x \in {CLIENT_SESSION, BOOTSTRAP_VERSIONS}
                                       \/ SplashDue /\ x = SCREEN_BOOTSTRAP
  <2>1. experimentalSplashRevision \in SplashRevisions  BY <1>2 DEF TypeOK
  <2>. QED BY <2>1, BarrierReply
<1>4. state' \in States /\ splashTransitionSent' \in BOOLEAN /\ areaPushSent' \in BOOLEAN
      BY <1>1, <1>2, Zenon DEF TypeOK, States
<1>. HIDE DEF out, n
<1>5. n = Len(log) + 1  BY DEF n
<1>6. TypeOK' /\ Logged(n, e)
      BY <1>1, <1>2, <1>3, <1>4, <1>5, AnswerTyped, Zenon
<1>7. Lawful(e)
  <2>1. /\ e.state = state /\ e.command = p.command /\ e.outbound = out
        /\ e.enableTransform = FALSE
        BY DEF NewEntry
  <2>2. /\ experimentalSplashRevision' = experimentalSplashRevision
        /\ experimentalAreaPush' = experimentalAreaPush
        BY <1>1, Zenon DEF config
  <2>3. /\ state # "AWAIT_CLIENT_E5" /\ state # "ACCOUNT_PANEL_READY"
        /\ "BOOTSTRAP" # "AWAIT_CLIENT_E5" /\ "BOOTSTRAP" # "ACCOUNT_PANEL_READY"
        OBVIOUS
  <2>4. ~areaPushSent  BY <2>3 DEF IInv, FieldsTellHistory
  <2>5. /\ ~HasCommand(out, HANDSHAKE) /\ ~HasCommand(out, AREA)
        /\ HasCommand(out, BOOTSTRAP_VERSIONS)
        /\ HasCommand(out, SCREEN_BOOTSTRAP) <=> SplashDue
        BY <1>3 DEF HANDSHAKE, BOOTSTRAP_VERSIONS, SCREEN_BOOTSTRAP, AREA, CLIENT_SESSION
  <2>6. CLIENT_SESSION # BOOTSTRAP_READY
        BY DEF BOOTSTRAP_READY, CLIENT_SESSION
  <2>. QED BY <1>1, <1>3, <2>1, <2>2, <2>3, <2>4, <2>5, <2>6, Zenon DEF Lawful, Fresh
<1>. HIDE DEF e
<1>. QED BY <1>2, <1>5, <1>6, <1>7, LawfulStep, Zenon

------------------------------------------------------------------------------
(* Whatever packet is handled, the invariant stays.                        *)
LEMMA HandleIInv == ASSUME IInv, NEW p, Handle(p) PROVE IInv'
<1>1. CASE HandleE5(p)  BY <1>1, GreetingStep
<1>2. CASE HandleInitialBB(p)
  <2>1. state \in {"AWAIT_INITIAL_BB", "BOOTSTRAP"}  BY <1>2 DEF HandleInitialBB
  <2>2. Acknowledge(p) \/ BootstrapReady(p) \/ SessionRequest(p)
        BY <1>2, Zenon DEF HandleInitialBB
  <2>. QED BY <2>1, <2>2, AcknowledgeStep, BootstrapReadyStep, SessionRequestStep
<1>3. CASE HandleBootstrap(p)
  <2>1. state \in {"AWAIT_INITIAL_BB", "BOOTSTRAP"}  BY <1>3 DEF HandleBootstrap
  <2>2. Acknowledge(p) \/ BootstrapReady(p) \/ SessionRequest(p)
        BY <1>3, Zenon DEF HandleBootstrap
  <2>. QED BY <2>1, <2>2, AcknowledgeStep, BootstrapReadyStep, SessionRequestStep
<1>4. CASE HandleReady(p)  BY <1>4, AcknowledgeStep, Zenon DEF HandleReady
<1>. QED BY <1>1, <1>2, <1>3, <1>4, Zenon DEF Handle

(* So it does when the session is left alone.                              *)
LEMMA UnchangedIInv == ASSUME IInv, UNCHANGED sessionVars PROVE IInv'
BY Zenon DEF sessionVars, config, IInv, TypeOK, TransformOnce, VersionBarrier,
   SplashOnce, AreaPushOnce, ReadySinceFirstDB, FieldsTellHistory, Sends

(* Every step of the session preserves the invariant.                      *)
LEMMA NextIInv == IInv /\ [SessionNext]_sessionVars => IInv'
BY HandleIInv, UnchangedIInv, Zenon DEF SessionNext

(* The invariant holds of every run.                                       *)
THEOREM SessionIInv == SessionSpec => []IInv
BY InitIInv, NextIInv, PTL DEF SessionSpec

(* The fields keep their types and every reply is a packet the server may  *)
(* encode: session.py never builds a command or payload byte out of range. *)
THEOREM SessionTypeCorrect == SessionSpec => []TypeOK
<1>1. IInv => TypeOK  BY Zenon DEF IInv
<1>. QED BY <1>1, SessionIInv, PTL

(* The transform is enabled by the first accepted packet and never again   *)
(* (session.py:87-92), in sessions of any length.                          *)
THEOREM SessionTransformOnce == SessionSpec => []TransformOnce
<1>1. IInv => TransformOnce  BY Zenon DEF IInv
<1>. QED BY <1>1, SessionIInv, PTL

(* Every barrier follows its 0xBB and none is raised once the panel is     *)
(* ready (session.py:125-131).                                             *)
THEOREM SessionVersionBarrier == SessionSpec => []VersionBarrier
<1>1. IInv => VersionBarrier  BY Zenon DEF IInv
<1>. QED BY <1>1, SessionIInv, PTL

(* The splash screen goes out with the first barrier only                  *)
(* (session.py:288-297).                                                   *)
THEOREM SessionSplashOnce == SessionSpec => []SplashOnce
<1>1. IInv => SplashOnce  BY Zenon DEF IInv
<1>. QED BY <1>1, SessionIInv, PTL

(* The unsolicited area list goes out with the first 0xDB only             *)
(* (session.py:255-259).                                                   *)
THEOREM SessionAreaPushOnce == SessionSpec => []AreaPushOnce
<1>1. IInv => AreaPushOnce  BY Zenon DEF IInv
<1>. QED BY <1>1, SessionIInv, PTL

(* Ready means that a 0xDB was accepted, and stays so                      *)
(* (session.py:105-108, 156-159).                                          *)
THEOREM SessionReadySinceFirstDB == SessionSpec => []ReadySinceFirstDB
<1>1. IInv => ReadySinceFirstDB  BY Zenon DEF IInv
<1>. QED BY <1>1, SessionIInv, PTL

(* The fields sum up the history (session.py:63-72).                       *)
THEOREM SessionFieldsTellHistory == SessionSpec => []FieldsTellHistory
<1>1. IInv => FieldsTellHistory  BY Zenon DEF IInv
<1>. QED BY <1>1, SessionIInv, PTL

------------------------------------------------------------------------------
(* The burst of a step is the commands of the reply it logs.               *)
LEMMA BurstOfStep ==
    ASSUME NEW p, NEW out, NEW t, Outcome(p, out, t)
    PROVE  Commands(outcome.outbound)' = Commands(out)
<1>1. outcome'.outbound = out  BY DEF Outcome
<1>. QED BY <1>1 DEF Commands

(* Bursts of up to three replies, command by command.                      *)
LEMMA ShortBursts ==
    /\ Commands(<<>>) = <<>>
    /\ \A a : Commands(<<a>>) = <<a.command>>
    /\ \A a, b : Commands(<<a, b>>) = <<a.command, b.command>>
    /\ \A r : Len(r) = 3 => Commands(r) = <<r[1].command, r[2].command, r[3].command>>
<1>1. Commands(<<>>) = <<>>  BY DEF Commands
<1>2. ASSUME NEW a PROVE Commands(<<a>>) = <<a.command>>  BY DEF Commands
<1>3. ASSUME NEW a, NEW b PROVE Commands(<<a, b>>) = <<a.command, b.command>>
      BY DEF Commands
<1>4. ASSUME NEW r, Len(r) = 3
      PROVE  Commands(r) = <<r[1].command, r[2].command, r[3].command>>
      BY <1>4 DEF Commands
<1>. QED BY <1>1, <1>2, <1>3, <1>4

(* A packet that is merely acknowledged is answered as ReplyOnce allows.   *)
LEMMA AcknowledgedBurst ==
    ASSUME NEW s \in States, NEW c \in Acknowledged(s)
    PROVE  \/ Commands(Replies(c)) = <<>>
           \/ \E x \in {253, 218, 225, 224} \cup
                       IF Phase(s) = "open" THEN {169} ELSE {187, 228} :
                  Commands(Replies(c)) = <<x>>
<1>. USE DEF UNKNOWN_07, POST_RESET_STATUS, CLIENT_TEXT_72, TRANSPORT_SYNC, CLIENT_U32_B2,
             CLIENT_SESSION, SCREEN_BOOTSTRAP, CLIENT_SELECTION, BOOTSTRAP_DA, BOOTSTRAP_READY,
             BOOTSTRAP_E0, BOOTSTRAP_E1, BOOTSTRAP_VERSIONS, AREA, HANDSHAKE, PRELOGIN_STATUS
<1>1. /\ c \in {7, 58, 114, 169, 178, 187, 196, 198, 218, 219, 224, 225, 228, 253}
      /\ c = 169 => Phase(s) = "open"
      /\ c \in {187, 228} => Phase(s) # "open"
      BY DEF Acknowledged, States, Phase
<1>2. \/ Replies(c) = <<>>
      \/ c \in {169, 253, 187, 228, 218, 225, 224} /\ \E r : Replies(c) = <<r>> /\ r.command = c
      BY <1>1, SMTT(30) DEF Replies, Message, ServerTransportReset2, ServerPreloginStatus,
                  ServerSessionResponse, ServerAreaList, BootstrapDaResponse,
                  BootstrapE1Response, BootstrapE0EmptyResponse
<1>3. CASE Replies(c) = <<>>  BY <1>3, ShortBursts
<1>4. CASE c \in {169, 253, 187, 228, 218, 225, 224} /\ \E r : Replies(c) = <<r>> /\ r.command = c
  <2>1. PICK r : Replies(c) = <<r>> /\ r.command = c  BY <1>4
  <2>2. Commands(Replies(c)) = <<c>>  BY <2>1, ShortBursts
  <2>3. c \in {253, 218, 225, 224} \cup IF Phase(s) = "open" THEN {169} ELSE {187, 228}
        BY <1>1, <1>4
  <2>. QED BY <2>2, <2>3
<1>. QED BY <1>2, <1>3, <1>4

(* The barrier burst, with the splash behind it when it is due.            *)
LEMMA BarrierBurst ==
    ASSUME experimentalSplashRevision \in SplashRevisions
    PROVE  Commands(InitialBootstrapResponses) =
               IF SplashDue THEN <<187, 226, 196>> ELSE <<187, 226>>
<1>. DEFINE a == ServerSessionResponse
            b == BootstrapVersions(_VERSION)
            z == ScreenBootstrapResponse(experimentalSplashRevision)
<1>1. a.command = 187 /\ b.command = 226 /\ z.command = 196
      BY DEF ServerSessionResponse, BootstrapVersions, ScreenBootstrapResponse, Message,
             CLIENT_SESSION, BOOTSTRAP_VERSIONS, SCREEN_BOOTSTRAP
<1>2. a \in Reply /\ b \in Reply  BY ServerPacketTypes
<1>3. CASE SplashDue
  <2>1. experimentalSplashRevision \in -128..127
        BY <1>3, LoginSessionAssumption DEF SplashDue
  <2>2. z \in Reply  BY <2>1, ServerPacketTypes
  <2>3. InitialBootstrapResponses = <<a, b>> \o <<z>>
        BY <1>3 DEF InitialBootstrapResponses
  <2>. DEFINE R == <<a, b>> \o <<z>>
  <2>. HIDE DEF a, b, z
  <2>4. <<a, b>> \in Seq(Reply) /\ <<z>> \in Seq(Reply)  BY <1>2, <2>2
  <2>5. Len(R) = 3 /\ R[1] = a /\ R[2] = b /\ R[3] = z  BY <2>4
  <2>. HIDE DEF R
  <2>6. Commands(R) = <<187, 226, 196>>  BY <1>1, <2>5, ShortBursts
  <2>. QED BY <1>3, <2>3, <2>6 DEF R
<1>4. CASE ~SplashDue
  <2>1. InitialBootstrapResponses = <<a, b>>  BY <1>4 DEF InitialBootstrapResponses
  <2>. HIDE DEF a, b
  <2>2. Commands(<<a, b>>) = <<187, 226>>  BY <1>1, ShortBursts
  <2>. QED BY <1>4, <2>1, <2>2
<1>. QED BY <1>3, <1>4

------------------------------------------------------------------------------
(* One lemma per action of LoginPromise.                                   *)

(* HandleE5 is Greet.                                                      *)
LEMMA GreetingIsGreet ==
    ASSUME NEW p, HandleE5(p)
    PROVE  Promise!Greet
<1>1. /\ state = "AWAIT_CLIENT_E5" /\ state' = "AWAIT_INITIAL_BB"
      /\ Outcome(p, <<HandshakeResponse>>, TRUE)
      /\ experimentalSplashRevision' = experimentalSplashRevision
      /\ experimentalAreaPush' = experimentalAreaPush
      /\ splashTransitionSent' = splashTransitionSent /\ areaPushSent' = areaPushSent
      BY Zenon DEF HandleE5, config
<1>2. Phase(state) = "hello" /\ Phase(state') = "open"  BY <1>1 DEF Phase
<1>3. Commands(outcome.outbound)' = <<229>>
  <2>1. HandshakeResponse.command = 229  BY DEF HandshakeResponse, Message, HANDSHAKE
  <2>2. Commands(outcome.outbound)' = Commands(<<HandshakeResponse>>)
        BY <1>1, BurstOfStep, Zenon
  <2>. QED BY <2>1, <2>2, ShortBursts
<1>4. SplashDue' = SplashDue /\ AreaPushDue' = AreaPushDue
      BY <1>1, Zenon DEF SplashDue, AreaPushDue
<1>. QED BY <1>2, <1>3, <1>4, Zenon DEF Promise!Greet, Promise!Greeting

(* Acknowledge is ReplyOnce.                                               *)
LEMMA AcknowledgeIsReplyOnce ==
    ASSUME TypeOK, NEW p, Acknowledge(p)
    PROVE  Promise!ReplyOnce
<1>1. /\ p.command \in Acknowledged(state) /\ Outcome(p, Replies(p.command), FALSE)
      /\ state' = state
      /\ experimentalSplashRevision' = experimentalSplashRevision
      /\ experimentalAreaPush' = experimentalAreaPush
      /\ splashTransitionSent' = splashTransitionSent /\ areaPushSent' = areaPushSent
      BY Zenon DEF Acknowledge, Answer, UnchangedSession, config
<1>2. state \in States  BY DEF TypeOK
<1>3. Phase(state) # "hello"
      BY <1>1, <1>2, AcknowledgedReplies DEF Phase
<1>4. Phase(state') = Phase(state)  BY <1>1, Zenon
<1>5. SplashDue' = SplashDue /\ AreaPushDue' = AreaPushDue
      BY <1>1, Zenon DEF SplashDue, AreaPushDue
<1>6. Commands(outcome.outbound)' = Commands(Replies(p.command))
      BY <1>1, BurstOfStep, Zenon
<1>7. \/ Commands(outcome.outbound)' = <<>>
      \/ \E x \in {253, 218, 225, 224} \cup
                  IF Phase(state) = "open" THEN {169} ELSE {187, 228} :
             Commands(outcome.outbound)' = <<x>>
      BY <1>1, <1>2, <1>6, AcknowledgedBurst
<1>. QED BY <1>3, <1>4, <1>5, <1>7, Zenon
         DEF Promise!ReplyOnce, Promise!AnyTime, Promise!Session, Promise!Areas

(* BootstrapReady before the panel is ready is BecomeReady.                *)
LEMMA ReadyIsBecomeReady ==
    ASSUME NEW p, BootstrapReady(p), state \in {"AWAIT_INITIAL_BB", "BOOTSTRAP"}
    PROVE  Promise!BecomeReady
<1>1. /\ Outcome(p, AreaPushIfEnabled, FALSE)
      /\ state' = "ACCOUNT_PANEL_READY"
      /\ experimentalSplashRevision' = experimentalSplashRevision
      /\ experimentalAreaPush' = experimentalAreaPush
      /\ splashTransitionSent' = splashTransitionSent
      /\ areaPushSent' = (areaPushSent \/ AreaPushDue)
      BY Zenon DEF BootstrapReady, Answer, config
<1>2. Phase(state) = "open" /\ Phase(state') = "ready"  BY <1>1 DEF Phase
<1>3. SplashDue' = SplashDue /\ AreaPushDue' = FALSE
      BY <1>1, Zenon DEF SplashDue, AreaPushDue
<1>4. Commands(outcome.outbound)' = IF AreaPushDue THEN <<228>> ELSE <<>>
  <2>1. ServerAreaList.command = 228  BY DEF ServerAreaList, Message, AREA
  <2>2. Commands(outcome.outbound)' = Commands(AreaPushIfEnabled)
        BY <1>1, BurstOfStep, Zenon
  <2>3. CASE AreaPushDue
    <3>1. AreaPushIfEnabled = <<ServerAreaList>>  BY <2>3 DEF AreaPushIfEnabled
    <3>2. Commands(<<ServerAreaList>>) = <<228>>  BY <2>1, ShortBursts
    <3>. QED BY <2>2, <2>3, <3>1, <3>2
  <2>4. CASE ~AreaPushDue
    <3>1. AreaPushIfEnabled = <<>>  BY <2>4 DEF AreaPushIfEnabled
    <3>. QED BY <2>2, <2>4, <3>1, ShortBursts
  <2>. QED BY <2>3, <2>4
<1>. QED BY <1>2, <1>3, <1>4, Zenon DEF Promise!BecomeReady, Promise!Areas

(* SessionRequest before the panel is ready is RaiseBarrier.               *)
LEMMA RequestIsRaiseBarrier ==
    ASSUME TypeOK, NEW p, SessionRequest(p), state \in {"AWAIT_INITIAL_BB", "BOOTSTRAP"}
    PROVE  Promise!RaiseBarrier
<1>1. /\ Outcome(p, InitialBootstrapResponses, FALSE)
      /\ state' = "BOOTSTRAP"
      /\ experimentalSplashRevision' = experimentalSplashRevision
      /\ experimentalAreaPush' = experimentalAreaPush
      /\ splashTransitionSent' = (splashTransitionSent \/ SplashDue)
      /\ areaPushSent' = areaPushSent
      BY Zenon DEF SessionRequest, Answer, config
<1>2. Phase(state) = "open" /\ Phase(state') = "open"  BY <1>1 DEF Phase
<1>3. SplashDue' = FALSE /\ AreaPushDue' = AreaPushDue
      BY <1>1, Zenon DEF SplashDue, AreaPushDue
<1>4. Commands(outcome.outbound)' =
          IF SplashDue THEN <<187, 226, 196>> ELSE <<187, 226>>
  <2>1. experimentalSplashRevision \in SplashRevisions  BY DEF TypeOK
  <2>2. Commands(outcome.outbound)' = Commands(InitialBootstrapResponses)
        BY <1>1, BurstOfStep, Zenon
  <2>. QED BY <2>1, <2>2, BarrierBurst
<1>. QED BY <1>2, <1>3, <1>4, Zenon
         DEF Promise!RaiseBarrier, Promise!Session, Promise!Versions, Promise!Screen

------------------------------------------------------------------------------
(* The refinement.                                                         *)

(* The session starts as the promise does.                                 *)
LEMMA PromiseInitially == SessionInit => Promise!PromiseInit
<1>. SUFFICES ASSUME SessionInit PROVE Promise!PromiseInit  OBVIOUS
<1>1. Phase(state) = "hello"  BY DEF SessionInit, Phase
<1>2. Commands(outcome.outbound) = <<>>
  <2>1. outcome.outbound = <<>>  BY DEF SessionInit, NoOutcome
  <2>. QED BY <2>1, ShortBursts
<1>3. SplashDue \in BOOLEAN /\ AreaPushDue \in BOOLEAN
      BY Zenon DEF SessionInit, SplashDue, AreaPushDue
<1>. QED BY <1>1, <1>2, <1>3 DEF Promise!PromiseInit

(* Every handled packet is a step of the promise.                          *)
LEMMA HandlePromise ==
    ASSUME TypeOK, NEW p, Handle(p)
    PROVE  Promise!PromiseNext
<1>1. CASE HandleE5(p)  BY <1>1, GreetingIsGreet DEF Promise!PromiseNext
<1>2. CASE HandleInitialBB(p) \/ HandleBootstrap(p)
  <2>1. state \in {"AWAIT_INITIAL_BB", "BOOTSTRAP"}
        BY <1>2 DEF HandleInitialBB, HandleBootstrap
  <2>2. Acknowledge(p) \/ BootstrapReady(p) \/ SessionRequest(p)
        BY <1>2, Zenon DEF HandleInitialBB, HandleBootstrap
  <2>3. Promise!ReplyOnce \/ Promise!BecomeReady \/ Promise!RaiseBarrier
        BY <2>1, <2>2, AcknowledgeIsReplyOnce, ReadyIsBecomeReady, RequestIsRaiseBarrier
  <2>. QED BY <2>3, Zenon DEF Promise!PromiseNext
<1>3. CASE HandleReady(p)
  <2>1. Promise!ReplyOnce  BY <1>3, AcknowledgeIsReplyOnce, Zenon DEF HandleReady
  <2>. QED BY <2>1, Zenon DEF Promise!PromiseNext
<1>. QED BY <1>1, <1>2, <1>3, Zenon DEF Handle

(* A step that leaves the session alone leaves the promise alone.          *)
LEMMA UnchangedPromise == ASSUME UNCHANGED sessionVars PROVE UNCHANGED Promise!promiseVars
<1>1. /\ state' = state /\ outcome' = outcome
      /\ experimentalSplashRevision' = experimentalSplashRevision
      /\ experimentalAreaPush' = experimentalAreaPush
      /\ splashTransitionSent' = splashTransitionSent /\ areaPushSent' = areaPushSent
      BY Zenon DEF sessionVars, config
<1>. QED BY <1>1, Zenon DEF Promise!promiseVars, SplashDue, AreaPushDue

(* Every step of the session is a step of the promise, or leaves it alone. *)
LEMMA PromiseStep ==
    TypeOK /\ [SessionNext]_sessionVars => [Promise!PromiseNext]_(Promise!promiseVars)
BY HandlePromise, UnchangedPromise, Zenon DEF SessionNext

(* The session keeps LoginPromise (session.py:78-306).                     *)
THEOREM SessionKeepsPromise == SessionSpec => KeepsPromise
<1>1. SessionSpec => []TypeOK  BY SessionTypeCorrect
<1>. QED BY <1>1, PromiseInitially, PromiseStep, PTL
         DEF SessionSpec, KeepsPromise, Promise!PromiseSpec

(* A session only moves forward (session.py:78-194).                       *)
THEOREM SessionNeverRegresses == SessionSpec => NeverRegresses
<1>1. TypeOK /\ [SessionNext]_sessionVars => [Rank[state'] >= Rank[state]]_sessionVars
  <2>. SUFFICES ASSUME TypeOK, SessionNext PROVE Rank[state'] >= Rank[state]
       OBVIOUS
  <2>1. PICK p \in ClientPackets : Handle(p)  BY Zenon DEF SessionNext
  <2>2. state \in States /\ Rank[state] \in Int  BY DEF TypeOK, States, Rank
  <2>3. CASE HandleE5(p)  BY <2>3 DEF HandleE5, Rank
  <2>4. CASE Acknowledge(p)
    <3>1. state' = state  BY <2>4, Zenon DEF Acknowledge, UnchangedSession
    <3>. QED BY <2>2, <3>1
  <2>5. CASE /\ state \in {"AWAIT_INITIAL_BB", "BOOTSTRAP"}
             /\ BootstrapReady(p) \/ SessionRequest(p)
    <3>1. state' \in {"ACCOUNT_PANEL_READY", "BOOTSTRAP"}
          BY <2>5 DEF BootstrapReady, SessionRequest
    <3>. QED BY <2>5, <3>1 DEF Rank
  <2>6. \/ HandleE5(p) \/ Acknowledge(p)
        \/ /\ state \in {"AWAIT_INITIAL_BB", "BOOTSTRAP"}
           /\ BootstrapReady(p) \/ SessionRequest(p)
        BY <2>1 DEF Handle, HandleInitialBB, HandleBootstrap, HandleReady
  <2>. QED BY <2>3, <2>4, <2>5, <2>6
<1>. QED BY <1>1, SessionTypeCorrect, PTL DEF SessionSpec, NeverRegresses

------------------------------------------------------------------------------
(* What the server says.                                                   *)

(* A reply: it fits a frame of either width and is no heartbeat.           *)
Speech == {p \in Packet : Len(p.payload) < Word /\ p.command # HEARTBEAT}

(* A payload below 65536 bytes fits a frame of either width.               *)
LEMMA ShortIsEncodable ==
    ASSUME NEW p \in Packet, Len(p.payload) < Word, NEW d
    PROVE  Encodable(p, d)
<1>. DEFINE n == Len(p.payload)
<1>1. n \in Nat /\ n < Word  BY DEF Packet
<1>. HIDE DEF n
<1>2. n < Word /\ n \div Word < Word  BY <1>1 DEF Word
<1>. QED BY <1>2, Zenon DEF Encodable, n

(* The length of a concatenation.                                          *)
LEMMA Joined ==
    \A s, t \in Seq(Byte) : s \o t \in Seq(Byte) /\ Len(s \o t) = Len(s) + Len(t)
BY BytesConcatenation

(* Whatever the session answers with is short and no heartbeat.            *)
LEMMA ServerPacketsShort ==
    /\ HandshakeResponse \in Speech
    /\ ServerTransportReset2 \in Speech
    /\ ServerPreloginStatus \in Speech
    /\ ServerSessionResponse \in Speech
    /\ BootstrapVersions(_VERSION) \in Speech
    /\ BootstrapDaResponse(_VERSION) \in Speech
    /\ BootstrapE1Response(_VERSION) \in Speech
    /\ BootstrapE0EmptyResponse(_VERSION) \in Speech
    /\ ServerAreaList \in Speech
    /\ \A r \in -128..127 : ScreenBootstrapResponse(r) \in Speech
<1>1. \A p \in Reply : p \in Packet  BY DEF Reply, Packet, Byte
<1>2. \A p \in {HandshakeResponse, ServerSessionResponse, ServerAreaList} :
          p \in Packet /\ ~UsesLength32(p.command, ServerToClient) => Len(p.payload) < Word
  <2>. SUFFICES ASSUME NEW p \in {HandshakeResponse, ServerSessionResponse, ServerAreaList},
                       p \in Packet, ~UsesLength32(p.command, ServerToClient)
                PROVE  Len(p.payload) < Word
       OBVIOUS
  <2>1. Encodable(p, ServerToClient)  BY RepliesFit, Zenon
  <2>. QED BY <2>1, Zenon DEF Encodable
<1>3. /\ HandshakeResponse.command = 229 /\ ServerSessionResponse.command = 187
      /\ ServerAreaList.command = 228
      BY DEF HandshakeResponse, ServerSessionResponse, ServerAreaList, Message, HANDSHAKE,
             CLIENT_SESSION, AREA
<1>4. \A c \in {229, 187, 228} : ~UsesLength32(c, ServerToClient) /\ c # HEARTBEAT
      BY DEF UsesLength32, LENGTH32_SERVER_COMMANDS, HEARTBEAT
<1>5. HandshakeResponse \in Speech /\ ServerSessionResponse \in Speech /\ ServerAreaList \in Speech
  <2>. DEFINE H == HandshakeResponse
              S == ServerSessionResponse
              A == ServerAreaList
  <2>1. H \in Packet /\ S \in Packet /\ A \in Packet  BY <1>1, ServerPacketTypes
  <2>2. \A p \in {H, S, A} : p \in Packet /\ ~UsesLength32(p.command, ServerToClient)
                                => Len(p.payload) < Word
        BY <1>2
  <2>3. H.command = 229 /\ S.command = 187 /\ A.command = 228  BY <1>3
  <2>. HIDE DEF H, S, A
  <2>4. /\ Len(H.payload) < Word /\ Len(S.payload) < Word /\ Len(A.payload) < Word
        /\ H.command # HEARTBEAT /\ S.command # HEARTBEAT /\ A.command # HEARTBEAT
        BY <1>4, <2>1, <2>2, <2>3
  <2>5. H \in Speech /\ S \in Speech /\ A \in Speech  BY <2>1, <2>4 DEF Speech
  <2>. QED BY <2>5 DEF H, S, A
<1>6. ServerTransportReset2 \in Speech /\ ServerPreloginStatus \in Speech
  <2>1. Len(<<2>>) = 1 /\ Len(<<1>>) = 1  OBVIOUS
  <2>2. ServerTransportReset2 \in Packet /\ ServerPreloginStatus \in Packet
        BY <1>1, ServerPacketTypes
  <2>. QED BY <2>1, <2>2 DEF Speech, Word, ServerTransportReset2, ServerPreloginStatus, Message,
           TRANSPORT_SYNC, PRELOGIN_STATUS, HEARTBEAT
<1>7. BootstrapVersions(_VERSION) \in Speech
  <2>1. BootstrapVersions(_VERSION) \in Packet  BY <1>1, ServerPacketTypes
  <2>. DEFINE v == <<_VERSION, _VERSION, _VERSION>>
  <2>2. v \in Seq(Byte) /\ Len(v) = 3  BY DEF _VERSION, Byte
  <2>3. BootstrapVersions(_VERSION) = Message(BOOTSTRAP_VERSIONS, v)
        BY Zenon DEF BootstrapVersions
  <2>. HIDE DEF v
  <2>4. Message(BOOTSTRAP_VERSIONS, v) \in Packet  BY <2>1, <2>3, Zenon
  <2>5. /\ Message(BOOTSTRAP_VERSIONS, v).payload = v
        /\ Message(BOOTSTRAP_VERSIONS, v).command = BOOTSTRAP_VERSIONS
        BY DEF Message
  <2>6. 3 < Word /\ BOOTSTRAP_VERSIONS # HEARTBEAT
        BY DEF Word, BOOTSTRAP_VERSIONS, HEARTBEAT
  <2>. QED BY <2>2, <2>3, <2>4, <2>5, <2>6, Zenon DEF Speech
<1>8. /\ U32(1) \in Seq(Byte) /\ Len(U32(1)) = 4
      /\ U32(2) \in Seq(Byte) /\ Len(U32(2)) = 4
      /\ U16(0) \in Seq(Byte) /\ Len(U16(0)) = 2
  <2>1. 0 \in 0..2 /\ 1 \in 0..2 /\ 2 \in 0..2  OBVIOUS
  <2>. QED BY <2>1, SmallNumbers DEF Byte
<1>. DEFINE one == <<0>>
            two == <<0, 0>>
<1>9. /\ Blob32(one) \in Seq(Byte) /\ Len(Blob32(one)) = 5
      /\ Blob32(two) \in Seq(Byte) /\ Len(Blob32(two)) = 6
  <2>1. one \in Seq(Byte) /\ Len(one) = 1 /\ two \in Seq(Byte) /\ Len(two) = 2  BY DEF Byte
  <2>. HIDE DEF one, two
  <2>2. /\ U32(1) \o one \in Seq(Byte) /\ Len(U32(1) \o one) = 4 + 1
        /\ U32(2) \o two \in Seq(Byte) /\ Len(U32(2) \o two) = 4 + 2
        BY <1>8, <2>1, Joined, Zenon
  <2>3. Blob32(one) = U32(1) \o one /\ Blob32(two) = U32(2) \o two  BY <2>1, Zenon DEF Blob32
  <2>4. 4 + 1 = 5 /\ 4 + 2 = 6  OBVIOUS
  <2>. QED BY <2>2, <2>3, <2>4, Zenon
<1>10. BootstrapDaResponse(_VERSION) \in Speech
  <2>. DEFINE v == <<_VERSION>>
              b == Blob32(one)
  <2>1. v \in Seq(Byte) /\ Len(v) = 1  BY DEF _VERSION, Byte
  <2>2. b \in Seq(Byte) /\ Len(b) = 5  BY <1>9
  <2>3. BootstrapDaResponse(_VERSION) = Message(BOOTSTRAP_DA, v \o b)
        BY Zenon DEF BootstrapDaResponse
  <2>4. BootstrapDaResponse(_VERSION) \in Packet  BY <1>1, ServerPacketTypes
  <2>. HIDE DEF v, b
  <2>5. Len(v \o b) = 1 + 5  BY <2>1, <2>2, Joined, Zenon
  <2>. QED BY <2>3, <2>4, <2>5 DEF Speech, Word, Message, BOOTSTRAP_DA, HEARTBEAT
<1>11. BootstrapE1Response(_VERSION) \in Speech
  <2>. DEFINE v == <<_VERSION>>
              b == Blob32(one)
              t == Blob32(two)
  <2>1. v \in Seq(Byte) /\ Len(v) = 1  BY DEF _VERSION, Byte
  <2>2. b \in Seq(Byte) /\ Len(b) = 5 /\ t \in Seq(Byte) /\ Len(t) = 6  BY <1>9
  <2>3. BootstrapE1Response(_VERSION) = Message(BOOTSTRAP_E1, v \o t \o t \o b)
        BY Zenon DEF BootstrapE1Response
  <2>4. BootstrapE1Response(_VERSION) \in Packet  BY <1>1, ServerPacketTypes
  <2>. HIDE DEF v, b, t
  <2>5. v \o t \in Seq(Byte) /\ Len(v \o t) = 1 + 6  BY <2>1, <2>2, Joined, Zenon
  <2>6. v \o t \o t \in Seq(Byte) /\ Len(v \o t \o t) = 1 + 6 + 6
        BY <2>2, <2>5, Joined, Zenon
  <2>7. Len(v \o t \o t \o b) = 1 + 6 + 6 + 5  BY <2>2, <2>6, Joined, Zenon
  <2>. QED BY <2>3, <2>4, <2>7 DEF Speech, Word, Message, BOOTSTRAP_E1, HEARTBEAT
<1>12. BootstrapE0EmptyResponse(_VERSION) \in Speech
  <2>. DEFINE v == <<_VERSION, 0>>
              z == U16(0)
  <2>1. v \in Seq(Byte) /\ Len(v) = 2  BY DEF _VERSION, Byte
  <2>2. z \in Seq(Byte) /\ Len(z) = 2  BY <1>8
  <2>3. BootstrapE0EmptyResponse(_VERSION) = Message(BOOTSTRAP_E0, v \o z)
        BY Zenon DEF BootstrapE0EmptyResponse
  <2>4. BootstrapE0EmptyResponse(_VERSION) \in Packet  BY <1>1, ServerPacketTypes
  <2>. HIDE DEF v, z
  <2>5. Len(v \o z) = 2 + 2  BY <2>1, <2>2, Joined, Zenon
  <2>. QED BY <2>3, <2>4, <2>5 DEF Speech, Word, Message, BOOTSTRAP_E0, HEARTBEAT
<1>13. ASSUME NEW r \in -128..127 PROVE ScreenBootstrapResponse(r) \in Speech
  <2>. DEFINE none == <<>>
              v == <<0, r % 256>>
              z == String16(none)
  <2>0. r \in Int  OBVIOUS
  <2>1. r % 256 \in Byte /\ 0 \in Byte  BY <2>0 DEF Byte
  <2>2. v \in Seq(Byte) /\ Len(v) = 2  BY <2>1
  <2>3. none \in Seq(Byte) /\ Len(none) = 0  OBVIOUS
  <2>4. ScreenBootstrapResponse(r) = Message(SCREEN_BOOTSTRAP, v \o z)
        BY Zenon DEF ScreenBootstrapResponse
  <2>5. ScreenBootstrapResponse(r) \in Packet  BY <1>1, ServerPacketTypes
  <2>. HIDE DEF none, v
  <2>6. z = U16(0) \o none  BY <2>3, Zenon DEF String16
  <2>. HIDE DEF z
  <2>7. z \in Seq(Byte) /\ Len(z) = 2 + 0  BY <1>8, <2>3, <2>6, Joined, Zenon
  <2>8. Len(v \o z) = 2 + (2 + 0)  BY <2>2, <2>7, Joined, Zenon
  <2>. QED BY <2>4, <2>5, <2>8 DEF Speech, Word, Message, SCREEN_BOOTSTRAP, HEARTBEAT
<1>. QED BY <1>5, <1>6, <1>7, <1>10, <1>11, <1>12, <1>13, Zenon

(* Every reply the session gives is made of such packets, and what it logs *)
(* is what it answers.                                                     *)
LEMMA RepliesShort == ASSUME NEW c PROVE Replies(c) \in Seq(Speech)
<1>. DEFINE A == {ServerTransportReset2, ServerPreloginStatus, ServerSessionResponse,
                  ServerAreaList, BootstrapDaResponse(_VERSION),
                  BootstrapE1Response(_VERSION), BootstrapE0EmptyResponse(_VERSION)}
<1>1. Replies(c) = <<>> \/ \E p \in A : Replies(c) = <<p>>  BY DEF Replies
<1>2. \A p \in A : p \in Speech  BY ServerPacketsShort, Zenon
<1>. HIDE DEF A
<1>3. \A p \in Speech : <<p>> \in Seq(Speech)  OBVIOUS
<1>4. <<>> \in Seq(Speech)  OBVIOUS
<1>. QED BY <1>1, <1>2, <1>3, <1>4, Zenon

(* The replies of the version barrier are short and no heartbeats.         *)
LEMMA BarrierShort ==
    ASSUME experimentalSplashRevision \in SplashRevisions
    PROVE  InitialBootstrapResponses \in Seq(Speech)
<1>. DEFINE a == ServerSessionResponse
            b == BootstrapVersions(_VERSION)
            z == ScreenBootstrapResponse(experimentalSplashRevision)
<1>1. a \in Speech /\ b \in Speech  BY ServerPacketsShort
<1>2. CASE SplashDue
  <2>1. experimentalSplashRevision \in -128..127
        BY <1>2, LoginSessionAssumption DEF SplashDue
  <2>2. z \in Speech  BY <2>1, ServerPacketsShort
  <2>3. InitialBootstrapResponses = <<a, b>> \o <<z>>
        BY <1>2, Zenon DEF InitialBootstrapResponses
  <2>. HIDE DEF a, b, z
  <2>4. <<a, b>> \in Seq(Speech) /\ <<z>> \in Seq(Speech)  BY <1>1, <2>2
  <2>5. <<a, b>> \o <<z>> \in Seq(Speech)  BY <2>4, ConcatProperties
  <2>. QED BY <2>3, <2>5
<1>3. CASE ~SplashDue
  <2>1. InitialBootstrapResponses = <<a, b>> \o <<>>
        BY <1>3, Zenon DEF InitialBootstrapResponses
  <2>. HIDE DEF a, b
  <2>2. <<a, b>> \in Seq(Speech) /\ <<>> \in Seq(Speech)  BY <1>1
  <2>3. <<a, b>> \o <<>> \in Seq(Speech)  BY <2>2, ConcatProperties
  <2>. QED BY <2>1, <2>3
<1>. QED BY <1>2, <1>3

(* One packet handled: one entry, which tells the reply.                   *)
HandledAs(p) ==
    /\ outcome'.outbound \in Seq(Speech)
    /\ log' = Append(log, [state |-> state, command |-> p.command,
                           outbound |-> outcome'.outbound,
                           enableTransform |-> outcome'.enableTransform])

(* Every handler answers so.                                               *)
LEMMA HandledReply ==
    ASSUME IInv, NEW p, Handle(p)
    PROVE  HandledAs(p)
<1>1. ASSUME NEW out \in Seq(Speech), NEW t, Outcome(p, out, t) PROVE HandledAs(p)
  <2>1. outcome' = [outbound |-> out, enableTransform |-> t]  BY <1>1, Zenon DEF Outcome
  <2>2. outcome'.outbound = out /\ outcome'.enableTransform = t  BY <2>1
  <2>3. log' = Append(log, [state |-> state, command |-> p.command, outbound |-> out,
                            enableTransform |-> t])
        BY <1>1, Zenon DEF Outcome
  <2>. QED BY <1>1, <2>2, <2>3, Zenon DEF HandledAs
<1>2. CASE HandleE5(p)
  <2>1. Outcome(p, <<HandshakeResponse>>, TRUE)  BY <1>2, Zenon DEF HandleE5
  <2>2. <<HandshakeResponse>> \in Seq(Speech)  BY ServerPacketsShort
  <2>. QED BY <1>1, <2>1, <2>2, Zenon
<1>3. CASE Acknowledge(p)
  <2>1. Outcome(p, Replies(p.command), FALSE)  BY <1>3, Zenon DEF Acknowledge, Answer
  <2>. QED BY <1>1, <2>1, RepliesShort, Zenon
<1>4. CASE BootstrapReady(p)
  <2>1. Outcome(p, AreaPushIfEnabled, FALSE)  BY <1>4, Zenon DEF BootstrapReady, Answer
  <2>2. AreaPushIfEnabled = <<ServerAreaList>> \/ AreaPushIfEnabled = <<>>
        BY Zenon DEF AreaPushIfEnabled
  <2>3. <<ServerAreaList>> \in Seq(Speech) /\ <<>> \in Seq(Speech)  BY ServerPacketsShort
  <2>. QED BY <1>1, <2>1, <2>2, <2>3, Zenon
<1>5. CASE SessionRequest(p)
  <2>1. Outcome(p, InitialBootstrapResponses, FALSE)  BY <1>5, Zenon DEF SessionRequest, Answer
  <2>2. InitialBootstrapResponses \in Seq(Speech)  BY BarrierShort, Zenon DEF IInv, TypeOK
  <2>. QED BY <1>1, <2>1, <2>2, Zenon
<1>. QED BY <1>2, <1>3, <1>4, <1>5, Zenon
     DEF Handle, HandleInitialBB, HandleBootstrap, HandleReady
------------------------------------------------------------------------------
(* What the server writes.                                                 *)

(* The stream is the frames of the first n packets; the first leaves the   *)
(* cursor at the start of the key, each later one behind its bytes.        *)
Speaks(stream, frames, packets, n) ==
    /\ OnWire(stream, frames, ServerToClient, NoCursor)
    /\ Len(frames) = n
    /\ \A k \in 1..n :
          /\ frames[k].packet = packets[k]
          /\ frames[k].cursor = IF k = 1 THEN 0
                 ELSE CursorAfter(packets[k], ServerToClient, CursorBehind(frames, k - 1, NoCursor))

(* One more packet, written with the cursor of the last one.               *)
LEMMA SpeaksMore ==
    ASSUME NEW stream, NEW frames, NEW packets, NEW n, Speaks(stream, frames, packets, n),
           packets[n + 1] \in Packet, Encodable(packets[n + 1], ServerToClient)
    PROVE  LET p == packets[n + 1]
               c == CursorBehind(frames, n, NoCursor)
               f == EncodeFrame(p, ServerToClient, c)
           IN  \E more : /\ Speaks(stream \o f, more, packets, n + 1)
                         /\ CursorBehind(more, n + 1, NoCursor)
                                = IF n = 0 THEN 0 ELSE CursorAfter(p, ServerToClient, c)
<1>. DEFINE d == ServerToClient
            p == packets[n + 1]
            c == CursorBehind(frames, n, NoCursor)
            f == EncodeFrame(p, d, c)
            a == IF n = 0 THEN 0 ELSE CursorAfter(p, d, c)
            item == [packet |-> p, end |-> Len(stream) + Len(f), cursor |-> a]
            more == Append(frames, item)
<1>1. OnWire(stream, frames, d, NoCursor) /\ n = Len(frames)  BY Zenon DEF Speaks
<1>2. frames \in Seq(SentFrame)  BY <1>1, Zenon DEF OnWire
<1>3. n \in Nat /\ n \in 0..n  BY <1>1, <1>2, LenProperties
<1>4. c \in Cursors  BY <1>1, <1>3, WireEnds
<1>5. a \in Cursors
  <2>1. 0 \in Cursors /\ CursorAfter(p, d, c) \in Cursors  BY <1>4, CursorTypes
  <2>. QED BY <2>1, Zenon
<1>. SUFFICES Speaks(stream \o f, more, packets, n + 1) /\ CursorBehind(more, n + 1, NoCursor) = a
     BY Zenon
<1>6. p \in Packet /\ Encodable(p, d)  OBVIOUS
<1>. HIDE DEF a, p, d
<1>7. /\ OnWire(stream \o f, more, d, NoCursor)
      /\ Extends(stream \o f, more, stream, frames, NoCursor, n, p, a)
      BY <1>1, <1>5, <1>6, WireGrows
<1>. HIDE DEF more, f, c
<1>8. /\ \A k \in 0..n : CursorBehind(more, k, NoCursor) = CursorBehind(frames, k, NoCursor)
      /\ \A k \in 1..n : more[k] = frames[k]
      /\ more[n + 1].packet = p /\ more[n + 1].cursor = a /\ Len(more) = n + 1
      BY <1>7, Zenon DEF Extends
<1>9. n + 1 # 0  BY <1>3
<1>10. CursorBehind(more, n + 1, NoCursor) = a  BY <1>8, <1>9, Zenon DEF CursorBehind
<1>11. ASSUME NEW k \in 1..n + 1
       PROVE  /\ more[k].packet = packets[k]
              /\ more[k].cursor = IF k = 1 THEN 0
                     ELSE CursorAfter(packets[k], ServerToClient, CursorBehind(more, k - 1, NoCursor))
  <2>1. CASE k # n + 1
    <3>1. k \in 1..n /\ k - 1 \in 0..n  BY <1>3, <2>1
    <3>2. more[k] = frames[k]
          /\ CursorBehind(more, k - 1, NoCursor) = CursorBehind(frames, k - 1, NoCursor)
          BY <1>8, <3>1, Zenon
    <3>. QED BY <3>1, <3>2, Zenon DEF Speaks
  <2>2. CASE k = n + 1
    <3>1. k - 1 = n /\ (k = 1 <=> n = 0)  BY <1>3, <2>2
    <3>2. CursorBehind(more, k - 1, NoCursor) = c  BY <1>3, <1>8, <3>1, Zenon DEF c
    <3>. QED BY <1>8, <2>2, <3>1, <3>2, Zenon DEF a, p, d
  <2>. QED BY <2>1, <2>2
<1>. QED BY <1>7, <1>8, <1>10, <1>11, Zenon DEF Speaks, d

(* A packet that fits a frame of either width.                             *)
Short == {p \in Packet : Len(p.payload) < Word}

(* Heartbeats and replies are such packets.                                *)
LEMMA ShortPackets ==
    /\ <<Heartbeat>> \in Seq(Short)
    /\ \A packets \in Seq(Speech) : packets \in Seq(Short)
<1>1. Heartbeat \in Short
  <2>1. Heartbeat.command = HEARTBEAT /\ Heartbeat.payload = <<>>  BY DEF Heartbeat, Message
  <2>2. Heartbeat \in Packet  BY DEF Heartbeat, Message, Packet, HEARTBEAT, Byte
  <2>3. Len(<<>>) = 0 /\ 0 < Word  BY DEF Word
  <2>. QED BY <2>1, <2>2, <2>3, Zenon DEF Short
<1>2. Speech \subseteq Short  BY Zenon DEF Speech, Short
<1>3. <<Heartbeat>> \in Seq(Short)
  <2>. DEFINE h == Heartbeat
  <2>1. h \in Short  BY <1>1
  <2>. HIDE DEF h
  <2>2. <<h>> \in Seq(Short)  BY <2>1
  <2>. QED BY <2>2 DEF h
<1>4. \A packets \in Seq(Speech) : packets \in Seq(Short)
  <2>. DEFINE A == Speech
              B == Short
  <2>1. A \subseteq B  BY <1>2
  <2>. HIDE DEF A, B
  <2>2. \A packets \in Seq(A) : packets \in Seq(B)  BY <2>1
  <2>. QED BY <2>2 DEF A, B
<1>. QED BY <1>3, <1>4

(* Written, packet by packet.                                              *)
WrittenSteps(g, packets, stream, c) ==
    /\ Written(packets, stream, c) = g[Len(packets)]
    /\ g[0].bytes = stream /\ g[0].cursor = c
    /\ \A n \in 1..Len(packets) :
          /\ g[n].bytes = g[n - 1].bytes \o EncodeFrame(packets[n], ServerToClient, g[n - 1].cursor)
          /\ g[n].cursor = CursorAfter(packets[n], ServerToClient, g[n - 1].cursor)

(* Written's recursive function exists, and so steps.                      *)
LEMMA WrittenInSteps ==
    ASSUME NEW packets \in Seq(Short), NEW stream \in Seq(Byte), NEW c \in Cursors
    PROVE  \E g : WrittenSteps(g, packets, stream, c)
<1>. DEFINE S == [bytes : Seq(Byte), cursor : Cursors]
            m == Len(packets)
            a == [bytes |-> stream, cursor |-> c]
            Behind(b, n) == [bytes  |-> b.bytes \o EncodeFrame(packets[n], ServerToClient, b.cursor),
                             cursor |-> CursorAfter(packets[n], ServerToClient, b.cursor)]
            step == [x \in S \X (1..m) |-> Behind(x[1], x[2])]
            P(g) == g = [n \in 0..m |-> IF n = 0 THEN a ELSE Behind(g[n - 1], n)]
<1>1. m \in Nat /\ a \in S  BY LenProperties
<1>2. ASSUME NEW b \in S, NEW n \in 1..m PROVE Behind(b, n) \in S
  <2>. DEFINE f == EncodeFrame(packets[n], ServerToClient, b.cursor)
              e == CursorAfter(packets[n], ServerToClient, b.cursor)
  <2>1. packets[n] \in Short  BY ElementOfSeq
  <2>2. packets[n] \in Packet /\ Len(packets[n].payload) < Word  BY <2>1, Zenon DEF Short
  <2>3. Encodable(packets[n], ServerToClient)  BY <2>2, ShortIsEncodable
  <2>4. b.bytes \in Seq(Byte) /\ b.cursor \in Cursors  OBVIOUS
  <2>5. f \in Seq(Byte)  BY <2>2, <2>3, <2>4, FrameWritten
  <2>6. e \in Cursors  BY <2>2, <2>3, <2>4, CursorTypes
  <2>. HIDE DEF f, e
  <2>7. b.bytes \o f \in Seq(Byte)  BY <2>4, <2>5, Joined, Zenon
  <2>8. [bytes |-> b.bytes \o f, cursor |-> e] \in S  BY <2>6, <2>7
  <2>. QED BY <2>8, Zenon DEF f, e
<1>. HIDE DEF Behind
<1>3. step \in [S \X (1..m) -> S]  BY <1>2
<1>4. \A b \in S, n \in 1..m : step[<<b, n>>] = Behind(b, n)  OBVIOUS
<1>. HIDE DEF S, step, a, m
<1>5. PICK g \in [0..m -> S] : g[0] = a /\ \A n \in 1..m : g[n] = step[<<g[n - 1], n>>]
  <2>1. PICK g : Recurs(g, S, m, a, step)  BY <1>1, <1>3, RecursionUpTo, Zenon
  <2>. QED BY <2>1, Zenon DEF Recurs
<1>6. P(g)
  <2>1. ASSUME NEW n \in 1..m PROVE g[n] = Behind(g[n - 1], n)
    <3>1. n - 1 \in 0..m  BY <1>1
    <3>. QED BY <1>4, <1>5, <3>1
  <2>2. ASSUME NEW n \in 0..m PROVE g[n] = IF n = 0 THEN a ELSE Behind(g[n - 1], n)
    <3>1. n = 0 \/ n \in 1..m  BY <1>1
    <3>. QED BY <1>5, <2>1, <3>1
  <2>. QED BY <1>5, <2>2
<1>. DEFINE h == CHOOSE z : P(z)
<1>7. P(h)  BY <1>6, Zenon
<1>8. Written(packets, stream, c) = h[m]  BY Zenon DEF Written, Behind, a, m
<1>. HIDE DEF h
<1>9. h[0] = a /\ \A n \in 1..m : h[n] = Behind(h[n - 1], n)
  <2>1. ASSUME NEW n \in 0..m PROVE h[n] = IF n = 0 THEN a ELSE Behind(h[n - 1], n)
        BY <1>7
  <2>2. 0 \in 0..m /\ \A n \in 1..m : n \in 0..m /\ n # 0  BY <1>1
  <2>. QED BY <2>1, <2>2
<1>10. a.bytes = stream /\ a.cursor = c  BY DEF a
<1>11. \A b, n : /\ Behind(b, n).bytes = b.bytes \o EncodeFrame(packets[n], ServerToClient, b.cursor)
                 /\ Behind(b, n).cursor = CursorAfter(packets[n], ServerToClient, b.cursor)
       BY DEF Behind
<1>12. WrittenSteps(h, packets, stream, c)
       BY <1>8, <1>9, <1>10, <1>11, Zenon DEF WrittenSteps, m
<1>. QED BY <1>12, Zenon

(* Two sequences of packets that agree up to n say the same up to there.   *)
LEMMA SpeaksAgain ==
    ASSUME NEW stream, NEW frames, NEW before, NEW after, NEW n,
           Speaks(stream, frames, before, n), \A k \in 1..n : after[k] = before[k]
    PROVE  Speaks(stream, frames, after, n)
BY Zenon DEF Speaks

(* Packets written behind others.                                          *)
LEMMA WrittenSpeaks ==
    ASSUME NEW stream, NEW frames, NEW before \in Seq(Packet), NEW packets \in Seq(Short),
           NEW l, l = Len(before), Speaks(stream, frames, before, l), l # 0 \/ Len(packets) = 0,
           NEW c, c = CursorBehind(frames, l, NoCursor),
           NEW w, w = Written(packets, stream, c)
    PROVE  \E more : /\ Speaks(w.bytes, more, before \o packets, l + Len(packets))
                     /\ CursorBehind(more, l + Len(packets), NoCursor) = w.cursor
<1>. DEFINE m == Len(packets)
            all == before \o packets
            d == ServerToClient
<1>1. l \in Nat /\ m \in Nat  BY LenProperties
<1>2. /\ \A k \in 1..l : all[k] = before[k]
      /\ \A k \in 1..m : all[l + k] = packets[k]
  <2>1. packets \in Seq(Packet)
    <3>1. Short \subseteq Packet  BY Zenon DEF Short
    <3>. QED BY <3>1
  <2>. QED BY <2>1, Concatenation
<1>3. OnWire(stream, frames, d, NoCursor) /\ Len(frames) = l  BY Zenon DEF Speaks
<1>4. stream \in Seq(Byte)  BY <1>3, Zenon DEF OnWire
<1>5. c \in Cursors
  <2>1. l \in 0..l  BY <1>1
  <2>. QED BY <1>3, <2>1, WireEnds
<1>6. PICK g : WrittenSteps(g, packets, stream, c)
  <2>. HIDE DEF m, all
  <2>. QED BY <1>4, <1>5, WrittenInSteps
<1>. HIDE DEF all, m
<1>. DEFINE T == {n \in 0..m : \E more : /\ Speaks(g[n].bytes, more, all, l + n)
                                         /\ CursorBehind(more, l + n, NoCursor) = g[n].cursor}
<1>7. 0 \in T
  <2>1. l + 0 = l /\ 0 \in 0..m  BY <1>1
  <2>2. g[0].bytes = stream /\ g[0].cursor = c  BY <1>6, Zenon DEF WrittenSteps
  <2>3. Speaks(stream, frames, all, l)  BY <1>2, SpeaksAgain
  <2>. QED BY <2>1, <2>2, <2>3, Zenon
<1>8. ASSUME NEW n \in 0..m - 1, n \in T PROVE n + 1 \in T
  <2>. DEFINE j == n + 1
              p == packets[j]
  <2>1. /\ j \in 1..m /\ j \in 0..m /\ j - 1 = n /\ l + n + 1 = l + j /\ l # 0
        /\ l + n # 0 /\ l + n \in Nat
        BY <1>1 DEF m
  <2>2. PICK more : /\ Speaks(g[n].bytes, more, all, l + n)
                    /\ CursorBehind(more, l + n, NoCursor) = g[n].cursor
        BY <1>8, Zenon
  <2>3. p \in Packet /\ Encodable(p, d)
    <3>1. p \in Short  BY <2>1, ElementOfSeq DEF m
    <3>2. p \in Packet /\ Len(p.payload) < Word  BY <3>1, Zenon DEF Short
    <3>. QED BY <3>2, ShortIsEncodable
  <2>4. all[l + n + 1] = p  BY <1>2, <2>1
  <2>5. PICK again : /\ Speaks(g[n].bytes \o EncodeFrame(p, d, g[n].cursor), again, all, l + n + 1)
                     /\ CursorBehind(again, l + n + 1, NoCursor)
                            = IF l + n = 0 THEN 0 ELSE CursorAfter(p, d, g[n].cursor)
    <3>. DEFINE s == g[n].bytes
                x == l + n
    <3>. HIDE DEF p
    <3>1. Speaks(s, more, all, x) /\ all[x + 1] = p
          /\ CursorBehind(more, x, NoCursor) = g[n].cursor
          BY <2>2, <2>4
    <3>. HIDE DEF x, s
    <3>2. \E again : /\ Speaks(s \o EncodeFrame(all[x + 1], d, CursorBehind(more, x, NoCursor)),
                               again, all, x + 1)
                     /\ CursorBehind(again, x + 1, NoCursor)
                            = IF x = 0 THEN 0
                              ELSE CursorAfter(all[x + 1], d, CursorBehind(more, x, NoCursor))
          BY <2>3, <3>1, SpeaksMore
    <3>. QED BY <3>1, <3>2, Zenon DEF s, x
  <2>. HIDE DEF j, p
  <2>6. /\ g[j].bytes = g[n].bytes \o EncodeFrame(p, d, g[n].cursor)
        /\ g[j].cursor = CursorAfter(p, d, g[n].cursor)
        BY <1>6, <2>1, Zenon DEF WrittenSteps, p, m
  <2>7. Speaks(g[j].bytes, again, all, l + j) /\ CursorBehind(again, l + j, NoCursor) = g[j].cursor
        BY <2>1, <2>5, <2>6, Zenon
  <2>. QED BY <2>1, <2>7, Zenon DEF j
<1>9. m \in T
  <2>. HIDE DEF T
  <2>1. 0..m \subseteq T  BY <1>1, <1>7, <1>8, BoundedInduction
  <2>. QED BY <1>1, <2>1
<1>10. w = g[m]  BY <1>6, Zenon DEF WrittenSteps, m
<1>. QED BY <1>9, <1>10, Zenon DEF all, m

(* The greeting, alone on an empty stream and in the clear.                *)
LEMMA GreetingSpoken ==
    ASSUME NEW p \in Short, NEW w, w = Written(<<p>>, <<>>, NoCursor)
    PROVE  /\ w.cursor = NoCursor
           /\ \E more : Speaks(w.bytes, more, <<p>>, 1)
<1>. DEFINE packets == <<p>>
            none == <<>>
<1>1. packets \in Seq(Short) /\ Len(packets) = 1 /\ packets[1] = p
      /\ none \in Seq(Byte) /\ Len(none) = 0
      OBVIOUS
<1>2. w = Written(packets, none, NoCursor)  OBVIOUS
<1>3. NoCursor \in Cursors  BY Zenon DEF Cursors
<1>. HIDE DEF packets, none
<1>4. PICK g : WrittenSteps(g, packets, none, NoCursor)  BY <1>1, <1>3, WrittenInSteps
<1>5. 1 \in 1..Len(packets) /\ 1 - 1 = 0 /\ 0 + 1 = 1  BY <1>1
<1>6. /\ g[0].bytes = none /\ g[0].cursor = NoCursor /\ w = g[1]
      /\ g[1].bytes = g[0].bytes \o EncodeFrame(p, ServerToClient, g[0].cursor)
      /\ g[1].cursor = CursorAfter(p, ServerToClient, g[0].cursor)
      BY <1>1, <1>2, <1>4, <1>5, Zenon DEF WrittenSteps
<1>7. p \in Packet /\ Encodable(p, ServerToClient)
  <2>1. p \in Packet /\ Len(p.payload) < Word  BY Zenon DEF Short
  <2>. QED BY <2>1, ShortIsEncodable
<1>8. Speaks(none, none, packets, 0)
  <2>1. OnWire(none, none, ServerToClient, NoCursor)  BY <1>3, WireStart DEF none
  <2>2. \A k \in 1..0 : FALSE  OBVIOUS
  <2>. QED BY <1>1, <2>1, <2>2, Zenon DEF Speaks
<1>9. CursorBehind(none, 0, NoCursor) = NoCursor  BY Zenon DEF CursorBehind
<1>10. \E more : Speaks(none \o EncodeFrame(p, ServerToClient, NoCursor), more, packets, 1)
  <2>1. packets[0 + 1] = p  BY <1>1
  <2>2. \E more : /\ Speaks(none \o EncodeFrame(packets[0 + 1], ServerToClient,
                                                CursorBehind(none, 0, NoCursor)),
                            more, packets, 0 + 1)
                  /\ CursorBehind(more, 0 + 1, NoCursor)
                         = IF 0 = 0 THEN 0
                           ELSE CursorAfter(packets[0 + 1], ServerToClient,
                                            CursorBehind(none, 0, NoCursor))
        BY <1>7, <1>8, <2>1, SpeaksMore
  <2>. QED BY <1>5, <1>9, <2>1, <2>2, Zenon
<1>11. w.cursor = NoCursor  BY <1>6, Zenon DEF CursorAfter
<1>. QED BY <1>6, <1>10, <1>11, Zenon DEF packets

------------------------------------------------------------------------------
(* The inductive invariant.                                                *)

(* The reply to the greeting is on its way out and still in the clear.     *)
Greeting == pc = "draining" /\ outcome.enableTransform

(* The client's stream is the frames of its packets; the first leaves the  *)
(* cursor at the start of the key, each later one behind its bytes.        *)
Sent ==
    /\ OnWire(clientStream, clientSent, ClientToServer, NoCursor)
    /\ \A k \in 1..Len(clientSent) :
          clientSent[k].cursor = IF k = 1 THEN 0
              ELSE CursorAfter(clientSent[k].packet, ClientToServer, CursorAt(k - 1))
    /\ received \in Nat /\ received <= Len(clientStream)

(* The transform is due exactly behind the first packet.                   *)
Places ==
    /\ pc \in {"reading", "decoding", "draining", "draining_heartbeat", "closed"}
    /\ (ending = "none") <=> (pc # "closed")
    /\ outcome.enableTransform <=> (Handled = 1)

(* The decoder stands behind the packets that were handled.                *)
InStep ==
    pc # "closed" =>
        /\ Boundary(Handled) <= received
        /\ buffer = SubSeq(clientStream, Boundary(Handled) + 1, received)
        /\ inCursor = IF Greeting THEN NoCursor ELSE CursorAt(Handled)

(* The server's stream is the frames of its packets, and its cursor stands *)
(* behind them; it says nothing before the greeting and no more with it.   *)
Spoken ==
    /\ serverSent \in Seq(Packet)
    /\ (serverSent = <<>>) <=> (Handled = 0)
    /\ Greeting => Len(serverSent) = 1
    /\ \E frames :
          /\ Speaks(serverStream, frames, serverSent, Len(serverSent))
          /\ pc # "closed" => outboundCursor = IF Greeting THEN NoCursor
                                  ELSE CursorBehind(frames, Len(serverSent), NoCursor)

CInv ==
    /\ IInv /\ Sent /\ HandledInOrder /\ Places /\ InStep /\ Spoken
    /\ NoRequestHeldBack /\ CloseAfterTheLastRequest
    /\ TimeoutErrorIsBuiltin => CutOffForAReason

(* Boundaries and cursors are those of the client's frames.                *)
LEMMA BoundaryIsEnd ==
    \A k : Boundary(k) = End(clientSent, k) /\ CursorAt(k) = CursorBehind(clientSent, k, NoCursor)
BY Zenon DEF Boundary, End, CursorAt, CursorBehind

(* Boundaries lie in the stream.                                           *)
LEMMA Boundaries ==
    ASSUME Sent, NEW k \in 0..Len(clientSent)
    PROVE  /\ Boundary(k) \in Nat /\ Boundary(k) <= Len(clientStream)
           /\ CursorAt(k) \in Cursors
           /\ Len(clientSent) \in Nat /\ Len(clientStream) \in Nat
<1>1. OnWire(clientStream, clientSent, ClientToServer, NoCursor)  BY Zenon DEF Sent
<1>2. /\ End(clientSent, k) \in Nat /\ End(clientSent, k) <= Len(clientStream)
      /\ CursorBehind(clientSent, k, NoCursor) \in Cursors
      /\ Len(clientSent) \in Nat /\ Len(clientStream) \in Nat
      BY <1>1, WireEnds
<1>. QED BY <1>2, BoundaryIsEnd, Zenon

(* How many packets were handled.                                          *)
LEMMA HandledPackets ==
    ASSUME CInv
    PROVE  /\ Handled \in 0..Len(clientSent) /\ Handled \in Nat /\ Len(clientSent) \in Nat
           /\ received \in Nat /\ received <= Len(clientStream) /\ Len(clientStream) \in Nat
           /\ clientStream \in Seq(Byte)
<1>1. log \in Seq(Entry)  BY Zenon DEF CInv, IInv, TypeOK
<1>2. Handled \in Nat  BY <1>1, LenProperties DEF Handled
<1>3. Handled <= Len(clientSent)  BY Zenon DEF CInv, HandledInOrder
<1>4. clientStream \in Seq(Byte) /\ clientSent \in Seq(SentFrame)
      BY Zenon DEF CInv, Sent, OnWire
<1>5. Len(clientSent) \in Nat /\ Len(clientStream) \in Nat  BY <1>4, LenProperties
<1>6. Handled \in 0..Len(clientSent)  BY <1>2, <1>3, <1>5
<1>. QED BY <1>2, <1>4, <1>5, <1>6, Zenon DEF CInv, Sent

(* The limit of a payload is a length.                                     *)
LEMMA PayloadLimit == MaxPayloadBytes \in Nat
BY LimitsAssumption

(* What the decoder makes of its buffer: the next packet the client sent,  *)
(* a refusal of that packet, or a wait for the rest of it.                 *)
LEMMA NextRequest ==
    ASSUME CInv, pc # "closed", ~Greeting, NEW k, k = Handled
    PROVE  /\ k \in 0..Len(clientSent) /\ inCursor = CursorAt(k)
           /\ NextFrame(Decoded, buffer, clientStream, clientSent, ClientToServer, inCursor, k,
                        received, MaxPayloadBytes)
<1>1. /\ k \in 0..Len(clientSent) /\ received \in Nat /\ received <= Len(clientStream)
      BY HandledPackets
<1>2. /\ End(clientSent, k) <= received
      /\ buffer = SubSeq(clientStream, End(clientSent, k) + 1, received)
      /\ inCursor = CursorAt(k) /\ inCursor = CursorBehind(clientSent, k, NoCursor)
      BY BoundaryIsEnd, Zenon DEF CInv, InStep
<1>3. OnWire(clientStream, clientSent, ClientToServer, NoCursor)  BY Zenon DEF CInv, Sent
<1>4. MaxPayloadBytes \in Nat  BY PayloadLimit
<1>5. LET b == SubSeq(clientStream, End(clientSent, k) + 1, received)
      IN  NextFrame(DecodeOne(b, inCursor, ClientToServer, MaxPayloadBytes), b, clientStream,
                    clientSent, ClientToServer, inCursor, k, received, MaxPayloadBytes)
  <2>. DEFINE max == MaxPayloadBytes
              d == ClientToServer
  <2>1. max \in Nat /\ OnWire(clientStream, clientSent, d, NoCursor)  BY <1>3, <1>4
  <2>. HIDE DEF max, d
  <2>2. LET b == SubSeq(clientStream, End(clientSent, k) + 1, received)
        IN  NextFrame(DecodeOne(b, inCursor, d, max), b, clientStream,
                      clientSent, d, inCursor, k, received, max)
        BY <1>1, <1>2, <2>1, WireDecoded
  <2>. QED BY <2>2, Zenon DEF max, d
<1>. QED BY <1>1, <1>2, <1>5, Zenon DEF Decoded

------------------------------------------------------------------------------
(* One step at a time.                                                     *)

(* The next packet is too long, or the session does not take it.           *)
Refused ==
    /\ Handled < Len(clientSent)
    /\ LET next == clientSent[Handled + 1].packet
       IN  Len(next.payload) > MaxPayloadBytes \/ ~Accepts(next)

(* A task that ends for a good reason keeps the invariant.                 *)
LEMMA Closing ==
    ASSUME CInv, NEW why, Close(why), why # "none",
           UNCHANGED <<clientStream, clientSent, received, serverStream, serverSent, sessionVars>>,
           why = "end_of_file" => Handled = Len(clientSent),
           why = "internal_error" => ~TimeoutErrorIsBuiltin,
           why = "protocol_error" => Refused
    PROVE  CInv'
<1>1. pc' = "closed" /\ ending' = why  BY Zenon DEF Close
<1>2. log' = log /\ outcome' = outcome /\ Handled' = Handled  BY Zenon DEF sessionVars, Handled
<1>3. IInv'  BY UnchangedIInv, Zenon DEF CInv
<1>4. Sent' /\ HandledInOrder'
      BY <1>2, Zenon DEF CInv, Sent, HandledInOrder, CursorAt
<1>5. Places'
  <2>1. outcome.enableTransform <=> (Handled = 1)  BY Zenon DEF CInv, Places
  <2>2. pc' \in {"reading", "decoding", "draining", "draining_heartbeat", "closed"}  BY <1>1
  <2>. QED BY <1>1, <1>2, <2>1, <2>2, Zenon DEF Places
<1>6. InStep'  BY <1>1, Zenon DEF InStep
<1>7. Spoken'
  <2>1. "closed" # "draining"  OBVIOUS
  <2>. QED BY <1>1, <1>2, <2>1, Zenon DEF CInv, Spoken, Greeting
<1>8. NoRequestHeldBack'
  <2>1. pc' \notin {"reading", "draining_heartbeat"}  BY <1>1
  <2>. QED BY <2>1, Zenon DEF NoRequestHeldBack
<1>9. CloseAfterTheLastRequest'  BY <1>1, <1>2, Zenon DEF CloseAfterTheLastRequest
<1>10. TimeoutErrorIsBuiltin => CutOffForAReason'
  <2>1. ending' = "protocol_error" => Refused'
        BY <1>1, <1>2, Zenon DEF Refused, Accepts, ScreenRequestAllowed, sessionVars, config
  <2>. QED BY <1>1, <2>1, Zenon DEF CutOffForAReason, Refused
<1>. QED BY <1>3, <1>4, <1>5, <1>6, <1>7, <1>8, <1>9, <1>10, Zenon DEF CInv

(* The invariant holds when the task starts.                               *)
LEMMA ConnectionInit == Init => CInv
<1>. SUFFICES ASSUME Init PROVE CInv  OBVIOUS
<1>1. /\ SessionInit /\ clientStream = <<>> /\ clientSent = <<>> /\ received = 0
      /\ pc = "reading" /\ ending = "none" /\ buffer = <<>> /\ inCursor = NoCursor
      /\ outboundCursor = NoCursor /\ serverStream = <<>> /\ serverSent = <<>>
      /\ log = <<>> /\ outcome.enableTransform = FALSE
  <2>1. NoOutcome.enableTransform = FALSE  BY DEF NoOutcome
  <2>. QED BY <2>1, Zenon DEF Init, SessionInit
<1>2. Handled = 0 /\ Len(clientSent) = 0 /\ Len(clientStream) = 0 /\ Len(serverSent) = 0
      BY <1>1 DEF Handled
<1>3. IInv  BY <1>1, InitIInv, Zenon
<1>4. NoCursor \in Cursors  BY Zenon DEF Cursors
<1>5. Sent
  <2>1. OnWire(<<>>, <<>>, ClientToServer, NoCursor)  BY <1>4, WireStart
  <2>2. \A k \in 1..Len(clientSent) : FALSE  BY <1>2
  <2>3. received \in Nat /\ received <= Len(clientStream)  BY <1>1, <1>2
  <2>. QED BY <1>1, <2>1, <2>2, <2>3, Zenon DEF Sent
<1>6. HandledInOrder  BY <1>2 DEF HandledInOrder
<1>7. Places  BY <1>1, <1>2 DEF Places
<1>8. ~Greeting  BY <1>1 DEF Greeting
<1>9. InStep
  <2>1. Boundary(0) = 0 /\ CursorAt(0) = NoCursor  BY DEF Boundary, CursorAt
  <2>2. buffer = SubSeq(clientStream, 0 + 1, received) /\ 0 <= received  BY <1>1, SubSeqEmpty
  <2>. QED BY <1>1, <1>2, <1>8, <2>1, <2>2, Zenon DEF InStep
<1>10. Spoken
  <2>1. Speaks(<<>>, <<>>, <<>>, 0)
    <3>1. OnWire(<<>>, <<>>, ServerToClient, NoCursor)  BY <1>4, WireStart
    <3>2. \A k \in 1..0 : FALSE  OBVIOUS
    <3>3. Len(<<>>) = 0  OBVIOUS
    <3>. QED BY <3>1, <3>2, <3>3, Zenon DEF Speaks
  <2>2. CursorBehind(<<>>, 0, NoCursor) = NoCursor  BY Zenon DEF CursorBehind
  <2>3. <<>> \in Seq(Packet)  OBVIOUS
  <2>. QED BY <1>1, <1>2, <1>8, <2>1, <2>2, <2>3, Zenon DEF Spoken
<1>11. NoRequestHeldBack
  <2>1. Decoded = Undecided("wait", buffer, inCursor)  BY <1>1, Zenon DEF Decoded, DecodeOne
  <2>2. Undecided("wait", buffer, inCursor).kind = "wait"  BY DEF Undecided
  <2>. QED BY <2>1, <2>2, Zenon DEF NoRequestHeldBack
<1>12. CloseAfterTheLastRequest /\ CutOffForAReason
  <2>1. ending # "end_of_file" /\ ending # "internal_error" /\ ending # "protocol_error"
        BY <1>1
  <2>. QED BY <2>1, Zenon DEF CloseAfterTheLastRequest, CutOffForAReason
<1>. QED BY <1>3, <1>5, <1>6, <1>7, <1>9, <1>10, <1>11, <1>12, Zenon DEF CInv

(* What a step keeps that handles no packet.                               *)
LEMMA SessionKept ==
    ASSUME CInv, pc # "closed", UNCHANGED <<ending, sessionVars>>,
           pc' \in {"reading", "decoding", "draining", "draining_heartbeat"}
    PROVE  /\ IInv' /\ Places' /\ CloseAfterTheLastRequest' /\ CutOffForAReason'
           /\ pc' # "closed" /\ log' = log /\ outcome' = outcome /\ Handled' = Handled
<1>1. /\ pc' \in {"reading", "decoding", "draining", "draining_heartbeat", "closed"}
      /\ pc' # "closed"
      OBVIOUS
<1>2. log' = log /\ outcome' = outcome /\ Handled' = Handled  BY Zenon DEF sessionVars, Handled
<1>3. IInv'  BY UnchangedIInv, Zenon DEF CInv
<1>4. ending' = "none"  BY Zenon DEF CInv, Places
<1>5. Places'
  <2>1. outcome.enableTransform <=> (Handled = 1)  BY Zenon DEF CInv, Places
  <2>. QED BY <1>1, <1>2, <1>4, <2>1, Zenon DEF Places
<1>6. "none" # "end_of_file" /\ "none" # "internal_error" /\ "none" # "protocol_error"  OBVIOUS
<1>. QED BY <1>1, <1>2, <1>3, <1>4, <1>5, <1>6, Zenon
     DEF CloseAfterTheLastRequest, CutOffForAReason

(* And when it does not write either.                                      *)
LEMMA Kept ==
    ASSUME CInv, pc # "closed",
           UNCHANGED <<outboundCursor, serverStream, serverSent, ending, sessionVars>>,
           pc' \in {"reading", "decoding", "draining", "draining_heartbeat"},
           Greeting' <=> Greeting
    PROVE  /\ IInv' /\ Places' /\ Spoken' /\ CloseAfterTheLastRequest' /\ CutOffForAReason'
           /\ log' = log /\ Handled' = Handled
<1>1. /\ IInv' /\ Places' /\ CloseAfterTheLastRequest' /\ CutOffForAReason'
      /\ log' = log /\ Handled' = Handled
      BY SessionKept
<1>2. PICK frames :
          /\ Speaks(serverStream, frames, serverSent, Len(serverSent))
          /\ outboundCursor = IF Greeting THEN NoCursor
                              ELSE CursorBehind(frames, Len(serverSent), NoCursor)
      BY Zenon DEF CInv, Spoken
<1>3. serverSent \in Seq(Packet) /\ ((serverSent = <<>>) <=> (Handled = 0))
      /\ (Greeting => Len(serverSent) = 1)
      BY Zenon DEF CInv, Spoken
<1>4. Spoken'  BY <1>1, <1>2, <1>3, Zenon DEF Spoken
<1>. QED BY <1>1, <1>4

(* So does a step that moves the task between two awaits.                  *)
LEMMA Moving ==
    ASSUME CInv, pc # "closed",
           UNCHANGED <<clientStream, clientSent, received, buffer, inCursor, outboundCursor,
                       serverStream, serverSent, ending, sessionVars>>,
           pc' \in {"reading", "decoding", "draining", "draining_heartbeat"},
           Greeting' <=> Greeting,
           NoRequestHeldBack'
    PROVE  CInv'
<1>1. /\ IInv' /\ Places' /\ Spoken' /\ CloseAfterTheLastRequest' /\ CutOffForAReason'
      /\ log' = log /\ Handled' = Handled
      BY Kept
<1>2. Sent' /\ HandledInOrder'
      BY <1>1, Zenon DEF CInv, Sent, HandledInOrder, CursorAt
<1>3. InStep'  BY <1>1, Zenon DEF CInv, InStep, Boundary, CursorAt
<1>. QED BY <1>1, <1>2, <1>3, Zenon DEF CInv

(* The three things the decoder may say.                                   *)
LEMMA DecodedKinds ==
    ASSUME CInv, pc # "closed", ~Greeting, NEW k, k = Handled
    PROVE  /\ Decoded.kind = "wait" =>
                 /\ Decoded.buffer = buffer /\ Decoded.cursor = inCursor
                 /\ received = Len(clientStream) => k = Len(clientSent)
           /\ Decoded.kind = "oversize" => Refused
           /\ Decoded.kind = "packet" =>
                 /\ k < Len(clientSent) /\ k + 1 \in 1..Len(clientSent)
                 /\ Decoded.packet = clientSent[k + 1].packet
                 /\ Decoded.buffer = SubSeq(clientStream, Boundary(k + 1) + 1, received)
                 /\ Decoded.cursor = CursorAfter(clientSent[k + 1].packet, ClientToServer,
                                                 CursorAt(k))
                 /\ Boundary(k + 1) <= received
<1>. DEFINE r == Decoded
            s == clientSent
<1>1. /\ k \in 0..Len(s) /\ inCursor = CursorAt(k)
      /\ NextFrame(r, buffer, clientStream, s, ClientToServer, inCursor, k, received,
                   MaxPayloadBytes)
      BY NextRequest
<1>2. received \in Nat /\ Len(s) \in Nat  BY HandledPackets
<1>3. "wait" # "oversize" /\ "wait" # "packet" /\ "oversize" # "packet"  OBVIOUS
<1>4. CASE k = Len(s) /\ r = Undecided("wait", buffer, inCursor)
  <2>1. r.kind = "wait" /\ r.buffer = buffer /\ r.cursor = inCursor
        BY <1>4 DEF Undecided
  <2>2. r.kind # "oversize" /\ r.kind # "packet"  BY <1>3, <2>1, Zenon
  <2>. QED BY <1>4, <2>1, <2>2, Zenon
<1>5. CASE k + 1 \in 1..Len(s) /\ r = Undecided("wait", buffer, inCursor)
           /\ received < End(s, k + 1)
  <2>1. k + 1 \in 0..Len(s)  BY <1>2, <1>5
  <2>2. Boundary(k + 1) \in Nat /\ Boundary(k + 1) <= Len(clientStream)
        BY <2>1, Boundaries DEF CInv
  <2>3. received < Boundary(k + 1)  BY <1>5, BoundaryIsEnd, Zenon
  <2>4. received # Len(clientStream)  BY <1>2, <2>2, <2>3
  <2>5. r.kind = "wait" /\ r.buffer = buffer /\ r.cursor = inCursor
        BY <1>5 DEF Undecided
  <2>6. r.kind # "oversize" /\ r.kind # "packet"  BY <1>3, <2>5, Zenon
  <2>. QED BY <2>4, <2>5, <2>6, Zenon
<1>6. CASE k + 1 \in 1..Len(s) /\ r = Undecided("oversize", buffer, inCursor)
           /\ Len(s[k + 1].packet.payload) > MaxPayloadBytes
  <2>1. k < Len(s)  BY <1>1, <1>2, <1>6
  <2>2. Refused  BY <1>6, <2>1, Zenon DEF Refused
  <2>3. r.kind = "oversize"  BY <1>6 DEF Undecided
  <2>. QED BY <1>3, <2>2, <2>3, Zenon
<1>7. CASE /\ k + 1 \in 1..Len(s) /\ r.kind = "packet" /\ r.packet = s[k + 1].packet
           /\ r.buffer = SubSeq(clientStream, End(s, k + 1) + 1, received)
           /\ r.cursor = CursorAfter(s[k + 1].packet, ClientToServer, inCursor)
           /\ End(s, k + 1) <= received
  <2>1. k < Len(s)  BY <1>1, <1>2, <1>7
  <2>. QED BY <1>1, <1>3, <1>7, <2>1, BoundaryIsEnd, Zenon
<1>. HIDE DEF r, s
<1>. QED BY <1>1, <1>4, <1>5, <1>6, <1>7, Zenon DEF NextFrame

(* The steps that end the task.                                            *)
LEMMA EndingSteps ==
    ASSUME CInv, ReadEndOfFile \/ Oversize \/ RejectPacket \/ ConnectionLost \/ Cancelled
    PROVE  CInv'
<1>1. "closed" # "reading" /\ "closed" # "decoding" /\ "draining" # "reading"
      /\ "draining" # "decoding"
      OBVIOUS
<1>2. /\ "end_of_file" # "none" /\ "end_of_file" # "internal_error"
      /\ "end_of_file" # "protocol_error" /\ "protocol_error" # "none"
      /\ "protocol_error" # "internal_error" /\ "connection_error" # "none"
      /\ "connection_error" # "end_of_file" /\ "connection_error" # "internal_error"
      /\ "connection_error" # "protocol_error" /\ "cancelled" # "none"
      /\ "cancelled" # "end_of_file" /\ "cancelled" # "internal_error"
      /\ "cancelled" # "protocol_error"
      OBVIOUS
<1>3. CASE ReadEndOfFile
  <2>1. pc = "reading" /\ received = Len(clientStream)  BY <1>3, Zenon DEF ReadEndOfFile
  <2>2. pc # "closed" /\ ~Greeting /\ Decoded.kind = "wait"
    <3>1. pc \in {"reading", "draining_heartbeat"}  BY <2>1
    <3>. QED BY <1>1, <2>1, <3>1, Zenon DEF CInv, NoRequestHeldBack, Greeting
  <2>3. Handled = Len(clientSent)  BY <2>1, <2>2, DecodedKinds
  <2>4. UNCHANGED <<clientStream, clientSent, received, serverStream, serverSent, sessionVars>>
        /\ Close("end_of_file")
        BY <1>3, Zenon DEF ReadEndOfFile, wire, outbound
  <2>. QED BY <1>2, <2>2, <2>3, <2>4, Closing
<1>4. CASE Oversize
  <2>1. pc # "closed" /\ ~Greeting /\ Decoded.kind = "oversize"
        BY <1>1, <1>4, Zenon DEF Oversize, Greeting
  <2>2. Refused  BY <2>1, DecodedKinds
  <2>3. UNCHANGED <<clientStream, clientSent, received, serverStream, serverSent, sessionVars>>
        /\ Close("protocol_error")
        BY <1>4, Zenon DEF Oversize, wire, outbound
  <2>. QED BY <1>2, <2>1, <2>2, <2>3, Closing
<1>5. CASE RejectPacket
  <2>. SUFFICES ASSUME NEW k, k = Handled PROVE CInv'  OBVIOUS
  <2>1. pc # "closed" /\ ~Greeting /\ Decoded.kind = "packet" /\ ~Accepts(Decoded.packet)
        BY <1>1, <1>5, Zenon DEF RejectPacket, Greeting
  <2>2. k < Len(clientSent) /\ Decoded.packet = clientSent[k + 1].packet
        BY <2>1, DecodedKinds
  <2>3. Refused  BY <2>1, <2>2, Zenon DEF Refused
  <2>4. UNCHANGED <<clientStream, clientSent, received, serverStream, serverSent, sessionVars>>
        /\ Close("protocol_error")
        BY <1>5, Zenon DEF RejectPacket, wire, outbound
  <2>. QED BY <1>2, <2>1, <2>3, <2>4, Closing
<1>6. CASE ConnectionLost
  <2>1. pc # "closed"  BY <1>6 DEF ConnectionLost
  <2>2. UNCHANGED <<clientStream, clientSent, received, serverStream, serverSent, sessionVars>>
        /\ Close("connection_error")
        BY <1>6, Zenon DEF ConnectionLost, wire, outbound
  <2>. QED BY <1>2, <2>1, <2>2, Closing
<1>7. CASE Cancelled
  <2>1. pc # "closed"  BY <1>7 DEF Cancelled
  <2>2. UNCHANGED <<clientStream, clientSent, received, serverStream, serverSent, sessionVars>>
        /\ Close("cancelled")
        BY <1>7, Zenon DEF Cancelled, wire, outbound
  <2>. QED BY <1>2, <2>1, <2>2, Closing
<1>. QED BY <1>3, <1>4, <1>5, <1>6, <1>7

(* The steps that move nothing but the task's place or the client's.       *)
LEMMA MovingSteps ==
    ASSUME CInv, ClientClose \/ ClientReset \/ HeartbeatDrained \/ NeedMore
    PROVE  CInv'
<1>1. /\ "closed" # "reading" /\ "closed" # "decoding" /\ "closed" # "draining_heartbeat"
      /\ "draining" # "reading" /\ "draining" # "decoding" /\ "draining" # "draining_heartbeat"
      /\ \A x \in {"reading", "decoding", "draining", "draining_heartbeat", "closed"} :
            x # "closed" => x \in {"reading", "decoding", "draining", "draining_heartbeat"}
      /\ "reading" \in {"reading", "decoding", "draining", "draining_heartbeat"}
      /\ "draining_heartbeat" \in {"reading", "draining_heartbeat"}
      OBVIOUS
<1>2. CASE ClientClose \/ ClientReset
  <2>1. /\ pc # "closed" /\ pc' = pc
        /\ UNCHANGED <<clientStream, clientSent, received, buffer, inCursor, outboundCursor,
                       serverStream, serverSent, ending, sessionVars>>
        BY <1>2, Zenon DEF ClientClose, ClientReset, decoding, outbound
  <2>2. pc' \in {"reading", "decoding", "draining", "draining_heartbeat"}
        BY <1>1, <2>1, Zenon DEF CInv, Places
  <2>3. Greeting' <=> Greeting  BY <2>1, Zenon DEF Greeting, sessionVars
  <2>4. NoRequestHeldBack'  BY <2>1, Zenon DEF CInv, NoRequestHeldBack, Decoded
  <2>. QED BY <2>1, <2>2, <2>3, <2>4, Moving
<1>3. CASE HeartbeatDrained
  <2>1. /\ pc = "draining_heartbeat" /\ pc' = "reading"
        /\ UNCHANGED <<clientStream, clientSent, received, buffer, inCursor, outboundCursor,
                       serverStream, serverSent, ending, sessionVars>>
        BY <1>3, Zenon DEF HeartbeatDrained, wire, decoding, outbound
  <2>2. pc' \in {"reading", "decoding", "draining", "draining_heartbeat"} /\ pc # "closed"
        BY <1>1, <2>1, Zenon
  <2>3. Greeting' <=> Greeting  BY <1>1, <2>1, Zenon DEF Greeting
  <2>4. NoRequestHeldBack'  BY <1>1, <2>1, Zenon DEF CInv, NoRequestHeldBack, Decoded
  <2>. QED BY <2>1, <2>2, <2>3, <2>4, Moving
<1>4. CASE NeedMore
  <2>1. /\ pc = "decoding" /\ pc' = "reading" /\ Decoded.kind = "wait"
        /\ buffer' = Decoded.buffer /\ inCursor' = Decoded.cursor
        /\ UNCHANGED <<clientStream, clientSent, received, outboundCursor,
                       serverStream, serverSent, ending, sessionVars>>
        BY <1>4, Zenon DEF NeedMore, wire, outbound
  <2>2. pc' \in {"reading", "decoding", "draining", "draining_heartbeat"} /\ pc # "closed"
        /\ ~Greeting /\ ~Greeting'
        BY <1>1, <2>1, Zenon DEF Greeting
  <2>3. Decoded.buffer = buffer /\ Decoded.cursor = inCursor  BY <2>1, <2>2, DecodedKinds
  <2>4. UNCHANGED <<clientStream, clientSent, received, buffer, inCursor, outboundCursor,
                    serverStream, serverSent, ending, sessionVars>>
        BY <2>1, <2>3, Zenon
  <2>5. NoRequestHeldBack'  BY <2>1, <2>4, Zenon DEF NoRequestHeldBack, Decoded
  <2>. QED BY <2>2, <2>4, <2>5, Moving
<1>. QED BY <1>2, <1>3, <1>4

(* The client writes a frame.                                              *)
LEMMA ClientSendStep ==
    ASSUME CInv, NEW p \in ClientPackets, ClientSend(p)
    PROVE  CInv'
<1>. SUFFICES ASSUME NEW n, n = Len(clientSent), NEW j, j = Handled PROVE CInv'  OBVIOUS
<1>. DEFINE d == ClientToServer
            c == CursorBehind(clientSent, n, NoCursor)
            a == IF n = 0 THEN 0 ELSE CursorAfter(p, d, c)
            f == EncodeFrame(p, d, c)
            item == [packet |-> p, end |-> Len(clientStream) + Len(f), cursor |-> a]
<1>1. p \in Packet /\ Encodable(p, d)  BY ConnectionAssumption, Zenon
<1>2. OnWire(clientStream, clientSent, d, NoCursor)  BY Zenon DEF CInv, Sent
<1>3. /\ j \in 0..n /\ j \in Nat /\ n \in Nat /\ n \in 0..n
      /\ received \in Nat /\ received <= Len(clientStream) /\ Len(clientStream) \in Nat
  <2>1. /\ j \in 0..n /\ j \in Nat /\ n \in Nat
        /\ received \in Nat /\ received <= Len(clientStream) /\ Len(clientStream) \in Nat
        BY HandledPackets
  <2>. QED BY <2>1
<1>4. c \in Cursors  BY <1>2, <1>3, WireEnds
<1>5. a \in Cursors
  <2>1. 0 \in Cursors /\ CursorAfter(p, d, c) \in Cursors  BY <1>1, <1>4, CursorTypes
  <2>. QED BY <2>1, Zenon
<1>6. /\ clientStream' = clientStream \o f /\ clientSent' = Append(clientSent, item)
      /\ pc # "closed" /\ pc' = pc
      /\ UNCHANGED <<received, buffer, inCursor, outboundCursor, serverStream, serverSent,
                     ending, sessionVars>>
  <2>1. CursorAt(n) = c  BY BoundaryIsEnd, Zenon
  <2>. QED BY <2>1, Zenon DEF ClientSend, decoding, outbound
<1>. HIDE DEF a
<1>7. /\ OnWire(clientStream \o f, Append(clientSent, item), d, NoCursor)
      /\ Extends(clientStream \o f, Append(clientSent, item), clientStream, clientSent,
                 NoCursor, n, p, a)
      BY <1>1, <1>2, <1>5, WireGrows
<1>. HIDE DEF f, item, c
<1>8. /\ OnWire(clientStream', clientSent', d, NoCursor)
      /\ Extends(clientStream', clientSent', clientStream, clientSent, NoCursor, n, p, a)
      BY <1>6, <1>7, Zenon
<1>9. \A k : /\ Boundary(k)' = End(clientSent', k)
             /\ CursorAt(k)' = CursorBehind(clientSent', k, NoCursor)
      BY Zenon DEF Boundary, End, CursorAt, CursorBehind
<1>10. /\ \A k \in 0..n : Boundary(k)' = Boundary(k) /\ CursorAt(k)' = CursorAt(k)
       /\ \A k \in 1..n : clientSent'[k] = clientSent[k]
       /\ Len(clientSent') = n + 1 /\ Len(clientStream) <= Len(clientStream')
       /\ clientSent'[n + 1].packet = p /\ clientSent'[n + 1].cursor = a
       /\ \A m, i \in Nat : m <= i /\ i <= Len(clientStream) =>
             SubSeq(clientStream', m + 1, i) = SubSeq(clientStream, m + 1, i)
       BY <1>8, <1>9, BoundaryIsEnd, Zenon DEF Extends
<1>11. Len(clientStream') \in Nat
  <2>1. clientStream' \in Seq(Byte)  BY <1>8, Zenon DEF OnWire
  <2>. QED BY <2>1, LenProperties
<1>12. Sent'
  <2>1. ASSUME NEW k \in 1..n + 1
        PROVE  clientSent'[k].cursor = IF k = 1 THEN 0
                   ELSE CursorAfter(clientSent'[k].packet, ClientToServer, CursorAt(k - 1)')
    <3>1. CASE k # n + 1
      <4>1. k \in 1..n /\ k - 1 \in 0..n  BY <1>3, <3>1
      <4>2. clientSent[k].cursor = IF k = 1 THEN 0
                ELSE CursorAfter(clientSent[k].packet, ClientToServer, CursorAt(k - 1))
            BY <4>1, Zenon DEF CInv, Sent
      <4>. QED BY <1>10, <4>1, <4>2, Zenon
    <3>2. CASE k = n + 1
      <4>1. k - 1 = n /\ (k = 1 <=> n = 0)  BY <1>3, <3>2
      <4>2. CursorAt(k - 1)' = c  BY <1>3, <1>10, <4>1, BoundaryIsEnd, Zenon DEF c
      <4>. QED BY <1>10, <3>2, <4>1, <4>2, Zenon DEF a
    <3>. QED BY <3>1, <3>2
  <2>2. received' \in Nat /\ received' <= Len(clientStream')  BY <1>3, <1>6, <1>10, <1>11
  <2>. QED BY <1>8, <1>10, <2>1, <2>2, Zenon DEF Sent
<1>13. /\ pc' \in {"reading", "decoding", "draining", "draining_heartbeat"}
       /\ Greeting' <=> Greeting
  <2>1. \A x \in {"reading", "decoding", "draining", "draining_heartbeat", "closed"} :
            x # "closed" => x \in {"reading", "decoding", "draining", "draining_heartbeat"}
        OBVIOUS
  <2>. QED BY <1>6, <2>1, Zenon DEF CInv, Places, Greeting, sessionVars
<1>14. /\ IInv' /\ Places' /\ Spoken' /\ CloseAfterTheLastRequest' /\ CutOffForAReason'
       /\ log' = log /\ Handled' = j
       BY <1>6, <1>13, Kept
<1>15. HandledInOrder'
  <2>1. j <= n + 1 /\ \A k \in 1..j : k \in 1..n  BY <1>3
  <2>2. \A k \in 1..j : log[k].command = clientSent[k].packet.command
        BY Zenon DEF CInv, HandledInOrder
  <2>. QED BY <1>10, <1>14, <2>1, <2>2, Zenon DEF HandledInOrder
<1>16. InStep'
  <2>1. /\ Boundary(j) <= received
        /\ buffer = SubSeq(clientStream, Boundary(j) + 1, received)
        /\ inCursor = IF Greeting THEN NoCursor ELSE CursorAt(j)
        BY <1>6, Zenon DEF CInv, InStep
  <2>2. Boundary(j)' = Boundary(j) /\ CursorAt(j)' = CursorAt(j)  BY <1>3, <1>10, Zenon
  <2>3. Boundary(j) \in Nat  BY <1>3, Boundaries DEF CInv
  <2>4. SubSeq(clientStream', Boundary(j) + 1, received)
            = SubSeq(clientStream, Boundary(j) + 1, received)
        BY <1>3, <1>10, <2>1, <2>3, Zenon
  <2>5. Boundary(Handled)' = Boundary(j)' /\ CursorAt(Handled)' = CursorAt(j)'
        BY <1>14, Zenon DEF Boundary, CursorAt
  <2>. QED BY <1>6, <1>13, <2>1, <2>2, <2>4, <2>5, Zenon DEF InStep
<1>17. NoRequestHeldBack'  BY <1>6, Zenon DEF CInv, NoRequestHeldBack, Decoded
<1>. QED BY <1>12, <1>14, <1>15, <1>16, <1>17, Zenon DEF CInv

(* The server reads some bytes.                                            *)
LEMMA ReadStep ==
    ASSUME CInv, NEW n \in 1..ReadChunkSize, Read(n)
    PROVE  CInv'
<1>. SUFFICES ASSUME NEW j, j = Handled PROVE CInv'  OBVIOUS
<1>. DEFINE e == received + n
            b == Boundary(j)
<1>1. /\ pc = "reading" /\ pc' = "decoding" /\ received' = e
      /\ n <= Len(clientStream) - received
      /\ buffer' = buffer \o SubSeq(clientStream, received + 1, e)
      /\ UNCHANGED <<clientStream, clientSent, inCursor, outboundCursor, serverStream,
                     serverSent, ending, sessionVars>>
      BY Zenon DEF Read, wire, outbound
<1>2. /\ pc # "closed" /\ ~Greeting /\ ~Greeting'
      /\ pc' \in {"reading", "decoding", "draining", "draining_heartbeat"}
      /\ pc' \notin {"reading", "draining_heartbeat"}
      BY <1>1 DEF Greeting
<1>3. /\ IInv' /\ Places' /\ Spoken' /\ CloseAfterTheLastRequest' /\ CutOffForAReason'
      /\ log' = log /\ Handled' = j
      BY <1>1, <1>2, Kept
<1>4. /\ j \in 0..Len(clientSent) /\ received \in Nat /\ Len(clientStream) \in Nat
      /\ received <= Len(clientStream) /\ clientStream \in Seq(Byte)
      BY HandledPackets
<1>5. /\ b <= received /\ buffer = SubSeq(clientStream, b + 1, received)
      /\ inCursor = CursorAt(j)
      BY <1>2, Zenon DEF CInv, InStep
<1>6. b \in Nat  BY <1>4, Boundaries DEF CInv
<1>. HIDE DEF b
<1>7. n \in Nat  OBVIOUS
<1>8. e \in Nat /\ received <= e /\ b <= e /\ e <= Len(clientStream)
      BY <1>1, <1>4, <1>5, <1>6, <1>7
<1>. HIDE DEF e
<1>9. SubSeq(clientStream, b + 1, received) \o SubSeq(clientStream, received + 1, e)
          = SubSeq(clientStream, b + 1, e)
      BY <1>4, <1>5, <1>6, <1>8, SliceExtended
<1>10. buffer' = SubSeq(clientStream, b + 1, e)  BY <1>1, <1>5, <1>9, Zenon
<1>11. \A k : Boundary(k)' = Boundary(k) /\ CursorAt(k)' = CursorAt(k)
       BY <1>1, Zenon DEF Boundary, CursorAt
<1>12. Sent'
       BY <1>1, <1>8, <1>11, Zenon DEF CInv, Sent, CursorAt
<1>13. HandledInOrder'  BY <1>1, <1>3, Zenon DEF CInv, HandledInOrder
<1>14. InStep'
  <2>1. Boundary(Handled)' = Boundary(j)' /\ CursorAt(Handled)' = CursorAt(j)'
        BY <1>3, Zenon DEF Boundary, CursorAt
  <2>. QED BY <1>1, <1>2, <1>5, <1>8, <1>10, <1>11, <2>1, Zenon DEF InStep, b
<1>15. NoRequestHeldBack'  BY <1>2, Zenon DEF NoRequestHeldBack
<1>. QED BY <1>3, <1>12, <1>13, <1>14, <1>15, Zenon DEF CInv

(* Packets written behind the ones before: a burst of replies, a heartbeat.*)
LEMMA SpokenMore ==
    ASSUME CInv, pc # "closed", ~Greeting, serverSent # <<>>, NEW packets \in Seq(Short),
           Write(packets, outboundCursor), ~Greeting', Handled' # 0
    PROVE  Spoken'
<1>. SUFFICES ASSUME NEW l, l = Len(serverSent), NEW w,
                     w = Written(packets, serverStream, outboundCursor)
              PROVE  Spoken'
     OBVIOUS
<1>1. PICK frames : /\ Speaks(serverStream, frames, serverSent, l)
                    /\ outboundCursor = CursorBehind(frames, l, NoCursor)
      BY Zenon DEF CInv, Spoken
<1>2. serverSent \in Seq(Packet)  BY Zenon DEF CInv, Spoken
<1>3. l \in Nat /\ l # 0  BY <1>2, EmptySeq, LenProperties
<1>4. PICK more : /\ Speaks(w.bytes, more, serverSent \o packets, l + Len(packets))
                  /\ CursorBehind(more, l + Len(packets), NoCursor) = w.cursor
  <2>. DEFINE sent == serverSent
              c == outboundCursor
              stream == serverStream
  <2>1. /\ sent \in Seq(Packet) /\ l = Len(sent) /\ Speaks(stream, frames, sent, l)
        /\ l # 0 \/ Len(packets) = 0
        /\ c = CursorBehind(frames, l, NoCursor) /\ w = Written(packets, stream, c)
        BY <1>1, <1>2, <1>3
  <2>. HIDE DEF sent, c, stream
  <2>2. \E more : /\ Speaks(w.bytes, more, sent \o packets, l + Len(packets))
                  /\ CursorBehind(more, l + Len(packets), NoCursor) = w.cursor
        BY <2>1, WrittenSpeaks
  <2>. QED BY <2>2, Zenon DEF sent
<1>5. /\ serverSent \o packets \in Seq(Packet)
      /\ Len(serverSent \o packets) = l + Len(packets)
  <2>1. Short \subseteq Packet  BY Zenon DEF Short
  <2>2. packets \in Seq(Packet)
    <3>. DEFINE S == Short
    <3>1. S \subseteq Packet  BY <2>1
    <3>. HIDE DEF S
    <3>2. \A s \in Seq(S) : s \in Seq(Packet)  BY <3>1
    <3>. QED BY <3>2 DEF S
  <2>. QED BY <1>2, <2>2, Concatenation
<1>6. serverSent \o packets # <<>>
  <2>1. Len(serverSent \o packets) # 0
    <3>1. Len(packets) \in Nat  BY LenProperties
    <3>. QED BY <1>3, <1>5, <3>1
  <2>. QED BY <1>5, <2>1, EmptySeq
<1>7. /\ serverStream' = w.bytes /\ serverSent' = serverSent \o packets
      /\ outboundCursor' = w.cursor
      BY Zenon DEF Write
<1>. QED BY <1>4, <1>5, <1>6, <1>7, Zenon DEF Spoken

(* The first thing written, and alone.                                     *)
LEMMA SpokenFirst ==
    ASSUME CInv, pc # "closed", ~Greeting, serverSent = <<>>, NEW p \in Short,
           Write(<<p>>, outboundCursor), Greeting', Handled' # 0
    PROVE  Spoken'
<1>. SUFFICES ASSUME NEW w, w = Written(<<p>>, <<>>, NoCursor) PROVE Spoken'  OBVIOUS
<1>1. outboundCursor = NoCursor /\ serverStream = <<>>
  <2>1. Len(serverSent) = 0  BY EmptySeq
  <2>2. PICK frames : /\ Speaks(serverStream, frames, serverSent, 0)
                      /\ outboundCursor = CursorBehind(frames, 0, NoCursor)
        BY <2>1, Zenon DEF CInv, Spoken
  <2>3. serverStream \in Seq(Byte) /\ Len(serverStream) = 0
        BY <2>2, Zenon DEF Speaks, OnWire, End
  <2>4. serverStream = <<>>  BY <2>3, EmptySeq
  <2>. QED BY <2>2, <2>4, Zenon DEF CursorBehind
<1>2. w.cursor = NoCursor /\ \E more : Speaks(w.bytes, more, <<p>>, 1)  BY GreetingSpoken
<1>3. /\ serverStream' = w.bytes /\ outboundCursor' = w.cursor
      /\ serverSent' = serverSent \o <<p>>
      BY <1>1, Zenon DEF Write
<1>4. serverSent' = <<p>>
  <2>1. <<>> \o <<p>> = <<p>>  OBVIOUS
  <2>. QED BY <1>3, <2>1, Zenon
<1>5. p \in Packet  BY Zenon DEF Short
<1>6. <<p>> \in Seq(Packet) /\ Len(<<p>>) = 1 /\ <<p>> # <<>>  BY <1>5
<1>. QED BY <1>2, <1>3, <1>4, <1>6, Zenon DEF Spoken

(* The read times out: a heartbeat, or the end on an old Python.           *)
LEMMA TimeoutStep ==
    ASSUME CInv, Timeout
    PROVE  CInv'
<1>1. pc = "reading" /\ UNCHANGED <<clientStream, clientSent, received, buffer, inCursor, sessionVars>>
      BY Zenon DEF Timeout, wire, decoding
<1>2. pc # "closed" /\ ~Greeting  BY <1>1 DEF Greeting
<1>3. CASE ~TimeoutErrorIsBuiltin
  <2>1. Close("internal_error") /\ UNCHANGED <<serverStream, serverSent>>
        BY <1>3, Zenon DEF Timeout, outbound
  <2>2. /\ "internal_error" # "none" /\ "internal_error" # "end_of_file"
        /\ "internal_error" # "protocol_error"
        OBVIOUS
  <2>. QED BY <1>1, <1>2, <1>3, <2>1, <2>2, Closing
<1>4. CASE TimeoutErrorIsBuiltin
  <2>1. /\ outboundCursor # NoCursor /\ Write(<<Heartbeat>>, outboundCursor)
        /\ pc' = "draining_heartbeat" /\ ending' = ending
        BY <1>4, Zenon DEF Timeout
  <2>2. /\ ~Greeting' /\ pc' \in {"reading", "decoding", "draining", "draining_heartbeat"}
        BY <2>1 DEF Greeting
  <2>3. /\ IInv' /\ Places' /\ CloseAfterTheLastRequest' /\ CutOffForAReason'
        /\ pc' # "closed" /\ log' = log /\ Handled' = Handled
        BY <1>1, <1>2, <2>1, <2>2, SessionKept
  <2>4. serverSent # <<>>
    <3>. SUFFICES ASSUME serverSent = <<>> PROVE FALSE  OBVIOUS
    <3>1. Len(serverSent) = 0  BY EmptySeq
    <3>2. outboundCursor = NoCursor
          BY <1>2, <3>1, Zenon DEF CInv, Spoken, CursorBehind
    <3>. QED BY <2>1, <3>2
  <2>5. Handled' # 0  BY <2>3, <2>4, Zenon DEF CInv, Spoken
  <2>6. Spoken'
    <3>. DEFINE h == <<Heartbeat>>
    <3>1. h \in Seq(Short) /\ Write(h, outboundCursor)  BY <2>1, ShortPackets
    <3>. HIDE DEF h
    <3>. QED BY <1>2, <2>2, <2>4, <2>5, <3>1, SpokenMore
  <2>7. Sent' /\ HandledInOrder'
        BY <1>1, <2>3, Zenon DEF CInv, Sent, HandledInOrder, CursorAt
  <2>8. InStep'  BY <1>1, <1>2, <2>2, <2>3, Zenon DEF CInv, InStep, Boundary, CursorAt
  <2>9. NoRequestHeldBack'
    <3>1. pc \in {"reading", "draining_heartbeat"}  BY <1>1
    <3>. QED BY <1>1, <3>1, Zenon DEF CInv, NoRequestHeldBack, Decoded
  <2>. QED BY <2>3, <2>6, <2>7, <2>8, <2>9, Zenon DEF CInv
<1>. QED BY <1>3, <1>4

(* The reply is out: the transform starts, where it was asked for.         *)
LEMMA DrainedStep ==
    ASSUME CInv, Drained
    PROVE  CInv'
<1>. SUFFICES ASSUME NEW j, j = Handled PROVE CInv'  OBVIOUS
<1>1. /\ pc = "draining"
      /\ EnableTransform(outcome.enableTransform, inCursor, outboundCursor)
      /\ UNCHANGED <<clientStream, clientSent, received, buffer, serverStream, serverSent,
                     sessionVars>>
      BY Zenon DEF Drained, wire
<1>2. pc # "closed" /\ (Greeting <=> outcome.enableTransform)  BY <1>1 DEF Greeting
<1>3. PICK frames :
          /\ Speaks(serverStream, frames, serverSent, Len(serverSent))
          /\ outboundCursor = IF Greeting THEN NoCursor
                              ELSE CursorBehind(frames, Len(serverSent), NoCursor)
      BY <1>2, Zenon DEF CInv, Spoken
<1>4. /\ serverSent \in Seq(Packet) /\ ((serverSent = <<>>) <=> (j = 0))
      /\ Greeting => Len(serverSent) = 1
      BY Zenon DEF CInv, Spoken
<1>5. /\ j \in 0..Len(clientSent) /\ j \in Nat /\ Len(clientSent) \in Nat
      BY HandledPackets
<1>6. /\ Boundary(j) <= received
      /\ buffer = SubSeq(clientStream, Boundary(j) + 1, received)
      /\ inCursor = IF Greeting THEN NoCursor ELSE CursorAt(j)
      BY <1>2, Zenon DEF CInv, InStep
<1>7. /\ pc' = "decoding" /\ ending' = ending
      /\ inCursor' = CursorAt(j)
      /\ outboundCursor' = CursorBehind(frames, Len(serverSent), NoCursor)
  <2>1. CASE ~outcome.enableTransform
        BY <1>1, <1>2, <1>3, <1>6, <2>1, Zenon DEF EnableTransform
  <2>2. CASE outcome.enableTransform
    <3>1. inCursor = NoCursor /\ outboundCursor = NoCursor  BY <1>2, <1>3, <1>6, <2>2
    <3>2. inCursor' = 0 /\ outboundCursor' = 0 /\ pc' = "decoding" /\ ending' = ending
          BY <1>1, <2>2, <3>1, Zenon DEF EnableTransform
    <3>3. j = 1 /\ Len(serverSent) = 1
          BY <1>2, <1>4, <2>2, Zenon DEF CInv, Places
    <3>4. 1 \in 1..Len(clientSent) /\ 1 \in 1..Len(serverSent) /\ 1 # 0  BY <1>5, <3>3
    <3>5. CursorAt(j) = 0
          BY <3>3, <3>4, Zenon DEF CInv, Sent, CursorAt
    <3>6. CursorBehind(frames, Len(serverSent), NoCursor) = 0
          BY <1>3, <3>3, <3>4, Zenon DEF Speaks, CursorBehind
    <3>. QED BY <3>2, <3>5, <3>6, Zenon
  <2>. QED BY <2>1, <2>2
<1>8. /\ pc' \in {"reading", "decoding", "draining", "draining_heartbeat"} /\ ~Greeting'
      /\ pc' \notin {"reading", "draining_heartbeat"}
      BY <1>7 DEF Greeting
<1>9. /\ IInv' /\ Places' /\ CloseAfterTheLastRequest' /\ CutOffForAReason'
      /\ pc' # "closed" /\ log' = log /\ Handled' = j
      BY <1>1, <1>2, <1>7, <1>8, SessionKept
<1>10. Sent' /\ HandledInOrder'
      BY <1>1, <1>9, Zenon DEF CInv, Sent, HandledInOrder, CursorAt
<1>11. InStep'
  <2>1. \A k : Boundary(k)' = Boundary(k) /\ CursorAt(k)' = CursorAt(k)
        BY <1>1, Zenon DEF Boundary, CursorAt
  <2>2. Boundary(Handled)' = Boundary(j)' /\ CursorAt(Handled)' = CursorAt(j)'
        BY <1>9, Zenon DEF Boundary, CursorAt
  <2>. QED BY <1>1, <1>6, <1>7, <1>8, <2>1, <2>2, Zenon DEF InStep
<1>12. Spoken'  BY <1>1, <1>3, <1>4, <1>7, <1>8, <1>9, Zenon DEF Spoken
<1>13. NoRequestHeldBack'  BY <1>8, Zenon DEF NoRequestHeldBack
<1>. QED BY <1>9, <1>10, <1>11, <1>12, <1>13, Zenon DEF CInv

(* A packet handled is the next the client sent, and only the first turns  *)
(* the transform on, with the greeting alone as its reply.                 *)
LEMMA PacketHandled ==
    ASSUME CInv, HandlePacket, NEW k, k = Handled, NEW p, p = clientSent[k + 1].packet
    PROVE  /\ k \in Nat /\ k + 1 \in 1..Len(clientSent)
           /\ IInv' /\ Handled' = k + 1
           /\ \A i \in 1..k : log'[i] = log[i]
           /\ log'[k + 1].command = p.command
           /\ outcome'.outbound \in Seq(Speech)
           /\ outcome'.enableTransform <=> k = 0
           /\ k = 0 => outcome'.outbound = <<HandshakeResponse>>
           /\ Boundary(k + 1) <= received
           /\ buffer' = SubSeq(clientStream, Boundary(k + 1) + 1, received)
           /\ Decoded.cursor = IF k = 0 THEN NoCursor ELSE CursorAt(k + 1)
<1>. SUFFICES ASSUME NEW out, out = outcome'.outbound, NEW t, t = outcome'.enableTransform
              PROVE  /\ k \in Nat /\ k + 1 \in 1..Len(clientSent)
                     /\ IInv' /\ Handled' = k + 1
                     /\ \A i \in 1..k : log'[i] = log[i]
                     /\ log'[k + 1].command = p.command
                     /\ out \in Seq(Speech)
                     /\ t <=> k = 0
                     /\ k = 0 => out = <<HandshakeResponse>>
                     /\ Boundary(k + 1) <= received
                     /\ buffer' = SubSeq(clientStream, Boundary(k + 1) + 1, received)
                     /\ Decoded.cursor = IF k = 0 THEN NoCursor ELSE CursorAt(k + 1)
     OBVIOUS
<1>. DEFINE entry == [state |-> state, command |-> p.command,
                      outbound |-> out, enableTransform |-> t]
<1>1. /\ pc = "decoding" /\ Decoded.kind = "packet" /\ Handle(Decoded.packet)
      /\ buffer' = Decoded.buffer
      BY Zenon DEF HandlePacket
<1>2. pc # "closed" /\ ~Greeting  BY <1>1 DEF Greeting
<1>3. /\ k < Len(clientSent) /\ k + 1 \in 1..Len(clientSent) /\ Decoded.packet = p
      /\ Decoded.buffer = SubSeq(clientStream, Boundary(k + 1) + 1, received)
      /\ Decoded.cursor = CursorAfter(p, ClientToServer, CursorAt(k))
      /\ Boundary(k + 1) <= received
      BY <1>1, <1>2, DecodedKinds
<1>4. Handle(p)  BY <1>1, <1>3, Zenon
<1>5. IInv  BY Zenon DEF CInv
<1>6. IInv'  BY <1>4, <1>5, HandleIInv
<1>7. HandledAs(p)  BY <1>4, <1>5, HandledReply
<1>8. out \in Seq(Speech) /\ log' = Append(log, entry)  BY <1>7, Zenon DEF HandledAs
<1>9. entry.command = p.command /\ entry.outbound = out /\ entry.enableTransform = t
      OBVIOUS
<1>10. /\ log \in Seq(Entry) /\ log' \in Seq(Entry) /\ Len(log) = k
       BY <1>5, <1>6, Zenon DEF IInv, TypeOK, Handled
<1>. HIDE DEF entry
<1>11. /\ k \in Nat /\ Len(log') = k + 1 /\ log'[k + 1] = entry
       /\ \A i \in 1..k : log'[i] = log[i]
       BY <1>8, <1>10, LenProperties
<1>12. k + 1 \in 1..Len(log') /\ (k + 1 = 1 <=> k = 0) /\ k + 1 # 0 /\ k + 1 - 1 = k
       BY <1>11
<1>13. TransformOnce'  BY <1>6, Zenon DEF IInv
<1>14. (t <=> k = 0) /\ (k = 0 => out = <<HandshakeResponse>>)
       BY <1>9, <1>11, <1>12, <1>13, Zenon DEF TransformOnce
<1>15. Decoded.cursor = IF k = 0 THEN NoCursor ELSE CursorAt(k + 1)
  <2>1. CASE k = 0  BY <1>3, <2>1, Zenon DEF CursorAt, CursorAfter
  <2>2. CASE k # 0
    <3>1. ASSUME NEW i, i = k + 1
          PROVE  clientSent[i].cursor = CursorAfter(p, ClientToServer, CursorAt(k))
      <4>1. i \in 1..Len(clientSent) /\ i # 1 /\ clientSent[i].packet = p
            BY <1>3, <1>12, <2>2, <3>1, Zenon
      <4>2. i - 1 = k  BY <1>11, <3>1
      <4>3. clientSent[i].cursor = CursorAfter(clientSent[i].packet, ClientToServer,
                                               CursorAt(i - 1))
            BY <4>1, Zenon DEF CInv, Sent
      <4>. QED BY <4>1, <4>2, <4>3, Zenon
    <3>. QED BY <1>3, <1>12, <2>2, <3>1, Zenon DEF CursorAt
  <2>. QED BY <2>1, <2>2
<1>16. Handled' = k + 1  BY <1>11 DEF Handled
<1>. QED BY <1>1, <1>3, <1>6, <1>8, <1>9, <1>11, <1>14, <1>15, <1>16, Zenon

(* The next packet is handled, its replies written and drained.            *)
LEMMA HandlePacketStep ==
    ASSUME CInv, HandlePacket
    PROVE  CInv'
<1>. SUFFICES ASSUME NEW k, k = Handled, NEW p, p = clientSent[k + 1].packet,
                     NEW out, out = outcome'.outbound, NEW t, t = outcome'.enableTransform,
                     NEW n, n = k + 1
              PROVE  CInv'
     OBVIOUS
<1>1. /\ k \in Nat /\ n \in 1..Len(clientSent)
      /\ IInv' /\ Handled' = n
      /\ \A i \in 1..k : log'[i] = log[i]
      /\ log'[n].command = p.command
      /\ out \in Seq(Speech)
      /\ t <=> k = 0
      /\ k = 0 => out = <<HandshakeResponse>>
      /\ Boundary(n) <= received
      /\ buffer' = SubSeq(clientStream, Boundary(n) + 1, received)
      /\ Decoded.cursor = IF k = 0 THEN NoCursor ELSE CursorAt(n)
      BY PacketHandled
<1>2. /\ pc = "decoding" /\ pc # "closed" /\ ~Greeting
      /\ UNCHANGED <<clientStream, clientSent, received>>
  <2>1. pc = "decoding" /\ UNCHANGED <<clientStream, clientSent, received>>
        BY Zenon DEF HandlePacket, wire
  <2>. QED BY <2>1 DEF Greeting
<1>3. n # 0 /\ (n = 1 <=> k = 0) /\ Len(clientSent) \in Nat /\ n <= Len(clientSent)
      /\ \A i \in 1..n : i \in 1..k \/ i = n
  <2>1. Len(clientSent) \in Nat  BY HandledPackets
  <2>. QED BY <1>1, <2>1
<1>4. ((serverSent = <<>>) <=> (k = 0)) /\ serverSent \in Seq(Packet)
      BY Zenon DEF CInv, Spoken
<1>5. ASSUME pc' = "decoding", UNCHANGED <<outboundCursor, serverStream, serverSent>>, k # 0,
             out = <<>>
      PROVE  Spoken'
  <2>1. ~Greeting' /\ pc' # "closed"  BY <1>5 DEF Greeting
  <2>2. PICK frames :
            /\ Speaks(serverStream, frames, serverSent, Len(serverSent))
            /\ outboundCursor = CursorBehind(frames, Len(serverSent), NoCursor)
        BY <1>2, Zenon DEF CInv, Spoken
  <2>. QED BY <1>1, <1>3, <1>4, <1>5, <2>1, <2>2, Zenon DEF Spoken
<1>6. ASSUME pc' = "draining", Write(out, outboundCursor) PROVE Spoken'
  <2>1. (Greeting' <=> k = 0) /\ Handled' # 0  BY <1>1, <1>3, <1>6, Zenon DEF Greeting
  <2>2. CASE k = 0
    <3>. DEFINE h == HandshakeResponse
    <3>1. h \in Speech  BY ServerPacketsShort
    <3>2. h \in Short  BY <3>1, Zenon DEF Speech, Short
    <3>3. Write(<<h>>, outboundCursor) /\ Greeting' /\ serverSent = <<>>
          BY <1>1, <1>4, <1>6, <2>1, <2>2, Zenon
    <3>. HIDE DEF h
    <3>. QED BY <1>2, <2>1, <3>2, <3>3, SpokenFirst
  <2>3. CASE k # 0
    <3>1. out \in Seq(Short) /\ ~Greeting' /\ serverSent # <<>>
          BY <1>1, <1>4, <2>1, <2>3, ShortPackets, Zenon
    <3>. QED BY <1>2, <1>6, <2>1, <3>1, SpokenMore
  <2>. QED BY <2>2, <2>3
<1>7. /\ pc' \in {"decoding", "draining"} /\ ending' = ending /\ Spoken'
      /\ inCursor' = IF Greeting' THEN NoCursor ELSE CursorAt(n)
  <2>1. CASE out = <<>>
    <3>1. k # 0
      <4>1. <<HandshakeResponse>> # <<>>  OBVIOUS
      <4>. QED BY <1>1, <2>1, <4>1, Zenon
    <3>2. /\ EnableTransform(t, Decoded.cursor, outboundCursor)
          /\ UNCHANGED <<serverStream, serverSent>>
          BY <2>1, Zenon DEF HandlePacket
    <3>3. /\ pc' = "decoding" /\ ending' = ending /\ inCursor' = CursorAt(n)
          /\ outboundCursor' = outboundCursor
          BY <1>1, <3>1, <3>2, Zenon DEF EnableTransform
    <3>4. ~Greeting' /\ pc' \in {"decoding", "draining"}  BY <3>3 DEF Greeting
    <3>. QED BY <1>5, <2>1, <3>1, <3>2, <3>3, <3>4, Zenon
  <2>2. CASE out # <<>>
    <3>1. /\ Write(out, outboundCursor) /\ inCursor' = Decoded.cursor
          /\ pc' = "draining" /\ ending' = ending
          BY <2>2, Zenon DEF HandlePacket
    <3>2. pc' \in {"decoding", "draining"} /\ (Greeting' <=> k = 0)
      <4>1. pc' \in {"decoding", "draining"}  BY <3>1
      <4>. QED BY <1>1, <3>1, <4>1, Zenon DEF Greeting
    <3>. QED BY <1>1, <1>6, <3>1, <3>2, Zenon
  <2>. QED BY <2>1, <2>2
<1>8. /\ pc' \in {"reading", "decoding", "draining", "draining_heartbeat", "closed"}
      /\ pc' # "closed" /\ pc' \notin {"reading", "draining_heartbeat"}
      BY <1>7
<1>9. Sent'  BY <1>2, Zenon DEF CInv, Sent, CursorAt
<1>10. HandledInOrder'
  <2>1. \A i \in 1..k : log[i].command = clientSent[i].packet.command
        BY Zenon DEF CInv, HandledInOrder
  <2>2. \A i \in 1..n : log'[i].command = clientSent[i].packet.command
        BY <1>1, <1>3, <2>1, Zenon
  <2>. QED BY <1>1, <1>2, <1>3, <2>2, Zenon DEF HandledInOrder
<1>11. ending' = "none"  BY <1>2, <1>7, Zenon DEF CInv, Places
<1>12. Places'
  <2>1. outcome'.enableTransform <=> Handled' = 1  BY <1>1, <1>3, Zenon
  <2>. QED BY <1>8, <1>11, <2>1, Zenon DEF Places
<1>13. InStep'
  <2>1. \A i : Boundary(i)' = Boundary(i) /\ CursorAt(i)' = CursorAt(i)
        BY <1>2, Zenon DEF Boundary, CursorAt
  <2>2. Boundary(Handled)' = Boundary(n)' /\ CursorAt(Handled)' = CursorAt(n)'
        BY <1>1, Zenon DEF Boundary, CursorAt
  <2>. QED BY <1>1, <1>2, <1>7, <2>1, <2>2, Zenon DEF InStep
<1>14. NoRequestHeldBack'  BY <1>8, Zenon DEF NoRequestHeldBack
<1>15. CloseAfterTheLastRequest' /\ CutOffForAReason'
  <2>1. "none" # "end_of_file" /\ "none" # "internal_error" /\ "none" # "protocol_error"
        OBVIOUS
  <2>. QED BY <1>11, <2>1, Zenon DEF CloseAfterTheLastRequest, CutOffForAReason
<1>. QED BY <1>1, <1>7, <1>9, <1>10, <1>12, <1>13, <1>14, <1>15, Zenon DEF CInv

(* Every step keeps the invariant.                                         *)
LEMMA ConnectionStep == CInv /\ [Next]_vars => CInv'
<1>1. ASSUME CInv, Next PROVE CInv'
  <2>1. ASSUME ClientStep PROVE CInv'
    <3>1. ASSUME NEW p \in ClientPackets, ClientSend(p) PROVE CInv'
          BY <1>1, <3>1, ClientSendStep
    <3>2. ASSUME ClientClose \/ ClientReset PROVE CInv'
          BY <1>1, <3>2, MovingSteps
    <3>. QED BY <2>1, <3>1, <3>2, Zenon DEF ClientStep
  <2>2. ASSUME ReadSome PROVE CInv'
    <3>1. PICK n \in 1..ReadChunkSize : Read(n)  BY <2>2, Zenon DEF ReadSome
    <3>. QED BY <1>1, <3>1, ReadStep
  <2>3. ASSUME ReadEndOfFile \/ Oversize \/ RejectPacket \/ ConnectionLost \/ Cancelled
        PROVE  CInv'
        BY <1>1, <2>3, EndingSteps
  <2>4. ASSUME HeartbeatDrained \/ NeedMore PROVE CInv'
        BY <1>1, <2>4, MovingSteps
  <2>5. ASSUME HandlePacket PROVE CInv'  BY <1>1, <2>5, HandlePacketStep
  <2>6. ASSUME Drained PROVE CInv'  BY <1>1, <2>6, DrainedStep
  <2>7. ASSUME Timeout PROVE CInv'  BY <1>1, <2>7, TimeoutStep
  <2>. QED BY <1>1, <2>1, <2>2, <2>3, <2>4, <2>5, <2>6, <2>7, Zenon DEF Next, ServerStep
<1>2. ASSUME CInv, UNCHANGED vars PROVE CInv'
  <2>1. UNCHANGED <<clientStream, clientSent, client, received, pc, buffer, inCursor,
                    outboundCursor, serverStream, serverSent, ending, sessionVars>>
        BY <1>2, Zenon DEF vars, wire, decoding, outbound
  <2>2. IInv'  BY <1>2, <2>1, UnchangedIInv, Zenon DEF CInv
  <2>3. log' = log /\ outcome' = outcome /\ Handled' = Handled /\ (Greeting' <=> Greeting)
        BY <2>1, Zenon DEF sessionVars, Handled, Greeting
  <2>4. Sent' /\ HandledInOrder' /\ Places'
        BY <1>2, <2>1, <2>3, Zenon DEF CInv, Sent, HandledInOrder, Places, CursorAt
  <2>5. InStep'  BY <1>2, <2>1, <2>3, Zenon DEF CInv, InStep, Boundary, CursorAt
  <2>6. Spoken'  BY <1>2, <2>1, <2>3, Zenon DEF CInv, Spoken
  <2>7. NoRequestHeldBack' /\ CloseAfterTheLastRequest'
        BY <1>2, <2>1, <2>3, Zenon
        DEF CInv, NoRequestHeldBack, Decoded, CloseAfterTheLastRequest
  <2>8. TimeoutErrorIsBuiltin => CutOffForAReason'
        BY <1>2, <2>1, <2>3, Zenon
        DEF CInv, CutOffForAReason, Accepts, ScreenRequestAllowed, sessionVars, config
  <2>. QED BY <2>2, <2>4, <2>5, <2>6, <2>7, <2>8, Zenon DEF CInv
<1>. QED BY <1>1, <1>2

------------------------------------------------------------------------------
(* Both ends of a connection stay in step (app.py:53-145).                 *)
THEOREM ConnectionInvariant == Spec => []CInv
BY ConnectionInit, ConnectionStep, PTL DEF Spec

(* The session handles the client's packets in the order they were sent,   *)
(* none skipped, repeated or invented (app.py:79-125).                     *)
THEOREM RequestsHandledInOrder == Spec => []HandledInOrder
<1>1. CInv => HandledInOrder  BY Zenon DEF CInv
<1>. QED BY <1>1, ConnectionInvariant, PTL

(* The decoder is on a boundary with the client's cursor whenever it reads *)
(* or decodes, on both sides of the handshake (app.py:81, 124).            *)
THEOREM InboundStaysInStep == Spec => []InboundInStep
<1>1. CInv => InboundInStep
  <2>. SUFFICES ASSUME CInv, pc \in {"reading", "decoding"}
                PROVE  /\ buffer = SubSeq(clientStream, Boundary(Handled) + 1, received)
                       /\ inCursor = CursorAt(Handled)
       BY Zenon DEF InboundInStep
  <2>1. pc # "closed" /\ ~Greeting  BY DEF Greeting
  <2>. QED BY <2>1, Zenon DEF CInv, InStep
<1>. QED BY <1>1, ConnectionInvariant, PTL

(* No complete request waits in the decoder for bytes the client has no    *)
(* reason to send (app.py:79-84).                                          *)
THEOREM NothingHeldBack == Spec => []NoRequestHeldBack
<1>1. CInv => NoRequestHeldBack  BY Zenon DEF CInv
<1>. QED BY <1>1, ConnectionInvariant, PTL

(* An end of file finds every packet before it handled (app.py:71-77).     *)
THEOREM OrderlyClose == Spec => []CloseAfterTheLastRequest
<1>1. CInv => CloseAfterTheLastRequest  BY Zenon DEF CInv
<1>. QED BY <1>1, ConnectionInvariant, PTL

(* From Python 3.11 on the server ends a connection only for a packet that *)
(* really is too long or not allowed: "enabled more than once" is never    *)
(* reached (app.py:122-123, 131-145).                                      *)
THEOREM NeverCutOff == TimeoutErrorIsBuiltin => (Spec => []CutOffForAReason)
<1>1. TimeoutErrorIsBuiltin /\ CInv => CutOffForAReason  BY Zenon DEF CInv
<1>2. ASSUME TimeoutErrorIsBuiltin PROVE Spec => []CutOffForAReason
  <2>1. CInv => CutOffForAReason  BY <1>1, <1>2
  <2>. QED BY <2>1, ConnectionInvariant, PTL
<1>. QED BY <1>2

------------------------------------------------------------------------------
(* The session inside a connection.                                        *)

(* What the client sent is what it may send, and no more than the bound.   *)
SentByClient ==
    /\ Len(clientSent) <= MaxSent
    /\ \A k \in 1..Len(clientSent) : clientSent[k].packet \in ClientPackets

(* So it is always.                                                        *)
LEMMA SentByClientInvariant == Spec => []SentByClient
<1>1. Init => SentByClient
  <2>. SUFFICES ASSUME Init PROVE SentByClient  OBVIOUS
  <2>1. clientSent = <<>>  BY Zenon DEF Init
  <2>2. Len(clientSent) = 0  BY <2>1
  <2>3. MaxSent \in Nat  BY ConnectionAssumption, Zenon
  <2>. QED BY <2>2, <2>3 DEF SentByClient
<1>2. CInv /\ SentByClient /\ [Next]_vars => SentByClient'
  <2>1. ASSUME CInv, SentByClient, NEW p \in ClientPackets, ClientSend(p)
        PROVE  SentByClient'
    <3>. SUFFICES ASSUME NEW item, item.packet = p, NEW n, n = Len(clientSent),
                         clientSent' = Append(clientSent, item), n < MaxSent
                  PROVE  SentByClient'
      <4>. DEFINE item == [packet |-> p,
                           end |-> Len(clientStream)
                                   + Len(EncodeFrame(p, ClientToServer, CursorAt(Len(clientSent)))),
                           cursor |-> IF Len(clientSent) = 0 THEN 0
                                      ELSE CursorAfter(p, ClientToServer, CursorAt(Len(clientSent)))]
      <4>1. clientSent' = Append(clientSent, item) /\ Len(clientSent) < MaxSent
            BY <2>1, Zenon DEF ClientSend
      <4>2. item.packet = p  OBVIOUS
      <4>. HIDE DEF item
      <4>. QED BY <4>1, <4>2
    <3>1. clientSent \in Seq(SentFrame)  BY <2>1, Zenon DEF CInv, Sent, OnWire
    <3>2. /\ n \in Nat /\ Len(clientSent') = n + 1 /\ clientSent'[n + 1] = item
          /\ \A k \in 1..n : clientSent'[k] = clientSent[k]
          BY <3>1, LenProperties
    <3>3. MaxSent \in Nat  BY ConnectionAssumption, Zenon
    <3>4. n + 1 <= MaxSent /\ \A k \in 1..n + 1 : k \in 1..n \/ k = n + 1  BY <3>2, <3>3
    <3>5. \A k \in 1..n : clientSent[k].packet \in ClientPackets
          BY <2>1, Zenon DEF SentByClient
    <3>6. clientSent'[n + 1].packet \in ClientPackets  BY <3>2, Zenon
    <3>. QED BY <3>2, <3>4, <3>5, <3>6, Zenon DEF SentByClient
  <2>2. ASSUME SentByClient, clientSent' = clientSent PROVE SentByClient'
        BY <2>2, Zenon DEF SentByClient
  <2>3. [Next]_vars => \/ clientSent' = clientSent
                       \/ \E p \in ClientPackets : ClientSend(p)
    <3>1. UNCHANGED vars => clientSent' = clientSent  BY Zenon DEF vars, wire
    <3>2. ClientClose \/ ClientReset => clientSent' = clientSent
          BY Zenon DEF ClientClose, ClientReset
    <3>3. ServerStep \/ Timeout \/ Cancelled => clientSent' = clientSent
          BY Zenon DEF ServerStep, Timeout, Cancelled, ReadSome, Read, ReadEndOfFile,
             HeartbeatDrained, NeedMore, Oversize, HandlePacket, RejectPacket, Drained,
             ConnectionLost, wire
    <3>. QED BY <3>1, <3>2, <3>3, Zenon DEF Next, ClientStep
  <2>. QED BY <2>1, <2>2, <2>3, Zenon
<1>. QED BY <1>1, <1>2, ConnectionInvariant, PTL DEF Spec

(* A step of the connection leaves the session alone or is one of its own. *)
LEMMA SessionSteps ==
    ASSUME CInv, SentByClient, [Next]_vars
    PROVE  \/ UNCHANGED sessionVars
           \/ \E p \in ClientPackets : Handled < MaxSent /\ Handle(p)
<1>1. UNCHANGED vars => UNCHANGED sessionVars  BY Zenon DEF vars
<1>2. ClientStep => UNCHANGED sessionVars
      BY Zenon DEF ClientStep, ClientSend, ClientClose, ClientReset
<1>3. Next => HandlePacket \/ UNCHANGED sessionVars
      BY <1>2, Zenon DEF Next, ServerStep, Timeout, Cancelled, ReadSome, Read, ReadEndOfFile,
         HeartbeatDrained, NeedMore, Oversize, RejectPacket, Drained, ConnectionLost
<1>4. ASSUME HandlePacket, NEW k, k = Handled, NEW p, p = clientSent[k + 1].packet
      PROVE  p \in ClientPackets /\ Handled < MaxSent /\ Handle(p)
  <2>1. /\ pc = "decoding" /\ Decoded.kind = "packet" /\ Handle(Decoded.packet)
        BY <1>4, Zenon DEF HandlePacket
  <2>2. pc # "closed" /\ ~Greeting  BY <2>1 DEF Greeting
  <2>3. k < Len(clientSent) /\ k + 1 \in 1..Len(clientSent) /\ Decoded.packet = p
        BY <1>4, <2>1, <2>2, DecodedKinds
  <2>4. Len(clientSent) <= MaxSent /\ p \in ClientPackets
        BY <1>4, <2>3, Zenon DEF SentByClient
  <2>5. k \in Nat /\ Len(clientSent) \in Nat  BY <1>4, HandledPackets
  <2>6. MaxSent \in Nat  BY ConnectionAssumption, Zenon
  <2>7. k < MaxSent  BY <2>3, <2>4, <2>5, <2>6
  <2>. QED BY <1>4, <2>1, <2>3, <2>4, <2>7, Zenon
<1>. QED BY <1>1, <1>3, <1>4, Zenon

(* A connection runs its session as LoginSession says, one accepted packet *)
(* at a time, whatever the bytes, the drains and the timeouts in between   *)
(* (app.py:79-125).                                                        *)
THEOREM ConnectionRunsSession == MaxSent <= MaxHandled => (Spec => SessionSpec)
<1>. SUFFICES ASSUME MaxSent <= MaxHandled PROVE Spec => SessionSpec  OBVIOUS
<1>1. Init => SessionInit  BY Zenon DEF Init
<1>2. CInv /\ SentByClient /\ [Next]_vars => [SessionNext]_sessionVars
  <2>. SUFFICES ASSUME CInv, SentByClient, [Next]_vars PROVE [SessionNext]_sessionVars
       OBVIOUS
  <2>1. \/ UNCHANGED sessionVars
        \/ \E p \in ClientPackets : Handled < MaxSent /\ Handle(p)
        BY SessionSteps
  <2>2. Handled < MaxSent => Len(log) < MaxHandled
    <3>1. MaxSent \in Nat /\ MaxHandled \in Nat
          BY ConnectionAssumption, LoginSessionAssumption, Zenon
    <3>2. Handled \in Nat  BY HandledPackets
    <3>. QED BY <3>1, <3>2 DEF Handled
  <2>. QED BY <2>1, <2>2, Zenon DEF SessionNext
<1>. QED BY <1>1, <1>2, ConnectionInvariant, SentByClientInvariant, PTL DEF Spec, SessionSpec

(* So every connection keeps what the session alone was shown to keep,     *)
(* with no bound on the packets (session.py:63-306).                       *)
THEOREM ConnectionKeepsSession ==
    Spec => [](TransformOnce /\ VersionBarrier /\ SplashOnce /\ AreaPushOnce
               /\ ReadySinceFirstDB /\ FieldsTellHistory)
<1>1. CInv => /\ TransformOnce /\ VersionBarrier /\ SplashOnce /\ AreaPushOnce
              /\ ReadySinceFirstDB /\ FieldsTellHistory
      BY Zenon DEF CInv, IInv
<1>. QED BY <1>1, ConnectionInvariant, PTL

(* And so every connection keeps LoginPromise (session.py:78-306).         *)
THEOREM ConnectionKeepsPromise == Spec => KeepsPromise
<1>1. Init => Promise!PromiseInit  BY PromiseInitially, Zenon DEF Init
<1>2. CInv /\ SentByClient /\ [Next]_vars => [Promise!PromiseNext]_(Promise!promiseVars)
  <2>. SUFFICES ASSUME CInv, SentByClient, [Next]_vars
                PROVE  [Promise!PromiseNext]_(Promise!promiseVars)
       OBVIOUS
  <2>1. TypeOK  BY Zenon DEF CInv, IInv
  <2>2. CASE UNCHANGED sessionVars  BY <2>2, UnchangedPromise, Zenon
  <2>3. ASSUME NEW p, Handle(p) PROVE Promise!PromiseNext  BY <2>1, <2>3, HandlePromise
  <2>. QED BY <2>2, <2>3, SessionSteps, Zenon
<1>. QED BY <1>1, <1>2, ConnectionInvariant, SentByClientInvariant, PTL
     DEF Spec, KeepsPromise, Promise!PromiseSpec
------------------------------------------------------------------------------
(* What a client that follows the handshake reads.                         *)

(* Two functions that start alike and go on alike are alike.               *)
AlikeUpTo(n, g, h) ==
    g[0] = h[0] /\ \A i \in 1..n : g[i - 1] = h[i - 1] => g[i] = h[i]

LEMMA SameRun == \A n \in Nat : \A g, h : AlikeUpTo(n, g, h) => g[n] = h[n]
<1>. SUFFICES ASSUME NEW n \in Nat, NEW g, NEW h, g[0] = h[0],
                     \A i \in 1..n : g[i - 1] = h[i - 1] => g[i] = h[i]
              PROVE  g[n] = h[n]
     BY Zenon DEF AlikeUpTo
<1>. DEFINE T == {i \in 0..n : g[i] = h[i]}
<1>1. 0 \in T  OBVIOUS
<1>2. ASSUME NEW k \in 0..n - 1, k \in T PROVE k + 1 \in T
  <2>. DEFINE i == k + 1
  <2>1. i \in 1..n /\ i \in 0..n /\ i - 1 = k /\ g[k] = h[k]  BY <1>2
  <2>. HIDE DEF i
  <2>2. g[i] = h[i]  BY <2>1
  <2>. QED BY <2>1, <2>2 DEF i
<1>. HIDE DEF T
<1>3. 0..n \subseteq T  BY <1>1, <1>2, BoundedInduction
<1>4. n \in 0..n  OBVIOUS
<1>. QED BY <1>3, <1>4 DEF T

(* A packet more of a sequence.                                            *)
LEMMA OnePacketMore ==
    ASSUME NEW S, NEW s \in Seq(S), NEW i \in 1..Len(s)
    PROVE  Append(SubSeq(s, 1, i - 1), s[i]) = SubSeq(s, 1, i)
<1>. DEFINE t == SubSeq(s, 1, i - 1)
<1>1. Len(s) \in Nat  BY LenProperties
<1>2. 1 \in 1..Len(s) /\ i \in 1..Len(s) /\ i - 1 \in Int /\ 1 \in Int  BY <1>1
<1>3. SubSeq(s, 1, i) = t \o <<s[i]>>  BY <1>2, SubSeqRecursiveSecond
<1>4. t \in Seq(S)
  <2>1. \A j \in 1..i - 1 : s[j] \in S  BY <1>1, ElementOfSeq
  <2>. QED BY <1>2, <2>1, SubSeqProperties
<1>5. s[i] \in S  BY ElementOfSeq
<1>. HIDE DEF t
<1>6. Append(t, s[i]) = t \o <<s[i]>>  BY <1>4, <1>5, AppendIsConcat
<1>. QED BY <1>3, <1>6 DEF t

(* The stream of a server that speaks is read packet by packet, to its     *)
(* last byte.                                                              *)
LEMMA SpeechIsRead ==
    ASSUME serverSent \in Seq(Short), NEW frames, NEW l, l = Len(serverSent),
           Speaks(serverStream, frames, serverSent, l)
    PROVE  ClientReadsWhatIsSent
<1>. DEFINE d == ServerToClient
            n == l + 1
            length == Len(serverStream)
            Behind(b, i) ==
                LET r == DecodeOne(b.rest, b.cursor, ServerToClient, Word - 1)
                IN  IF r.kind # "packet" THEN b
                    ELSE [packets |-> Append(b.packets, r.packet),
                          rest    |-> r.buffer,
                          cursor  |-> IF i = 1 THEN 0 ELSE r.cursor]
            a == [packets |-> <<>>, rest |-> serverStream, cursor |-> NoCursor]
            P(g) == g = [i \in 0..n |-> IF i = 0 THEN a ELSE Behind(g[i - 1], i)]
            Got(i) == [packets |-> SubSeq(serverSent, 1, i),
                       rest    |-> SubSeq(serverStream, End(frames, i) + 1, length),
                       cursor  |-> CursorBehind(frames, i, NoCursor)]
            h == CHOOSE g : P(g)
<1>1. /\ OnWire(serverStream, frames, d, NoCursor) /\ Len(frames) = l
      /\ \A k \in 1..l :
            /\ frames[k].packet = serverSent[k]
            /\ frames[k].cursor = IF k = 1 THEN 0
                   ELSE CursorAfter(serverSent[k], d, CursorBehind(frames, k - 1, NoCursor))
      BY Zenon DEF Speaks
<1>2. l \in Nat /\ serverStream \in Seq(Byte) /\ length \in Nat
  <2>1. serverStream \in Seq(Byte)  BY <1>1, Zenon DEF OnWire
  <2>. QED BY <2>1, LenProperties
<1>3. Word - 1 \in Nat  BY DEF Word
<1>. HIDE DEF length, d
<1>4. Got(0) = a
  <2>1. SubSeq(serverSent, 1, 0) = <<>>  BY SubSeqEmpty
  <2>2. SubSeq(serverStream, 0 + 1, length) = serverStream
    <3>1. 0 + 1 = 1  OBVIOUS
    <3>2. SubSeq(serverStream, 1, Len(serverStream)) = serverStream  BY <1>2, SubSeqFull
    <3>. QED BY <3>1, <3>2 DEF length
  <2>3. End(frames, 0) = 0 /\ CursorBehind(frames, 0, NoCursor) = NoCursor
        BY Zenon DEF End, CursorBehind
  <2>. QED BY <2>1, <2>2, <2>3, Zenon
<1>5. ASSUME NEW i \in 1..l PROVE Behind(Got(i - 1), i) = Got(i)
  <2>. DEFINE k == i - 1
              c == CursorBehind(frames, k, NoCursor)
              b == SubSeq(serverStream, End(frames, k) + 1, length)
              r == DecodeOne(b, c, d, Word - 1)
              p == serverSent[i]
  <2>1. k \in 0..Len(frames) /\ k + 1 = i /\ i \in 0..Len(frames) /\ i \in 1..Len(frames) /\ i # 0
        BY <1>1, <1>2
  <2>. HIDE DEF k
  <2>2. /\ End(frames, k) \in Nat /\ End(frames, k) <= length
        /\ End(frames, i) \in Nat /\ End(frames, i) <= length
        BY <1>1, <2>1, WireEnds DEF length
  <2>. HIDE DEF c
  <2>3. NextFrame(r, b, serverStream, frames, d, c, k, length, Word - 1)
    <3>1. length <= Len(serverStream)  BY <1>2 DEF length
    <3>. QED BY <1>1, <1>2, <1>3, <2>1, <2>2, <3>1, WireDecoded DEF c
  <2>. HIDE DEF r, b
  <2>4. ~(k = Len(frames))  BY <1>1, <1>2, <2>1
  <2>5. ~(length < End(frames, i))  BY <1>2, <2>2
  <2>6. p \in Packet /\ ~(Len(p.payload) > Word - 1)
    <3>1. p \in Short  BY ElementOfSeq
    <3>2. p \in Packet /\ Len(p.payload) < Word  BY <3>1, Zenon DEF Short
    <3>. HIDE DEF p
    <3>3. p.payload \in Seq(Byte)  BY <3>2 DEF Packet
    <3>4. Len(p.payload) \in Nat  BY <3>3, LenProperties
    <3>. QED BY <3>2, <3>4 DEF Word
  <2>7. frames[i].packet = p  BY <1>1, Zenon
  <2>8. /\ r.kind = "packet" /\ r.packet = p
        /\ r.buffer = SubSeq(serverStream, End(frames, i) + 1, length)
        /\ r.cursor = CursorAfter(p, d, c)
        BY <2>1, <2>3, <2>4, <2>5, <2>6, <2>7, Zenon DEF NextFrame
  <2>9. (IF i = 1 THEN 0 ELSE r.cursor) = CursorBehind(frames, i, NoCursor)
    <3>1. frames[i].cursor = IF i = 1 THEN 0 ELSE CursorAfter(p, d, c)
          BY <1>1, Zenon DEF c, k
    <3>. QED BY <2>1, <2>8, <3>1, Zenon DEF CursorBehind
  <2>10. Append(SubSeq(serverSent, 1, k), p) = SubSeq(serverSent, 1, i)
         BY OnePacketMore DEF k
  <2>11. /\ Got(k).rest = b /\ Got(k).cursor = c /\ Got(k).packets = SubSeq(serverSent, 1, k)
         /\ i - 1 = k
         BY DEF b, c, k
  <2>12. DecodeOne(Got(k).rest, Got(k).cursor, ServerToClient, Word - 1) = r
         BY <2>11, Zenon DEF r, d
  <2>. HIDE DEF p
  <2>13. Behind(Got(k), i) = [packets |-> Append(Got(k).packets, r.packet),
                              rest    |-> r.buffer,
                              cursor  |-> IF i = 1 THEN 0 ELSE r.cursor]
         BY <2>8, <2>12, Zenon
  <2>. QED BY <2>8, <2>9, <2>10, <2>11, <2>13, Zenon
<1>6. Behind(Got(l), n) = Got(l)
  <2>. DEFINE c == CursorBehind(frames, l, NoCursor)
              b == SubSeq(serverStream, End(frames, l) + 1, length)
              r == DecodeOne(b, c, d, Word - 1)
  <2>1. l \in 0..Len(frames) /\ ~(l + 1 \in 1..Len(frames)) /\ l = Len(frames)  BY <1>1, <1>2
  <2>2. End(frames, l) \in Nat /\ End(frames, l) <= length
        BY <1>1, <2>1, WireEnds DEF length
  <2>. HIDE DEF c
  <2>3. NextFrame(r, b, serverStream, frames, d, c, l, length, Word - 1)
    <3>1. length <= Len(serverStream)  BY <1>2 DEF length
    <3>. QED BY <1>1, <1>2, <1>3, <2>1, <2>2, <3>1, WireDecoded DEF c
  <2>. HIDE DEF r, b
  <2>4. r = Undecided("wait", b, c)  BY <2>1, <2>3, Zenon DEF NextFrame
  <2>5. r.kind # "packet"  BY <2>4 DEF Undecided
  <2>6. Got(l).rest = b /\ Got(l).cursor = c  BY DEF b, c
  <2>7. DecodeOne(Got(l).rest, Got(l).cursor, ServerToClient, Word - 1) = r
        BY <2>6, Zenon DEF r, d
  <2>. QED BY <2>5, <2>7, Zenon
<1>7. Got(l).packets = serverSent /\ Got(l).rest = <<>>
  <2>1. SubSeq(serverSent, 1, l) = serverSent  BY SubSeqFull
  <2>2. End(frames, l) = length  BY <1>1, Zenon DEF OnWire, length
  <2>3. SubSeq(serverStream, length + 1, length) = <<>>
    <3>1. length + 1 \in Int /\ length \in Int /\ length < length + 1  BY <1>2
    <3>. QED BY <3>1, SubSeqEmpty
  <2>. QED BY <2>1, <2>2, <2>3
<1>. DEFINE Reached(i) == Got(IF i = n THEN l ELSE i)
<1>. HIDE DEF Behind, Got, a
<1>8. Reached(0) = a /\ \A i \in 1..n : Behind(Reached(i - 1), i) = Reached(i)
  <2>1. 0 # n /\ n = l + 1  BY <1>2
  <2>2. ASSUME NEW i \in 1..n PROVE Behind(Reached(i - 1), i) = Reached(i)
    <3>1. CASE i # n
      <4>1. i \in 1..l /\ i - 1 # n  BY <1>2, <2>1, <3>1
      <4>. QED BY <1>5, <3>1, <4>1, Zenon
    <3>2. CASE i = n
      <4>1. i - 1 = l /\ l # n  BY <1>2, <2>1, <3>2
      <4>. QED BY <1>6, <3>2, <4>1, Zenon
    <3>. QED BY <3>1, <3>2
  <2>. QED BY <1>4, <2>1, <2>2, Zenon
<1>. HIDE DEF Reached, n
<1>9. P(h)
  <2>. DEFINE g == [i \in 0..n |-> Reached(i)]
  <2>1. \A i \in 1..n : i - 1 \in 0..n  BY <1>2 DEF n
  <2>2. ASSUME NEW i \in 0..n PROVE g[i] = IF i = 0 THEN a ELSE Behind(g[i - 1], i)
    <3>1. i = 0 \/ i \in 1..n  BY <1>2 DEF n
    <3>2. g[i] = Reached(i)  OBVIOUS
    <3>3. i \in 1..n => g[i - 1] = Reached(i - 1) /\ i # 0  BY <2>1
    <3>. HIDE DEF g
    <3>. QED BY <1>8, <3>1, <3>2, <3>3, Zenon
  <2>3. P(g)
    <3>1. g = [i \in 0..n |-> g[i]]  OBVIOUS
    <3>. HIDE DEF g
    <3>. QED BY <2>2, <3>1
  <2>. HIDE DEF g
  <2>. QED BY <2>3, Zenon
<1>10. ClientReads(n) = h[n]  BY Zenon DEF ClientReads, Behind, a
<1>. HIDE DEF h
<1>11. h[n] = Got(l)
  <2>1. n \in Nat /\ n \in 0..n /\ 0 \in 0..n
        /\ \A i \in 1..n : i \in 0..n /\ i - 1 \in 0..n /\ i # 0
        BY <1>2 DEF n
  <2>. DEFINE g == [i \in 0..n |-> Reached(i)]
  <2>2. \A i \in 0..n : g[i] = Reached(i)  OBVIOUS
  <2>3. \A i \in 0..n : h[i] = IF i = 0 THEN a ELSE Behind(h[i - 1], i)  BY <1>9
  <2>. HIDE DEF g
  <2>4. h[0] = g[0]  BY <1>8, <2>1, <2>2, <2>3, Zenon
  <2>5. \A i \in 1..n : h[i - 1] = g[i - 1] => h[i] = g[i]
        BY <1>8, <2>1, <2>2, <2>3, Zenon
  <2>6. AlikeUpTo(n, h, g)  BY <2>4, <2>5, Zenon DEF AlikeUpTo
  <2>7. h[n] = g[n]  BY <2>1, <2>6, SameRun, Zenon
  <2>. QED BY <2>1, <2>2, <2>7, Zenon DEF Reached
<1>. QED BY <1>7, <1>10, <1>11, Zenon DEF ClientReadsWhatIsSent, n
------------------------------------------------------------------------------
(* The replies among the heartbeats.                                       *)

(* The packets without the heartbeats, packet by packet.                   *)
LEMMA UnbeatenSteps ==
    ASSUME NEW packets \in Seq(Packet), NEW m, m = Len(packets)
    PROVE  /\ Unbeaten(packets, 0) = <<>>
           /\ \A n \in 0..m : Unbeaten(packets, n) \in Seq(Packet)
           /\ \A n \in 1..m : Unbeaten(packets, n) =
                 IF packets[n] = Heartbeat THEN Unbeaten(packets, n - 1)
                 ELSE Append(Unbeaten(packets, n - 1), packets[n])
<1>. DEFINE S == Seq(Packet)
            none == <<>>
            Behind(b, i) == IF packets[i] = Heartbeat THEN b ELSE Append(b, packets[i])
            step == [x \in S \X (1..m) |-> Behind(x[1], x[2])]
            P(g, n) == g = [i \in 0..n |-> IF i = 0 THEN none ELSE Behind(g[i - 1], i)]
<1>1. m \in Nat /\ none \in S  BY LenProperties
<1>2. ASSUME NEW b \in S, NEW i \in 1..m PROVE Behind(b, i) \in S
  <2>1. packets[i] \in Packet  BY ElementOfSeq
  <2>. QED BY <2>1
<1>. HIDE DEF Behind, S, none
<1>3. step \in [S \X (1..m) -> S]  BY <1>2
<1>4. \A b \in S, i \in 1..m : step[<<b, i>>] = Behind(b, i)  OBVIOUS
<1>. HIDE DEF step
<1>5. PICK g : Recurs(g, S, m, none, step)  BY <1>1, <1>3, RecursionUpTo, Zenon
<1>6. g \in [0..m -> S] /\ g[0] = none /\ \A i \in 1..m : g[i] = step[<<g[i - 1], i>>]
      BY <1>5, Zenon DEF Recurs
<1>7. ASSUME NEW n \in 0..m PROVE Unbeaten(packets, n) = g[n]
  <2>. DEFINE h == CHOOSE z : P(z, n)
              f == [i \in 0..n |-> g[i]]
  <2>0. n \in Nat /\ \A i \in 1..n : i \in 1..m /\ i - 1 \in 0..m /\ i - 1 \in 0..n /\ i # 0
                                     /\ i \in 0..n
        BY <1>1
  <2>1. ASSUME NEW i \in 1..n PROVE g[i] = Behind(g[i - 1], i)
    <3>1. i \in 1..m /\ g[i - 1] \in S  BY <1>6, <2>0
    <3>. QED BY <1>4, <1>6, <3>1, Zenon
  <2>2. P(f, n)
    <3>1. ASSUME NEW i \in 0..n PROVE f[i] = IF i = 0 THEN none ELSE Behind(f[i - 1], i)
      <4>1. i = 0 \/ i \in 1..n  BY <2>0
      <4>2. f[i] = g[i]  OBVIOUS
      <4>3. i \in 1..n => f[i - 1] = g[i - 1] /\ i # 0  BY <2>0
      <4>. HIDE DEF f
      <4>. QED BY <1>6, <2>1, <4>1, <4>2, <4>3, Zenon
    <3>2. f = [i \in 0..n |-> f[i]]  OBVIOUS
    <3>. HIDE DEF f
    <3>. QED BY <3>1, <3>2
  <2>. HIDE DEF f
  <2>3. P(h, n)  BY <2>2, Zenon
  <2>4. Unbeaten(packets, n) = h[n]  BY Zenon DEF Unbeaten, Behind, none
  <2>. HIDE DEF h
  <2>5. \A i \in 0..n : h[i] = IF i = 0 THEN none ELSE Behind(h[i - 1], i)  BY <2>3
  <2>6. h[0] = g[0]
    <3>1. 0 \in 0..n  BY <2>0
    <3>. QED BY <1>6, <2>5, <3>1, Zenon
  <2>7. \A i \in 1..n : h[i - 1] = g[i - 1] => h[i] = g[i]
        BY <2>0, <2>1, <2>5, Zenon
  <2>8. AlikeUpTo(n, h, g)  BY <2>6, <2>7, Zenon DEF AlikeUpTo
  <2>9. h[n] = g[n]  BY <2>0, <2>8, SameRun, Zenon
  <2>. QED BY <2>4, <2>9, Zenon
<1>8. 0 \in 0..m /\ \A n \in 1..m : n \in 0..m /\ n - 1 \in 0..m  BY <1>1
<1>9. ASSUME NEW n \in 1..m
      PROVE  Unbeaten(packets, n) = Behind(Unbeaten(packets, n - 1), n)
  <2>1. Unbeaten(packets, n) = g[n] /\ Unbeaten(packets, n - 1) = g[n - 1]  BY <1>7, <1>8
  <2>2. g[n - 1] \in S  BY <1>6, <1>8
  <2>. QED BY <1>4, <1>6, <2>1, <2>2, Zenon
<1>10. \A n \in 0..m : Unbeaten(packets, n) \in S  BY <1>6, <1>7
<1>11. Unbeaten(packets, 0) = none  BY <1>6, <1>7, <1>8, Zenon
<1>. QED BY <1>9, <1>10, <1>11, Zenon DEF Behind, S, none

(* The replies to the entries of the log, entry by entry.                  *)
LEMMA RepliedSteps ==
    ASSUME NEW S, NEW entries, NEW m \in Nat, \A i \in 1..m : entries[i].outbound \in Seq(S)
    PROVE  /\ Replied(entries, 0) = <<>>
           /\ \A n \in 0..m : Replied(entries, n) \in Seq(S)
           /\ \A n \in 1..m :
                 Replied(entries, n) = Replied(entries, n - 1) \o entries[n].outbound
<1>. DEFINE R == Seq(S)
            none == <<>>
            Behind(b, i) == b \o entries[i].outbound
            step == [x \in R \X (1..m) |-> Behind(x[1], x[2])]
            P(g, n) == g = [i \in 0..n |-> IF i = 0 THEN none ELSE Behind(g[i - 1], i)]
<1>1. m \in Nat /\ none \in R  OBVIOUS
<1>2. ASSUME NEW b \in R, NEW i \in 1..m PROVE Behind(b, i) \in R
  <2>1. entries[i].outbound \in Seq(S)  OBVIOUS
  <2>. DEFINE o == entries[i].outbound
  <2>. HIDE DEF o
  <2>2. o \in Seq(S) /\ b \in Seq(S)  BY <2>1 DEF o
  <2>3. b \o o \in Seq(S)  BY <2>2, ConcatProperties
  <2>. QED BY <2>3 DEF o
<1>. HIDE DEF Behind, R, none
<1>3. step \in [R \X (1..m) -> R]  BY <1>2
<1>4. \A b \in R, i \in 1..m : step[<<b, i>>] = Behind(b, i)  OBVIOUS
<1>. HIDE DEF step
<1>5. PICK g : Recurs(g, R, m, none, step)  BY <1>1, <1>3, RecursionUpTo, Zenon
<1>6. g \in [0..m -> R] /\ g[0] = none /\ \A i \in 1..m : g[i] = step[<<g[i - 1], i>>]
      BY <1>5, Zenon DEF Recurs
<1>7. ASSUME NEW n \in 0..m PROVE Replied(entries, n) = g[n]
  <2>. DEFINE h == CHOOSE z : P(z, n)
              f == [i \in 0..n |-> g[i]]
  <2>0. n \in Nat /\ \A i \in 1..n : i \in 1..m /\ i - 1 \in 0..m /\ i - 1 \in 0..n /\ i # 0
                                     /\ i \in 0..n
        BY <1>1
  <2>1. ASSUME NEW i \in 1..n PROVE g[i] = Behind(g[i - 1], i)
    <3>1. i \in 1..m /\ g[i - 1] \in R  BY <1>6, <2>0
    <3>. QED BY <1>4, <1>6, <3>1, Zenon
  <2>2. P(f, n)
    <3>1. ASSUME NEW i \in 0..n PROVE f[i] = IF i = 0 THEN none ELSE Behind(f[i - 1], i)
      <4>1. i = 0 \/ i \in 1..n  BY <2>0
      <4>2. f[i] = g[i]  OBVIOUS
      <4>3. i \in 1..n => f[i - 1] = g[i - 1] /\ i # 0  BY <2>0
      <4>. HIDE DEF f
      <4>. QED BY <1>6, <2>1, <4>1, <4>2, <4>3, Zenon
    <3>2. f = [i \in 0..n |-> f[i]]  OBVIOUS
    <3>. HIDE DEF f
    <3>. QED BY <3>1, <3>2
  <2>. HIDE DEF f
  <2>3. P(h, n)  BY <2>2, Zenon
  <2>4. Replied(entries, n) = h[n]  BY Zenon DEF Replied, Behind, none
  <2>. HIDE DEF h
  <2>5. \A i \in 0..n : h[i] = IF i = 0 THEN none ELSE Behind(h[i - 1], i)  BY <2>3
  <2>6. h[0] = g[0]
    <3>1. 0 \in 0..n  BY <2>0
    <3>. QED BY <1>6, <2>5, <3>1, Zenon
  <2>7. \A i \in 1..n : h[i - 1] = g[i - 1] => h[i] = g[i]
        BY <2>0, <2>1, <2>5, Zenon
  <2>8. AlikeUpTo(n, h, g)  BY <2>6, <2>7, Zenon DEF AlikeUpTo
  <2>9. h[n] = g[n]  BY <2>0, <2>8, SameRun, Zenon
  <2>. QED BY <2>4, <2>9, Zenon
<1>8. 0 \in 0..m /\ \A n \in 1..m : n \in 0..m /\ n - 1 \in 0..m  BY <1>1
<1>9. ASSUME NEW n \in 1..m
      PROVE  Replied(entries, n) = Behind(Replied(entries, n - 1), n)
  <2>1. Replied(entries, n) = g[n] /\ Replied(entries, n - 1) = g[n - 1]  BY <1>7, <1>8
  <2>2. g[n - 1] \in R  BY <1>6, <1>8
  <2>. QED BY <1>4, <1>6, <2>1, <2>2, Zenon
<1>10. \A n \in 0..m : Replied(entries, n) \in R  BY <1>6, <1>7
<1>11. Replied(entries, 0) = none  BY <1>6, <1>7, <1>8, Zenon
<1>. QED BY <1>9, <1>10, <1>11, Zenon DEF Behind, R, none
(* Concatenation is associative.                                           *)
LEMMA JoinedThrice ==
    \A s, t, u \in Seq(Packet) : (s \o t) \o u = s \o (t \o u)
BY ConcatAssociative

(* What is behind a sequence changes nothing of it, and what is no         *)
(* heartbeat stays.                                                        *)
Joins(u, s, t, n, m) ==
    /\ s \in Seq(Packet) /\ t \in Seq(Packet) /\ u = s \o t
    /\ n = Len(s) /\ m = Len(t)

Joint(u, s, t, n, m) ==
    /\ Len(u) = n + m /\ n \in Nat /\ m \in Nat
    /\ \A i \in 1..n : u[i] = s[i]
    /\ \A i \in 1..m : u[n + i] = t[i]
    /\ \A i \in 0..n : Unbeaten(u, i) = Unbeaten(s, i)
    /\ (\A i \in 1..m : t[i] # Heartbeat) => Unbeaten(u, n + m) = Unbeaten(s, n) \o t

LEMMA UnbeatenBehind ==
    \A u, s, t, n, m : Joins(u, s, t, n, m) => Joint(u, s, t, n, m)
<1>. SUFFICES ASSUME NEW u, NEW s, NEW t, NEW n, NEW m, s \in Seq(Packet), t \in Seq(Packet),
                     u = s \o t, n = Len(s), m = Len(t)
              PROVE  Joint(u, s, t, n, m)
     BY Zenon DEF Joins
<1>1. /\ u \in Seq(Packet) /\ Len(u) = n + m /\ n \in Nat /\ m \in Nat
      /\ \A i \in 1..n : u[i] = s[i]
      /\ \A i \in 1..m : u[n + i] = t[i]
  <2>1. n \in Nat /\ m \in Nat  BY LenProperties
  <2>. QED BY <2>1, Concatenation
<1>2. /\ Unbeaten(s, 0) = <<>> /\ Unbeaten(u, 0) = <<>>
      /\ \A i \in 0..n : Unbeaten(s, i) \in Seq(Packet)
      /\ \A i \in 1..n : Unbeaten(s, i) = IF s[i] = Heartbeat THEN Unbeaten(s, i - 1)
                                          ELSE Append(Unbeaten(s, i - 1), s[i])
      BY <1>1, UnbeatenSteps
<1>3. ASSUME NEW i \in 1..n + m
      PROVE  Unbeaten(u, i) = IF u[i] = Heartbeat THEN Unbeaten(u, i - 1)
                              ELSE Append(Unbeaten(u, i - 1), u[i])
      BY <1>1, UnbeatenSteps
<1>4. ASSUME NEW i \in 0..n PROVE Unbeaten(u, i) = Unbeaten(s, i)
  <2>. DEFINE T == {k \in 0..n : Unbeaten(u, k) = Unbeaten(s, k)}
  <2>1. 0 \in T  BY <1>1, <1>2
  <2>2. ASSUME NEW k \in 0..n - 1, k \in T PROVE k + 1 \in T
    <3>. DEFINE j == k + 1
    <3>1. j \in 1..n /\ j \in 1..n + m /\ j - 1 = k /\ j \in 0..n  BY <1>1
    <3>2. Unbeaten(u, k) = Unbeaten(s, k)  BY <2>2
    <3>. HIDE DEF j
    <3>3. u[j] = s[j]  BY <1>1, <3>1
    <3>4. Unbeaten(u, j) = Unbeaten(s, j)  BY <1>2, <1>3, <3>1, <3>2, <3>3, Zenon
    <3>. QED BY <3>1, <3>4 DEF j
  <2>. HIDE DEF T
  <2>3. 0..n \subseteq T  BY <1>1, <2>1, <2>2, BoundedInduction
  <2>. QED BY <2>3 DEF T
<1>5. ASSUME \A i \in 1..m : t[i] # Heartbeat
      PROVE  Unbeaten(u, n + m) = Unbeaten(s, n) \o t
  <2>. DEFINE x == Unbeaten(s, n)
              T == {k \in 0..m : Unbeaten(u, n + k) = x \o SubSeq(t, 1, k)}
  <2>1. x \in Seq(Packet)  BY <1>1, <1>2
  <2>. HIDE DEF x
  <2>2. 0 \in T
    <3>1. SubSeq(t, 1, 0) = <<>>  BY SubSeqEmpty
    <3>2. x \o <<>> = x  BY <2>1, ConcatEmptySeq
    <3>3. n + 0 = n /\ n \in 0..n /\ 0 \in 0..m  BY <1>1
    <3>4. Unbeaten(u, n + 0) = x \o SubSeq(t, 1, 0)
          BY <1>4, <3>1, <3>2, <3>3, Zenon DEF x
    <3>. QED BY <3>3, <3>4, Zenon
  <2>3. ASSUME NEW k \in 0..m - 1, k \in T PROVE k + 1 \in T
    <3>. DEFINE j == k + 1
                y == SubSeq(t, 1, k)
                z == SubSeq(t, 1, j)
                e == t[j]
    <3>1. /\ j \in 1..m /\ j \in 0..m /\ j - 1 = k /\ n + j \in 1..n + m
          /\ n + j - 1 = n + k
          BY <1>1
    <3>2. Unbeaten(u, n + k) = x \o y  BY <2>3
    <3>. HIDE DEF j
    <3>3. e # Heartbeat /\ e \in Packet  BY <1>5, <3>1, ElementOfSeq
    <3>4. u[n + j] = e  BY <1>1, <3>1
    <3>5. y \in Seq(Packet)
      <4>1. \A i \in 1..k : t[i] \in Packet
        <5>1. \A i \in 1..k : i \in 1..Len(t)  BY <1>1
        <5>. QED BY <5>1, ElementOfSeq
      <4>. QED BY <4>1, SubSeqProperties
    <3>6. Append(y, e) = z  BY <3>1, OnePacketMore
    <3>. HIDE DEF y, z, e
    <3>7. Append(x \o y, e) = x \o z
      <4>1. x \o y \in Seq(Packet)  BY <2>1, <3>5, ConcatProperties
      <4>2. Append(x \o y, e) = (x \o y) \o <<e>>  BY <3>3, <4>1, AppendIsConcat
      <4>3. Append(y, e) = y \o <<e>>  BY <3>3, <3>5, AppendIsConcat
      <4>. DEFINE w == <<e>>
      <4>4. w \in Seq(Packet)  BY <3>3
      <4>. HIDE DEF w
      <4>5. (x \o y) \o w = x \o (y \o w)  BY <2>1, <3>5, <4>4, JoinedThrice, Zenon
      <4>. QED BY <3>6, <4>2, <4>3, <4>5, Zenon DEF w
    <3>. DEFINE q == n + j
    <3>8. q \in 1..n + m /\ q - 1 = n + k /\ u[q] = e  BY <3>1, <3>4
    <3>. HIDE DEF q
    <3>9. Unbeaten(u, q) = x \o z  BY <1>3, <3>2, <3>3, <3>7, <3>8, Zenon
    <3>. QED BY <3>1, <3>9, Zenon DEF q, z, j
  <2>. HIDE DEF T
  <2>4. 0..m \subseteq T  BY <1>1, <2>2, <2>3, BoundedInduction
  <2>5. m \in T  BY <1>1, <2>4
  <2>6. Unbeaten(u, n + m) = x \o SubSeq(t, 1, m)  BY <2>5 DEF T
  <2>7. SubSeq(t, 1, m) = t  BY SubSeqFull
  <2>. QED BY <2>6, <2>7, Zenon DEF x
<1>. QED BY <1>1, <1>4, <1>5, Zenon DEF Joint

(* An entry more adds its replies and changes none before it.              *)
OneMore(more, entries, m, j) ==
    /\ m \in Nat /\ j = m + 1
    /\ \A i \in 1..j : more[i].outbound \in Seq(Reply)
    /\ \A i \in 1..m : more[i] = entries[i]

AddsReplies(more, entries, m, j) ==
    /\ \A n \in 0..m : Replied(more, n) = Replied(entries, n)
    /\ Replied(more, j) = Replied(entries, m) \o more[j].outbound

LEMMA RepliedBehind ==
    \A more, entries, m, j :
        OneMore(more, entries, m, j) => AddsReplies(more, entries, m, j)
<1>. SUFFICES ASSUME NEW more, NEW entries, NEW m, NEW j, OneMore(more, entries, m, j)
              PROVE  AddsReplies(more, entries, m, j)
     BY Zenon
<1>. USE DEF OneMore
<1>1. \A i \in 1..m : entries[i].outbound \in Seq(Reply) /\ i \in 1..j
  <2>1. \A i \in 1..m : i \in 1..j  OBVIOUS
  <2>. QED BY <2>1, Zenon
<1>2. /\ Replied(entries, 0) = <<>>
      /\ \A n \in 1..m : Replied(entries, n) = Replied(entries, n - 1) \o entries[n].outbound
      BY <1>1, RepliedSteps
<1>3. /\ Replied(more, 0) = <<>>
      /\ \A n \in 1..j : Replied(more, n) = Replied(more, n - 1) \o more[n].outbound
  <2>1. j \in Nat  OBVIOUS
  <2>. QED BY <2>1, RepliedSteps
<1>. DEFINE T == {n \in 0..m : Replied(more, n) = Replied(entries, n)}
<1>4. 0 \in T  BY <1>2, <1>3
<1>5. ASSUME NEW k \in 0..m - 1, k \in T PROVE k + 1 \in T
  <2>. DEFINE i == k + 1
  <2>1. i \in 1..m /\ i \in 0..m /\ i \in 1..j /\ i - 1 = k  OBVIOUS
  <2>2. Replied(more, k) = Replied(entries, k)  BY <1>5
  <2>. HIDE DEF i
  <2>3. Replied(more, i) = Replied(entries, i)  BY <1>2, <1>3, <2>1, <2>2, Zenon
  <2>. QED BY <2>1, <2>3 DEF i
<1>. HIDE DEF T
<1>6. 0..m \subseteq T  BY <1>4, <1>5, BoundedInduction
<1>7. \A n \in 0..m : Replied(more, n) = Replied(entries, n)  BY <1>6 DEF T
<1>8. Replied(more, j) = Replied(entries, m) \o more[j].outbound
  <2>1. j \in 1..j /\ j - 1 = m /\ m \in 0..m  OBVIOUS
  <2>2. Replied(more, j) = Replied(more, j - 1) \o more[j].outbound  BY <1>3, <2>1, Zenon
  <2>. QED BY <1>7, <2>1, <2>2, Zenon
<1>. QED BY <1>7, <1>8, Zenon DEF AddsReplies

(* A step says nothing, beats, or answers one packet.                      *)
Beats == serverSent # <<>> /\ serverSent' = serverSent \o <<Heartbeat>> /\ log' = log

Answers ==
    \E out \in Seq(Speech) : \E entry :
        /\ entry.outbound = out /\ log' = Append(log, entry)
        /\ serverSent' = serverSent \o out

LEMMA OneAnswer ==
    ASSUME CInv, [Next]_vars
    PROVE  UNCHANGED <<serverSent, log>> \/ Beats \/ Answers
<1>1. sessionVars' = sessionVars => log' = log  BY Zenon DEF sessionVars
<1>2. UNCHANGED vars => UNCHANGED <<serverSent, log>>
      BY <1>1, Zenon DEF vars, outbound
<1>3. ClientStep => UNCHANGED <<serverSent, log>>
      BY <1>1, Zenon DEF ClientStep, ClientSend, ClientClose, ClientReset, outbound
<1>4. Next => Timeout \/ HandlePacket \/ UNCHANGED <<serverSent, log>>
      BY <1>1, <1>3, Zenon DEF Next, ServerStep, Cancelled, ReadSome, Read, ReadEndOfFile,
         HeartbeatDrained, NeedMore, Oversize, RejectPacket, Drained, ConnectionLost, outbound
<1>5. ASSUME Timeout PROVE Beats \/ UNCHANGED <<serverSent, log>>
  <2>1. pc = "reading" /\ sessionVars' = sessionVars  BY <1>5, Zenon DEF Timeout
  <2>2. pc # "closed" /\ ~Greeting  BY <2>1 DEF Greeting
  <2>3. CASE ~TimeoutErrorIsBuiltin  BY <1>1, <1>5, <2>1, <2>3, Zenon DEF Timeout, outbound
  <2>4. CASE TimeoutErrorIsBuiltin
    <3>1. outboundCursor # NoCursor /\ serverSent' = serverSent \o <<Heartbeat>>
          BY <1>5, <2>4, Zenon DEF Timeout, Write
    <3>2. serverSent # <<>>
      <4>. SUFFICES ASSUME serverSent = <<>> PROVE FALSE  OBVIOUS
      <4>1. Len(serverSent) = 0  BY EmptySeq
      <4>2. outboundCursor = NoCursor
            BY <2>2, <4>1, Zenon DEF CInv, Spoken, CursorBehind
      <4>. QED BY <3>1, <4>2
    <3>. QED BY <1>1, <2>1, <3>1, <3>2, Zenon DEF Beats
  <2>. QED BY <2>3, <2>4
<1>6. ASSUME HandlePacket PROVE Answers
  <2>. DEFINE p == Decoded.packet
              out == outcome'.outbound
              entry == [state |-> state, command |-> p.command, outbound |-> out,
                        enableTransform |-> outcome'.enableTransform]
  <2>1. Handle(p)  BY <1>6, Zenon DEF HandlePacket
  <2>2. out \in Seq(Speech) /\ log' = Append(log, entry)
    <3>1. IInv  BY Zenon DEF CInv
    <3>. HIDE DEF p
    <3>2. HandledAs(p)  BY <2>1, <3>1, HandledReply
    <3>. QED BY <3>2, Zenon DEF HandledAs
  <2>3. entry.outbound = out  OBVIOUS
  <2>4. serverSent' = serverSent \o out
    <3>1. CASE out = <<>>
      <4>1. serverSent' = serverSent  BY <1>6, <3>1, Zenon DEF HandlePacket
      <4>2. serverSent \in Seq(Packet)  BY Zenon DEF CInv, Spoken
      <4>3. serverSent \o <<>> = serverSent  BY <4>2, ConcatEmptySeq
      <4>. QED BY <3>1, <4>1, <4>3, Zenon
    <3>2. CASE out # <<>>  BY <1>6, <3>2, Zenon DEF HandlePacket, Write
    <3>. QED BY <3>1, <3>2
  <2>. HIDE DEF out, entry
  <2>. QED BY <2>2, <2>3, <2>4, Zenon DEF Answers
<1>. QED BY <1>2, <1>4, <1>5, <1>6, Zenon

(* What the client is to read is short enough for it, and what it reads    *)
(* besides heartbeats is the replies in the order of the requests.         *)
Answered == serverSent \in Seq(Short) /\ RepliesInOrder

(* A heartbeat more.                                                       *)
LEMMA BeatAnswered ==
    ASSUME CInv, Answered, Beats
    PROVE  Answered'
<1>. SUFFICES ASSUME NEW n, n = Len(serverSent), NEW k, k = Len(log), NEW l, l = n + 1
              PROVE  Answered'
     OBVIOUS
<1>1. serverSent \in Seq(Short) /\ <<Heartbeat>> \in Seq(Short)
      BY ShortPackets, Zenon DEF Answered
<1>2. serverSent' \in Seq(Short)
  <2>. DEFINE h == <<Heartbeat>>
              s == serverSent
              u == serverSent'
  <2>1. s \in Seq(Short) /\ h \in Seq(Short) /\ u = s \o h  BY <1>1, Zenon DEF Beats
  <2>. HIDE DEF h, s, u
  <2>2. u \in Seq(Short)  BY <2>1, ConcatProperties
  <2>. QED BY <2>2 DEF u
<1>3. /\ n \in Nat /\ Len(serverSent') = l /\ serverSent'[l] = Heartbeat
      /\ \A i \in 1..n : serverSent'[i] = serverSent[i]
      /\ \A i \in 0..n : Unbeaten(serverSent', i) = Unbeaten(serverSent, i)
      /\ Unbeaten(serverSent', l) = Unbeaten(serverSent', n)
  <2>. DEFINE h == <<Heartbeat>>
              s == serverSent
              u == serverSent'
  <2>1. Short \subseteq Packet  BY Zenon DEF Short
  <2>2. s \in Seq(Packet) /\ h \in Seq(Packet) /\ u \in Seq(Packet)
    <3>1. \A t \in Seq(Short) : t \in Seq(Packet)  BY <2>1, SeqMonotonic
    <3>. QED BY <1>1, <1>2, <3>1, Zenon
  <2>3. u = s \o h /\ Len(h) = 1 /\ h[1] = Heartbeat  BY Zenon, LenProperties DEF Beats
  <2>. HIDE DEF h, s, u
  <2>4. Joint(u, s, h, n, 1)
    <3>1. Joins(u, s, h, n, 1)  BY <2>2, <2>3, Zenon DEF Joins, s
    <3>. QED BY <3>1, UnbeatenBehind, Zenon
  <2>5. /\ n \in Nat /\ Len(u) = n + 1
        /\ \A i \in 1..n : u[i] = s[i]
        /\ \A i \in 0..n : Unbeaten(u, i) = Unbeaten(s, i)
        BY <2>4, Zenon DEF Joint
  <2>6. u[l] = Heartbeat
    <3>1. 1 \in 1..1  OBVIOUS
    <3>. QED BY <2>3, <2>4, <3>1, Zenon DEF Joint
  <2>7. l \in 1..Len(u) /\ l - 1 = n  BY <2>5
  <2>8. Unbeaten(u, l) = IF u[l] = Heartbeat THEN Unbeaten(u, l - 1)
                         ELSE Append(Unbeaten(u, l - 1), u[l])
        BY <2>2, <2>7, UnbeatenSteps
  <2>. QED BY <2>5, <2>6, <2>7, <2>8, Zenon DEF u, s
<1>4. /\ log' = log /\ k \in Nat /\ k # 0 /\ n # 0
  <2>1. log' = log /\ serverSent # <<>>  BY Zenon DEF Beats
  <2>2. Handled # 0  BY <2>1, Zenon DEF CInv, Spoken
  <2>3. Handled \in Nat  BY HandledPackets
  <2>4. n # 0  BY <1>1, <2>1, EmptySeq
  <2>. QED BY <2>1, <2>2, <2>3, <2>4, Zenon DEF Handled
<1>5. /\ Unbeaten(serverSent, n) = Replied(log, k)
      /\ \A i \in 1..n : serverSent[i] = Heartbeat =>
            i > 1 /\ \E j \in 1..k : Unbeaten(serverSent, i - 1) = Replied(log, j)
      BY Zenon DEF Answered, RepliesInOrder
<1>6. n \in 0..n /\ k \in 1..k /\ l > 1 /\ l - 1 = n
      /\ \A i \in 1..l : (i \in 1..n /\ i - 1 \in 0..n) \/ i = l
      BY <1>3, <1>4
<1>7. ASSUME NEW i \in 1..l, serverSent'[i] = Heartbeat
      PROVE  i > 1 /\ \E j \in 1..k : Unbeaten(serverSent', i - 1) = Replied(log, j)
  <2>1. CASE i \in 1..n /\ i - 1 \in 0..n
    <3>1. Unbeaten(serverSent', i - 1) = Unbeaten(serverSent, i - 1)  BY <1>3, <2>1, Zenon
    <3>2. serverSent[i] = Heartbeat  BY <1>3, <1>7, <2>1, Zenon
    <3>. QED BY <1>5, <2>1, <3>1, <3>2, Zenon
  <2>2. CASE i = l
    <3>1. Unbeaten(serverSent', l - 1) = Replied(log, k)  BY <1>3, <1>5, <1>6, Zenon
    <3>. QED BY <1>6, <2>2, <3>1, Zenon
  <2>. QED BY <1>6, <2>1, <2>2, Zenon
<1>8. Unbeaten(serverSent', l) = Replied(log, k)  BY <1>3, <1>5, <1>6, Zenon
<1>9. RepliesInOrder'  BY <1>3, <1>4, <1>7, <1>8, Zenon DEF RepliesInOrder
<1>. QED BY <1>2, <1>9, Zenon DEF Answered

(* A packet answered.                                                      *)
LEMMA AnswerAnswered ==
    ASSUME CInv, CInv', Answered, Answers
    PROVE  Answered'
<1>1. PICK out \in Seq(Speech) : \E entry : /\ entry.outbound = out /\ log' = Append(log, entry)
                                            /\ serverSent' = serverSent \o out
      BY Zenon DEF Answers
<1>2. PICK entry : /\ entry.outbound = out /\ log' = Append(log, entry)
                   /\ serverSent' = serverSent \o out
      BY <1>1
<1>. SUFFICES ASSUME NEW n, n = Len(serverSent), NEW m, m = Len(out),
                     NEW k, k = Len(log), NEW j, j = k + 1
              PROVE  Answered'
     OBVIOUS
<1>3. serverSent \in Seq(Short) /\ out \in Seq(Short)
      BY ShortPackets, Zenon DEF Answered
<1>4. serverSent' \in Seq(Short)
  <2>. DEFINE s == serverSent
              u == serverSent'
  <2>1. s \in Seq(Short) /\ out \in Seq(Short) /\ u = s \o out  BY <1>2, <1>3, Zenon
  <2>. HIDE DEF s, u
  <2>2. u \in Seq(Short)  BY <2>1, ConcatProperties
  <2>. QED BY <2>2 DEF u
<1>5. \A i \in 1..m : out[i] # Heartbeat
  <2>. SUFFICES ASSUME NEW i \in 1..m PROVE out[i] # Heartbeat  OBVIOUS
  <2>1. out[i] \in Speech  BY ElementOfSeq
  <2>2. out[i].command # HEARTBEAT  BY <2>1, Zenon DEF Speech
  <2>3. Heartbeat.command = HEARTBEAT  BY DEF Heartbeat, Message
  <2>. QED BY <2>2, <2>3, Zenon
<1>6. /\ n \in Nat /\ m \in Nat /\ Len(serverSent') = n + m
      /\ \A i \in 1..n : serverSent'[i] = serverSent[i]
      /\ \A i \in 1..m : serverSent'[n + i] = out[i]
      /\ \A i \in 0..n : Unbeaten(serverSent', i) = Unbeaten(serverSent, i)
      /\ Unbeaten(serverSent', n + m) = Unbeaten(serverSent, n) \o out
  <2>. DEFINE s == serverSent
              u == serverSent'
  <2>1. Short \subseteq Packet  BY Zenon DEF Short
  <2>2. s \in Seq(Packet) /\ out \in Seq(Packet)
    <3>1. \A t \in Seq(Short) : t \in Seq(Packet)  BY <2>1, SeqMonotonic
    <3>. QED BY <1>3, <3>1, Zenon
  <2>3. u = s \o out  BY <1>2, Zenon
  <2>. HIDE DEF s, u
  <2>4. Joint(u, s, out, n, m)
    <3>1. Joins(u, s, out, n, m)  BY <2>2, <2>3, Zenon DEF Joins, s
    <3>. QED BY <3>1, UnbeatenBehind, Zenon
  <2>. QED BY <1>5, <2>4, Zenon DEF Joint, u, s
<1>7. /\ k \in Nat /\ Len(log') = j /\ log'[j] = entry
      /\ \A i \in 1..k : log'[i] = log[i]
      /\ \A i \in 1..j : log'[i].outbound \in Seq(Reply)
  <2>1. log \in Seq(Entry) /\ log' \in Seq(Entry)  BY Zenon DEF CInv, IInv, TypeOK
  <2>2. k \in Nat  BY <2>1, LenProperties
  <2>3. /\ Len(log') = j /\ log'[j] = entry
        /\ \A i \in 1..k : log'[i] = log[i]
        BY <1>2, <2>1, <2>2
  <2>4. \A i \in 1..j : log'[i] \in Entry  BY <2>1, <2>3, ElementOfSeq
  <2>5. \A e \in Entry : e.outbound \in Seq(Reply)  BY DEF Entry
  <2>. QED BY <2>2, <2>3, <2>4, <2>5, Zenon
<1>8. /\ \A i \in 0..k : Replied(log', i) = Replied(log, i)
      /\ Replied(log', j) = Replied(log, k) \o out
  <2>. DEFINE more == log'
  <2>1. OneMore(more, log, k, j) /\ more[j].outbound = out
        BY <1>2, <1>7, Zenon DEF OneMore
  <2>. HIDE DEF more
  <2>2. AddsReplies(more, log, k, j)  BY <2>1, RepliedBehind, Zenon
  <2>. QED BY <2>1, <2>2, Zenon DEF more, AddsReplies
<1>9. /\ Unbeaten(serverSent, n) = Replied(log, k)
      /\ \A i \in 1..n : serverSent[i] = Heartbeat =>
            i > 1 /\ \E h \in 1..k : Unbeaten(serverSent, i - 1) = Replied(log, h)
      BY Zenon DEF Answered, RepliesInOrder
<1>10. /\ \A i \in 1..n + m : \/ i \in 1..n /\ i - 1 \in 0..n
                              \/ i - n \in 1..m /\ n + (i - n) = i
       /\ \A h \in 1..k : h \in 0..k /\ h \in 1..j
       BY <1>6, <1>7
<1>11. ASSUME NEW i \in 1..n + m, serverSent'[i] = Heartbeat
       PROVE  i > 1 /\ \E h \in 1..j : Unbeaten(serverSent', i - 1) = Replied(log', h)
  <2>1. CASE i \in 1..n /\ i - 1 \in 0..n
    <3>1. Unbeaten(serverSent', i - 1) = Unbeaten(serverSent, i - 1)  BY <1>6, <2>1, Zenon
    <3>2. serverSent[i] = Heartbeat  BY <1>6, <1>11, <2>1, Zenon
    <3>3. i > 1  BY <1>9, <2>1, <3>2, Zenon
    <3>4. PICK h \in 1..k : Unbeaten(serverSent, i - 1) = Replied(log, h)
          BY <1>9, <2>1, <3>2, Zenon
    <3>5. h \in 0..k /\ h \in 1..j  BY <1>10
    <3>6. Unbeaten(serverSent', i - 1) = Replied(log', h)  BY <1>8, <3>1, <3>4, <3>5, Zenon
    <3>. QED BY <3>3, <3>5, <3>6, Zenon
  <2>2. CASE i - n \in 1..m /\ n + (i - n) = i
    <3>1. serverSent'[n + (i - n)] = out[i - n]  BY <1>6, <2>2, Zenon
    <3>2. out[i - n] # Heartbeat  BY <1>5, <2>2, Zenon
    <3>. QED BY <1>11, <2>2, <3>1, <3>2
  <2>. QED BY <1>10, <2>1, <2>2, Zenon
<1>12. Unbeaten(serverSent', n + m) = Replied(log', j)  BY <1>6, <1>8, <1>9, Zenon
<1>13. RepliesInOrder'  BY <1>6, <1>7, <1>11, <1>12, Zenon DEF RepliesInOrder
<1>. QED BY <1>4, <1>13, Zenon DEF Answered

(* What the server has said is always answered in this sense.              *)
LEMMA AnsweredInvariant == Spec => []Answered
<1>1. Init => Answered
  <2>. SUFFICES ASSUME Init PROVE Answered  OBVIOUS
  <2>. DEFINE none == <<>>
  <2>1. serverSent = none /\ log = none  BY Zenon DEF Init, SessionInit
  <2>2. none \in Seq(Short) /\ none \in Seq(Packet) /\ Len(none) = 0  OBVIOUS
  <2>3. 0 \in Nat /\ \A i \in 1..0 : FALSE  OBVIOUS
  <2>. HIDE DEF none
  <2>4. Unbeaten(none, 0) = <<>>  BY <2>2, UnbeatenSteps
  <2>5. Replied(none, 0) = <<>>  BY <2>3, RepliedSteps
  <2>. QED BY <2>1, <2>2, <2>3, <2>4, <2>5, Zenon DEF Answered, RepliesInOrder
<1>2. CInv /\ CInv' /\ Answered /\ [Next]_vars => Answered'
  <2>. SUFFICES ASSUME CInv, CInv', Answered, [Next]_vars PROVE Answered'  OBVIOUS
  <2>1. ASSUME UNCHANGED <<serverSent, log>> PROVE Answered'
        BY <2>1, Zenon DEF Answered, RepliesInOrder
  <2>2. CASE Beats  BY <2>2, BeatAnswered
  <2>3. CASE Answers  BY <2>3, AnswerAnswered
  <2>. QED BY <2>1, <2>2, <2>3, OneAnswer, Zenon
<1>. QED BY <1>1, <1>2, ConnectionInvariant, PTL DEF Spec

(* A client reads each request's replies whole and in the order of the     *)
(* requests; only heartbeats come on top, never inside a burst and never   *)
(* before the handshake (app.py:53-70, 104-119).                           *)
THEOREM AnswersInOrder == Spec => []RepliesInOrder
<1>1. Answered => RepliesInOrder  BY Zenon DEF Answered
<1>. QED BY <1>1, AnsweredInvariant, PTL

(* A client that follows the handshake reads exactly the packets that were *)
(* written, down to the last byte: the server's cursor and the client's    *)
(* never part (app.py:56-70, 104-125).                                     *)
THEOREM ClientUnderstandsServer == Spec => []ClientReadsWhatIsSent
<1>1. CInv /\ Answered => ClientReadsWhatIsSent
  <2>. SUFFICES ASSUME CInv, Answered PROVE ClientReadsWhatIsSent  OBVIOUS
  <2>1. serverSent \in Seq(Short)  BY Zenon DEF Answered
  <2>2. PICK frames : Speaks(serverStream, frames, serverSent, Len(serverSent))
        BY Zenon DEF CInv, Spoken
  <2>. QED BY <2>1, <2>2, SpeechIsRead
<1>. QED BY <1>1, ConnectionInvariant, AnsweredInvariant, PTL
=============================================================================
