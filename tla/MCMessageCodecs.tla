--------------------------- MODULE MCMessageCodecs ---------------------------
(* Every class with ordinary values, with the least and the greatest ones, *)
(* and with values just outside the range that its encoder accepts.        *)
EXTENDS MessageCodecs

Of(class, values) == {[class |-> class, fields |-> v, records |-> <<>>] : v \in values}

AreaLists(selectors, lists) ==
    {[class |-> "ServerAreaList", fields |-> <<s>>, records |-> l] : s \in selectors, l \in lists}

Texts == {<<>>, <<108>>, <<195, 169>>}
Edges == {-1, 0, 1, 127, 128, 255, 256}
Words == {<<0, 0>>, <<0, 1>>, <<65535, 65535>>, <<65536, 0>>, <<32768, 0>>}

Records(ids, texts) ==
    {<<id, <<0, 1, 0, 8, <<0, 7>>, t>>>> : id \in ids \ {-1}, t \in texts}
    \cup {<<-1, <<t>>>> : t \in texts}

OneRecord  == AreaLists({0, 1, 2, 255, 256}, {<<r>> : r \in Records({0}, {<<108>>})})
              \cup AreaLists({0}, {<<r>> : r \in Records({-2, 0, 127, 128, 254, 255, 256}, Texts)})
TwoRecords == AreaLists({0}, {<<r, q>> : r \in Records({3}, {<<>>}), q \in Records({127}, {<<108>>})})

MCMessages ==
    UNION {
      Of("HandshakeResponse", {<<s, b, <<108>>>> : s \in {<<>>, <<0>>, <<5, 255>>}, b \in {0, 255, 256}}),
      Of("ClientSessionRequest", {<<a, b, n>> : a \in Texts, b \in {<<>>, <<97>>}, n \in {0, 1}}),
      Of("ClientTransportSync0", {<<0, t, a, b>> : t \in {<<>>, <<108>>}, a \in Words, b \in {<<0, 1>>}}),
      Of("ServerTransportReset2", {<<2>>}),
      Of("ClientPostResetStatus", {<<n>> : n \in Edges}),
      Of("ClientPrelogin72", {<<1, n, t>> : n \in {0, 255}, t \in Texts}),
      Of("ServerPreloginStatus", {<<n>> : n \in Edges}),
      Of("ClientU32B2", {<<w>> : w \in Words}),
      Of("ClientC6Selection", {<<t, 1>> : t \in Texts}),
      Of("ServerSessionResponse", {<<t, <<108>>, <<>>, t>> : t \in Texts}),
      Of("BootstrapVersions", {<<a, 2, b>> : a \in {0, 255, 256}, b \in {1, -1}}),
      Of("ClientAreaRequest", {<<n>> : n \in {0, 1}}),
      OneRecord, TwoRecords, AreaLists({0}, {<<>>}),
      Of("ScreenBootstrapResponse", {<<0, n, t>> : n \in {-129, -128, -1, 0, 1, 127, 128, 255}, t \in {<<>>, <<108>>}}),
      Of("ScreenResourceManifestResponse", {<<1, n, k>> : n \in {0, 255}, k \in {0, 256, 65535, 65536}}),
      Of("ScreenResourceItemResponse", {<<2, t, d>> : t \in Texts, d \in {<<>>, <<0>>}}),
      Of("BootstrapDaResponse", {<<n, <<0>>>> : n \in Edges}),
      Of("BootstrapE1Response", {<<1, <<0, 0>>, b, <<0>>>> : b \in {<<>>, <<0, 0>>}}),
      Of("BootstrapE0EmptyResponse", {<<n, 0, 0, 0>> : n \in Edges})}
==============================================================================
