---------------------------- MODULE LoginSession -----------------------------
(***************************************************************************)
(* The per-connection state machine of server/session.py.  One action per  *)
(* state handler; a handler that raises leaves the session as it was, and  *)
(* what the code returns (SessionOutcome) is the variable outcome.         *)
(***************************************************************************)
EXTENDS Payloads

CONSTANTS
    ClientPackets,    \* the packets a client may try
    SplashRevisions,  \* values of the config field experimental_splash_revision
    None,             \* Python's None
    MaxHandled        \* bound: packets one session accepts

ASSUME LoginSessionAssumption ==
    /\ SplashRevisions \subseteq (-128..127) \cup {None}
    /\ MaxHandled \in Nat

VARIABLES
    state,                       \* _state
    experimentalSplashRevision,  \* _experimental_splash_revision
    experimentalAreaPush,        \* _experimental_area_push
    splashTransitionSent,        \* _splash_transition_sent
    areaPushSent,                \* _area_push_sent
    outcome,                     \* the last SessionOutcome handle returned
    log                          \* history: every accepted packet and its outcome

config == <<experimentalSplashRevision, experimentalAreaPush>>
sessionVars == <<state, config, splashTransitionSent, areaPushSent, outcome, log>>

States == {"AWAIT_CLIENT_E5", "AWAIT_INITIAL_BB", "BOOTSTRAP", "ACCOUNT_PANEL_READY"}

_VERSION == 2

NoOutcome == [outbound |-> <<>>, enableTransform |-> FALSE]

SessionInit ==
    /\ state = "AWAIT_CLIENT_E5"
    /\ experimentalSplashRevision \in SplashRevisions
    /\ experimentalAreaPush \in BOOLEAN
    /\ splashTransitionSent = FALSE
    /\ areaPushSent = FALSE
    /\ outcome = NoOutcome
    /\ log = <<>>

------------------------------------------------------------------------------
(* SessionOutcome(outbound, enable_transform).                             *)
Outcome(p, outbound, transform) ==
    /\ outcome' = [outbound |-> outbound, enableTransform |-> transform]
    /\ log' = Append(log, [state    |-> state,
                           command  |-> p.command,
                           outbound |-> outbound,
                           enableTransform |-> transform])

Answer(p, outbound) == Outcome(p, outbound, FALSE)

UnchangedSession == UNCHANGED <<state, config, splashTransitionSent, areaPushSent>>

(* The commands a state acknowledges without moving, and their replies.    *)
Acknowledged(s) ==
    CASE s = "AWAIT_CLIENT_E5"     -> {}
      [] s = "AWAIT_INITIAL_BB"    -> {TRANSPORT_SYNC, POST_RESET_STATUS, CLIENT_TEXT_72,
                                       PRELOGIN_STATUS}
      [] s = "BOOTSTRAP"           -> {POST_RESET_STATUS, CLIENT_TEXT_72, PRELOGIN_STATUS,
                                       SCREEN_BOOTSTRAP, CLIENT_U32_B2, CLIENT_SELECTION,
                                       UNKNOWN_07, BOOTSTRAP_DA, BOOTSTRAP_E1, BOOTSTRAP_E0}
      [] s = "ACCOUNT_PANEL_READY" -> {POST_RESET_STATUS, CLIENT_TEXT_72, PRELOGIN_STATUS,
                                       CLIENT_SESSION, SCREEN_BOOTSTRAP, CLIENT_SELECTION,
                                       AREA, UNKNOWN_07, BOOTSTRAP_READY, BOOTSTRAP_DA,
                                       BOOTSTRAP_E1, BOOTSTRAP_E0}

Replies(command) ==
    CASE command = TRANSPORT_SYNC  -> <<ServerTransportReset2>>
      [] command = PRELOGIN_STATUS -> <<ServerPreloginStatus>>
      [] command = CLIENT_SESSION  -> <<ServerSessionResponse>>
      [] command = AREA            -> <<ServerAreaList>>
      [] command = BOOTSTRAP_DA    -> <<BootstrapDaResponse(_VERSION)>>
      [] command = BOOTSTRAP_E1    -> <<BootstrapE1Response(_VERSION)>>
      [] command = BOOTSTRAP_E0    -> <<BootstrapE0EmptyResponse(_VERSION)>>
      [] OTHER                     -> <<>>

(* _decode_experimental_screen_request: 0xC4 only with a splash configured.*)
ScreenRequestAllowed(p) ==
    p.command = SCREEN_BOOTSTRAP => experimentalSplashRevision # None

Acknowledge(p) ==
    /\ p.command \in Acknowledged(state)
    /\ ScreenRequestAllowed(p)
    /\ Answer(p, Replies(p.command))
    /\ UnchangedSession

(* _area_push_if_enabled *)
AreaPushDue == experimentalAreaPush /\ ~areaPushSent

AreaPushIfEnabled == IF AreaPushDue THEN <<ServerAreaList>> ELSE <<>>

(* Mutants: 0xDB before any 0xBB pushes nothing; 0xDB leaves the state.    *)
BootstrapReadyUnpushed(p) ==
    /\ p.command = BOOTSTRAP_READY
    /\ state' = "ACCOUNT_PANEL_READY"
    /\ areaPushSent' = (areaPushSent \/ AreaPushDue)
    /\ Answer(p, IF state = "BOOTSTRAP" THEN AreaPushIfEnabled ELSE <<>>)
    /\ UNCHANGED <<config, splashTransitionSent>>

BootstrapReadyStaying(p) ==
    /\ p.command = BOOTSTRAP_READY
    /\ areaPushSent' = (areaPushSent \/ AreaPushDue)
    /\ Answer(p, AreaPushIfEnabled)
    /\ UNCHANGED <<state, config, splashTransitionSent>>

BootstrapReady(p) ==
    /\ p.command = BOOTSTRAP_READY
    /\ state' = "ACCOUNT_PANEL_READY"
    /\ areaPushSent' = (areaPushSent \/ AreaPushDue)
    /\ Answer(p, AreaPushIfEnabled)
    /\ UNCHANGED <<config, splashTransitionSent>>

(* _initial_bootstrap_responses *)
(* Mutant: _splash_transition_sent is not consulted.                       *)
SplashAlwaysDue == experimentalSplashRevision # None

SplashDue == experimentalSplashRevision # None /\ ~splashTransitionSent

InitialBootstrapResponses ==
    <<ServerSessionResponse, BootstrapVersions(_VERSION)>>
    \o IF SplashDue THEN <<ScreenBootstrapResponse(experimentalSplashRevision)>> ELSE <<>>

(* Mutants: a retried 0xBB is answered without 0xE2; the flag is not set.  *)
SessionRequestBare(p) ==
    /\ p.command = CLIENT_SESSION
    /\ state' = "BOOTSTRAP"
    /\ splashTransitionSent' = (splashTransitionSent \/ SplashDue)
    /\ Answer(p, IF state = "BOOTSTRAP" THEN <<ServerSessionResponse>>
                 ELSE InitialBootstrapResponses)
    /\ UNCHANGED <<config, areaPushSent>>

SessionRequestForgetful(p) ==
    /\ p.command = CLIENT_SESSION
    /\ state' = "BOOTSTRAP"
    /\ Answer(p, InitialBootstrapResponses)
    /\ UNCHANGED <<config, splashTransitionSent, areaPushSent>>

SessionRequest(p) ==
    /\ p.command = CLIENT_SESSION
    /\ state' = "BOOTSTRAP"
    /\ splashTransitionSent' = (splashTransitionSent \/ SplashDue)
    /\ Answer(p, InitialBootstrapResponses)
    /\ UNCHANGED <<config, areaPushSent>>

------------------------------------------------------------------------------
(* The handlers.                                                           *)
(* Mutant: the greeting leaves the state.                                  *)
HandleE5Again(p) ==
    /\ state = "AWAIT_CLIENT_E5"
    /\ p.command = HANDSHAKE
    /\ Outcome(p, <<HandshakeResponse>>, TRUE)
    /\ UNCHANGED <<state, config, splashTransitionSent, areaPushSent>>

HandleE5(p) ==
    /\ state = "AWAIT_CLIENT_E5"
    /\ p.command = HANDSHAKE
    /\ state' = "AWAIT_INITIAL_BB"
    /\ Outcome(p, <<HandshakeResponse>>, TRUE)
    /\ UNCHANGED <<config, splashTransitionSent, areaPushSent>>

HandleInitialBB(p) ==
    /\ state = "AWAIT_INITIAL_BB"
    /\ Acknowledge(p) \/ BootstrapReady(p) \/ SessionRequest(p)

HandleBootstrap(p) ==
    /\ state = "BOOTSTRAP"
    /\ Acknowledge(p) \/ BootstrapReady(p) \/ SessionRequest(p)

(* Mutant: 0xBB replays the barrier.                                       *)
HandleReadyReplaying(p) ==
    /\ state = "ACCOUNT_PANEL_READY"
    /\ \/ Acknowledge(p)
       \/ /\ p.command = CLIENT_SESSION
          /\ Answer(p, InitialBootstrapResponses)
          /\ UnchangedSession

HandleReady(p) ==
    /\ state = "ACCOUNT_PANEL_READY"
    /\ Acknowledge(p)

(* handle: the decoders run before any assignment.                         *)
Handle(p) ==
    /\ WellFormed(p)
    /\ HandleE5(p) \/ HandleInitialBB(p) \/ HandleBootstrap(p) \/ HandleReady(p)

(* The packets handle does not raise SessionProtocolError for.             *)
Accepts(p) ==
    /\ WellFormed(p)
    /\ \/ p.command \in Acknowledged(state) /\ ScreenRequestAllowed(p)
       \/ state = "AWAIT_CLIENT_E5" /\ p.command = HANDSHAKE
       \/ state \in {"AWAIT_INITIAL_BB", "BOOTSTRAP"}
          /\ p.command \in {BOOTSTRAP_READY, CLIENT_SESSION}

SessionNext == \E p \in ClientPackets : Len(log) < MaxHandled /\ Handle(p)

SessionSpec == SessionInit /\ [][SessionNext]_sessionVars
------------------------------------------------------------------------------
Reply == [command : 0..255, payload : Seq(0..255)]

Entry == [state : States, command : 0..255, outbound : Seq(Reply), enableTransform : BOOLEAN]

TypeOK ==
    /\ state \in States
    /\ experimentalSplashRevision \in SplashRevisions
    /\ experimentalAreaPush \in BOOLEAN
    /\ splashTransitionSent \in BOOLEAN
    /\ areaPushSent \in BOOLEAN
    /\ outcome \in [outbound : Seq(Reply), enableTransform : BOOLEAN]
    /\ log \in Seq(Entry)

HasCommand(outbound, command) ==
    \E k \in 1..Len(outbound) : outbound[k].command = command

(* The reply to the i-th accepted packet contains this command.            *)
Sends(i, command) == HasCommand(log[i].outbound, command)

(* Exactly the first accepted packet turns the transform on, with 0xE5 and *)
(* nothing else in its reply: whatever comes later, app.py's "enabled more *)
(* than once" cannot be reached.  session.py:87-92                         *)
TransformOnce ==
    \A i \in 1..Len(log) :
        /\ log[i].enableTransform <=> i = 1
        /\ Sends(i, HANDSHAKE) <=> i = 1
        /\ i = 1 => log[i].outbound = <<HandshakeResponse>>

(* The version barrier: every 0xBB answered before the account panel is    *)
(* ready carries 0xE2 right behind it, however often the client retries,   *)
(* and no later packet brings 0xE2 or 0xC4 back.  session.py:125-131       *)
VersionBarrier ==
    \A i \in 1..Len(log) :
        LET reply == log[i].outbound
            fresh == log[i].command = CLIENT_SESSION /\ log[i].state # "ACCOUNT_PANEL_READY"
        IN  /\ fresh => Len(reply) >= 2 /\ reply[1].command = CLIENT_SESSION
                        /\ reply[2] = BootstrapVersions(_VERSION)
            /\ Sends(i, BOOTSTRAP_VERSIONS) \/ Sends(i, SCREEN_BOOTSTRAP) => fresh

(* The splash screen goes out on the first such 0xBB when it is configured *)
(* and never again on this connection, whichever way the client gets back  *)
(* to sending 0xBB.  session.py:288-297                                    *)
SplashOnce ==
    \A i \in 1..Len(log) :
        Sends(i, SCREEN_BOOTSTRAP) <=>
            /\ experimentalSplashRevision # None
            /\ Sends(i, BOOTSTRAP_VERSIONS)
            /\ \A j \in 1..i - 1 : ~Sends(j, BOOTSTRAP_VERSIONS)

(* The unsolicited area list leaves once, with the 0xDB that makes the     *)
(* panel ready: on both paths into that state, on no retried 0xDB, and not *)
(* at all unless enabled.  session.py:105-108, 156-159, 255-259            *)
AreaPushOnce ==
    \A i \in 1..Len(log) :
        (log[i].command # AREA /\ Sends(i, AREA)) <=>
            /\ experimentalAreaPush
            /\ log[i].command = BOOTSTRAP_READY
            /\ log[i].state # "ACCOUNT_PANEL_READY"

(* The panel is ready exactly from the first accepted 0xDB on, and packets *)
(* are judged by the state all earlier ones left behind.                   *)
(* session.py:105-108, 156-159                                             *)
ReadySinceFirstDB ==
    LET ready(n) == \E j \in 1..n : log[j].command = BOOTSTRAP_READY
    IN  /\ \A i \in 1..Len(log) :
               log[i].state = "ACCOUNT_PANEL_READY" <=> ready(i - 1)
        /\ state = "ACCOUNT_PANEL_READY" <=> ready(Len(log))

(* The session's few fields sum up its whole history: only the greeting    *)
(* leaves the first state, the splash flag means a barrier went out with a *)
(* splash configured, the push flag that the panel became ready with the   *)
(* push enabled.  The other invariants rest on it.  session.py:63-72       *)
FieldsTellHistory ==
    /\ state = "AWAIT_CLIENT_E5" <=> Len(log) = 0
    /\ \A i \in 1..Len(log) : log[i].state = "AWAIT_CLIENT_E5" <=> i = 1
    /\ splashTransitionSent <=>
           /\ experimentalSplashRevision # None
           /\ \E i \in 1..Len(log) : Sends(i, BOOTSTRAP_VERSIONS)
    /\ areaPushSent <=> experimentalAreaPush /\ state = "ACCOUNT_PANEL_READY"

Rank == [AWAIT_CLIENT_E5 |-> 0, AWAIT_INITIAL_BB |-> 1, BOOTSTRAP |-> 2,
         ACCOUNT_PANEL_READY |-> 3]

(* No packet takes a session back to an earlier state.  session.py:78-194  *)
NeverRegresses == [][Rank[state'] >= Rank[state]]_sessionVars

(* LoginPromise, read off the session: AWAIT_INITIAL_BB and BOOTSTRAP are  *)
(* both its open phase, and a burst is the commands of the last outcome.   *)
Commands(outbound) == [k \in 1..Len(outbound) |-> outbound[k].command]

Phase(s) == CASE s = "AWAIT_CLIENT_E5"     -> "hello"
              [] s = "ACCOUNT_PANEL_READY" -> "ready"
              [] OTHER                     -> "open"

Promise == INSTANCE LoginPromise WITH
    phase  <- Phase(state),
    burst  <- Commands(outcome.outbound),
    splash <- SplashDue,
    push   <- AreaPushDue

(* Every run of the session keeps the promise: the splash and the push go  *)
(* out while they are owed and only then, barriers only in the open phase. *)
(* session.py:78-306                                                       *)
KeepsPromise == Promise!PromiseSpec
==============================================================================
