---------------------------- MODULE LoginPromise -----------------------------
(***************************************************************************)
(* What a client of the login service can rely on, without the requests    *)
(* and the bytes: one greeting, then an open phase in which the server may *)
(* raise version barriers, then a ready phase without them.  A splash and  *)
(* an area push are owed at most once each.  docs/messages/                *)
(* login-bootstrap.md describes these exchanges message by message.        *)
(***************************************************************************)
VARIABLES
    phase,   \* "hello", "open", "ready"
    burst,   \* the commands the server sent last
    splash,  \* a splash is still owed
    push     \* an area push is still owed

promiseVars == <<phase, burst, splash, push>>

Greeting == 229   \* 0xE5
Session  == 187   \* 0xBB
Versions == 226   \* 0xE2
Screen   == 196   \* 0xC4
Areas    == 228   \* 0xE4

(* Single replies of either phase: 0xFD, 0xDA, 0xE1, 0xE0.                 *)
AnyTime == {253, 218, 225, 224}

PromiseInit ==
    /\ phase = "hello" /\ burst = <<>>
    /\ splash \in BOOLEAN /\ push \in BOOLEAN

Greet ==
    /\ phase = "hello" /\ phase' = "open"
    /\ burst' = <<Greeting>>
    /\ UNCHANGED <<splash, push>>

RaiseBarrier ==
    /\ phase = "open"
    /\ burst' = IF splash THEN <<Session, Versions, Screen>> ELSE <<Session, Versions>>
    /\ splash' = FALSE
    /\ UNCHANGED <<phase, push>>

BecomeReady ==
    /\ phase = "open" /\ phase' = "ready"
    /\ burst' = IF push THEN <<Areas>> ELSE <<>>
    /\ push' = FALSE
    /\ UNCHANGED splash

(* 0xA9 is answered only before the panel is ready, 0xBB alone and 0xE4    *)
(* only after.                                                             *)
ReplyOnce ==
    /\ phase # "hello"
    /\ \/ burst' = <<>>
       \/ \E c \in AnyTime \cup IF phase = "open" THEN {169} ELSE {Session, Areas} :
             burst' = <<c>>
    /\ UNCHANGED <<phase, splash, push>>

PromiseNext == Greet \/ RaiseBarrier \/ BecomeReady \/ ReplyOnce

PromiseSpec == PromiseInit /\ [][PromiseNext]_promiseVars
==============================================================================
