------------------------------ MODULE Inspector ------------------------------
(***************************************************************************)
(* tools/inspect_runtime_state.py: the inspector reads the memory of a     *)
(* client that goes on running, one ReadProcessMemory at a time, and       *)
(* prints what it read as one report.                                      *)
(*                                                                         *)
(* The client is the game, modelled from what the repository's analysis    *)
(* says of it: replies set the three bootstrap flags; the login screen is  *)
(* a singleton that is created once and made the current screen later; its *)
(* barrier, ticked only then, sets appReady and clears the flags one by    *)
(* one.  A pointer is named for its object, Null is 0.  Any read may fail; *)
(* what no property tells apart is read by one step and not kept.          *)
(***************************************************************************)
EXTENDS Localization

CONSTANTS TextIds,  \* E4_LOCALIZATION_IDS, in their order
          Text,     \* the client's text of each id
          Tables    \* the localization arrays a client may have

Ids == {TextIds[n] : n \in DOMAIN TextIds}

(* The arrays hold integers, those of packed without a sign, or are null.  *)
ASSUME TablesAssumption ==
    /\ TextIds \in Seq(Nat) /\ MaxTextBytes \in Nat
    /\ \A tables \in Tables :
          \A array \in {tables.cache, tables.offsets, tables.lengths, tables.packed} :
             array = NoArray \/ (array.at \in Seq(Int) /\ array = Array(array.at))
    /\ \A tables \in Tables : tables.packed.at \in Seq(Nat)

(* A text is a sequence of bytes, and so is what ^ and the key make of one.*)
ASSUME TextAssumption ==
    \A id \in Ids :
        /\ Text[id] \in Seq(0..255)
        /\ \A byte \in 0..255, index \in 0..MaxTextBytes :
              XorByte(byte, KeyStream(id, index)) \in 0..255

(* Sound arrays hold the texts: each id's length, and its bytes where the  *)
(* client puts them.                                                       *)
ASSUME SoundAssumption ==
    \A tables \in Tables : tables.sound => \A id \in Ids :
        /\ At(tables.lengths, id) = Len(Text[id])
        /\ \A n \in 1..Len(Text[id]) :
              PlainByte(tables.packed, At(tables.offsets, id), id, n - 1) = Text[id][n]

Null   == "null"
Unread == "unread"
Flags  == {"e1", "e0", "da"}
Fields == Flags \cup {"ui", "current", "ready"}

(* Mutant: app_ready is read with the pointers, before the flags.          *)
ProgramReadyFirst ==
    <<"process", "statics", "ready", "ui", "others", "current", "others",
      "e1", "e0", "da", "others", "screen", "others">>

(* What inspect reads, in the order in which Python evaluates it.          *)
Program ==
    <<"process", "statics", "ui", "others", "current", "others",
      "e1", "e0", "da", "others", "ready", "others", "screen", "others">>

VARIABLES
    memory,    \* the client's: the value of each of Fields
    clearing,  \* the flags that the barrier has yet to clear
    pc,        \* how many steps of Program, and texts, the inspector has read
    seen,      \* the inspector's: the value it read of each of Fields
    text,      \* the text read last, with its id and the arrays it is from
    outcome,   \* "running", "printed", or "failed": exit code 1
    doubts     \* history: see Doubts

client == <<memory, clearing>>
tool   == <<pc, seen, text, outcome>>
vars   == <<client, tool, doubts>>

Init ==
    /\ memory = [f \in Fields |-> IF f \in {"ui", "current"} THEN Null ELSE 0]
    /\ clearing = {}
    /\ pc = 0 /\ seen = [f \in Fields |-> Unread] /\ text = {} /\ outcome = "running"
    /\ doubts = {}

------------------------------------------------------------------------------
(* The client, which one thread runs.  Nothing it does matters to the      *)
(* inspector beyond the last step of Program.                              *)
Store(f, value) == memory' = [memory EXCEPT ![f] = value]

ParseReply(f) ==
    /\ memory[f] = 0 /\ clearing = {}
    /\ Store(f, 1)
    /\ UNCHANGED clearing

CreateSingleton ==
    /\ memory["ui"] = Null
    /\ Store("ui", "login")
    /\ UNCHANGED clearing

(* Splash, the 0xC4 target, and in the end the singleton.                  *)
ShowScreen ==
    /\ memory["current"] # "login"
    /\ \E screen \in {"splash", "target", memory["ui"]} \ {Null} : Store("current", screen)
    /\ UNCHANGED clearing

Barrier ==
    /\ memory["current"] = "login" /\ clearing = {} /\ \A f \in Flags : memory[f] = 1
    /\ Store("ready", 1)
    /\ clearing' = Flags

Clear(f) ==
    /\ f \in clearing
    /\ Store(f, 0)
    /\ clearing' = clearing \ {f}

Client ==
    /\ pc < Len(Program)
    /\ \/ \E f \in Flags : ParseReply(f) \/ Clear(f)
       \/ CreateSingleton \/ ShowScreen \/ Barrier

------------------------------------------------------------------------------
(* The inspector.                                                          *)
Reached(step) == pc < Len(Program) /\ Program[pc + 1] = step

ReadField(f) ==
    /\ Reached(f)
    /\ seen' = [seen EXCEPT ![f] = memory[f]]
    /\ UNCHANGED <<text, outcome>>

(* ProcessReader, which refuses a process from outside the local copy, and *)
(* module_base.                                                            *)
OpenProcess ==
    /\ Reached("process")
    /\ UNCHANGED <<seen, text, outcome>>

(* The _static_fields of eleven types, each refused while it is null.      *)
StaticFields ==
    /\ Reached("statics")
    /\ UNCHANGED <<seen, text, outcome>>

(* Pointers, types, method slots, controls, numbers and strings.           *)
ReadOthers ==
    /\ Reached("others")
    /\ UNCHANGED <<seen, text, outcome>>

(* current_screen_fields: there is nothing to read at address 0.           *)
CurrentScreenFields ==
    /\ Reached("screen") /\ seen["current"] # Null
    /\ UNCHANGED <<seen, text, outcome>>

(* One text; the client may have decoded and cached it by now, or not.     *)
ReadText ==
    /\ pc - Len(Program) \in 0..Len(TextIds) - 1
    /\ LET id == TextIds[pc - Len(Program) + 1]
       IN  \E tables \in Tables, slot \in {{}, {Text[id]}} :
             \E bytes \in {LocalizationText(tables, slot, id)} \ {Refused} :
                text' = {[id |-> id, from |-> tables, bytes |-> bytes]}
    /\ UNCHANGED <<seen, outcome>>

PrintReport ==
    /\ pc = Len(Program) + Len(TextIds)
    /\ outcome' = "printed"
    /\ UNCHANGED <<pc, seen, text>>

(* A RuntimeReadError: the process is gone or the wrong one, or memory is  *)
(* not there or not as expected.  Nothing is printed.                      *)
Fail ==
    /\ outcome' = "failed"
    /\ UNCHANGED <<pc, seen, text>>

Inspect ==
    \/ /\ \/ \E f \in Fields : ReadField(f)
          \/ OpenProcess \/ StaticFields \/ ReadOthers \/ CurrentScreenFields \/ ReadText
       /\ pc' = pc + 1
    \/ PrintReport
    \/ Fail

(* History.  A flag was read as 0 that the barrier had cleared; when       *)
(* appReady was read, the barrier waited for something else as well.       *)
Waiting == memory["ui"] # Null /\ \A f \in Flags : memory[f] = 1

FlagWasCleared == \E f \in Flags : Reached(f) /\ memory[f] = 0 /\ memory["ready"] = 1

Doubts ==
    (IF FlagWasCleared THEN {"flag_cleared"} ELSE {})
    \cup (IF Reached("ready") /\ ~Waiting THEN {"not_waiting"} ELSE {})

Next ==
    /\ outcome = "running"
    /\ \/ Client /\ UNCHANGED <<tool, doubts>>
       \/ Inspect /\ doubts' = (doubts \cup Doubts) /\ UNCHANGED client

Spec == Init /\ [][Next]_vars

------------------------------------------------------------------------------
(* The first and the third reading that docs/client-redirection.md:162-167 *)
(* gives of a report with appReady 0, though its values were read one      *)
(* after another while the client went on.  A flag of 0 was not yet set,   *)
(* never one that the barrier had cleared; and if all three are 1 and the  *)
(* singleton exists, the barrier had all it waits for and had not run at   *)
(* the time appReady was read.  inspect_runtime_state.py:371, 401-414      *)
DiagnosisHolds ==
    outcome = "printed" /\ seen["ready"] = 0 =>
        /\ (\E f \in Flags : seen[f] = 0) => "flag_cleared" \notin doubts
        /\ (\A f \in Flags : seen[f] = 1) /\ seen["ui"] # Null => "not_waiting" \notin doubts

(* A text is the client's own, whether the client had cached it or the     *)
(* inspector decodes it; and whatever the arrays look like, no part of it  *)
(* comes from memory beside them: the inspection fails instead.            *)
(* inspect_runtime_state.py:283-346                                        *)
LocalizedTextIsTrue ==
    \A t \in text :
        /\ \A n \in DOMAIN t.bytes : t.bytes[n] # Outside
        /\ t.from.sound => t.bytes = Text[t.id]
==============================================================================
