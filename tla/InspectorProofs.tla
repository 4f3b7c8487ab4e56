--------------------------- MODULE InspectorProofs ---------------------------
(* What a report lets its reader conclude, for any texts and any arrays,   *)
(* wherever the client's stores fall between the inspector's reads.        *)
EXTENDS Inspector, TLAPS, SequenceTheorems

(* What was read as 1, in the first n steps of Program, is so still.       *)
Kept(f, n) == pc >= n /\ seen[f] = 1 => memory[f] = 1

ClientTypeOK ==
    /\ memory = [f \in Fields |-> memory[f]] /\ seen = [f \in Fields |-> seen[f]]
    /\ \A f \in Flags \cup {"ready"} : memory[f] \in {0, 1}
    /\ memory["ui"] \in {Null, "login"}
    /\ clearing \subseteq Flags
    /\ pc \in Nat

(* Until appReady is set nothing is taken back: what was read as 1, or as  *)
(* an object, is so still.  A doubt was raised at a read that the report   *)
(* gives away.                                                             *)
NothingTakenBack ==
    /\ clearing # {} => memory["ready"] = 1
    /\ memory["ready"] = 0 =>
          /\ Kept("e1", 7) /\ Kept("e0", 8) /\ Kept("da", 9)
          /\ pc >= 3 /\ seen["ui"] # Null => memory["ui"] # Null

DoubtsShow ==
    /\ "flag_cleared" \in doubts =>
          memory["ready"] = 1 /\ (pc >= 11 => seen["ready"] = 1)
    /\ "not_waiting" \in doubts =>
          /\ pc >= 11
          /\ seen["ready"] = 1 \/ seen["ui"] = Null \/ \E f \in Flags : seen[f] # 1

IInv ==
    /\ ClientTypeOK
    /\ NothingTakenBack
    /\ outcome # "failed" => DoubtsShow
    /\ outcome = "printed" => pc >= 11

(* Where in Program the fields are.                                        *)
LEMMA WhenReached ==
    ASSUME NEW i \in Nat, pc = i
    PROVE  /\ Reached("ui") <=> i = 2
           /\ Reached("current") <=> i = 4
           /\ Reached("e1") <=> i = 6
           /\ Reached("e0") <=> i = 7
           /\ Reached("da") <=> i = 8
           /\ Reached("ready") <=> i = 10
           /\ \A step : Reached(step) => i < 14
<1>1. Len(Program) = 14
  BY DEF Program
<1>2. /\ Program[1] = "process" /\ Program[2] = "statics" /\ Program[3] = "ui"
      /\ Program[4] = "others" /\ Program[5] = "current" /\ Program[6] = "others"
      /\ Program[7] = "e1" /\ Program[8] = "e0" /\ Program[9] = "da"
      /\ Program[10] = "others" /\ Program[11] = "ready" /\ Program[12] = "others"
      /\ Program[13] = "screen" /\ Program[14] = "others"
  BY DEF Program
<1>3. i < 14 => i \in {0, 1, 2, 3, 4, 5, 6, 7, 8, 9, 10, 11, 12, 13}
  OBVIOUS
<1>. QED
  <2> HIDE DEF Program
  <2>. QED BY <1>1, <1>2, <1>3 DEF Reached

(* A store of the client writes one field and leaves the others.          *)
LEMMA Stored ==
    ASSUME ClientTypeOK, NEW f \in Fields, NEW value, Store(f, value)
    PROVE  /\ memory' = [g \in Fields |-> memory'[g]]
           /\ memory'[f] = value
           /\ \A g \in Fields \ {f} : memory'[g] = memory[g]
<1>1. memory = [g \in Fields |-> memory[g]]
  BY DEF ClientTypeOK
<1>2. memory' = [memory EXCEPT ![f] = value]
  BY DEF Store
<1>. QED BY <1>1, <1>2

(* What the client may store while the inspector is between two reads.     *)
LEMMA StoreKeeps ==
    ASSUME IInv, NEW f \in Fields, NEW value, Store(f, value), UNCHANGED <<tool, doubts>>,
           clearing' \subseteq Flags,
           \/ f \in Flags /\ value = 1 /\ clearing' = clearing
           \/ f \in Flags /\ value = 0 /\ memory["ready"] = 1
           \/ f = "ready" /\ value = 1
           \/ f = "ui" /\ value = "login" /\ clearing' = clearing
           \/ f = "current" /\ clearing' = clearing
    PROVE  IInv'
<1>1. UNCHANGED <<pc, seen, text, outcome, doubts>>
  BY DEF tool
<1>2. /\ memory' = [g \in Fields |-> memory'[g]]
      /\ memory'[f] = value
      /\ \A g \in Fields \ {f} : memory'[g] = memory[g]
  BY Stored DEF IInv
<1>3. ClientTypeOK'
  BY <1>1, <1>2 DEF IInv, ClientTypeOK, Flags, Fields
<1>4. memory["ready"] = 1 => memory'["ready"] = 1
  BY <1>2 DEF Fields, Flags
<1>5. clearing' # {} => memory'["ready"] = 1
  BY <1>2, <1>4 DEF IInv, NothingTakenBack, Fields, Flags
<1>6. ASSUME memory'["ready"] = 0
      PROVE  /\ memory["ready"] = 0
             /\ \A g \in Flags : memory[g] = 1 => memory'[g] = 1
             /\ memory["ui"] # Null => memory'["ui"] # Null
  <2>0. memory["ready"] = 0
    BY <1>4, <1>6 DEF IInv, ClientTypeOK
  <2>1. f # "ready" /\ ~(f \in Flags /\ value = 0)
    BY <1>2, <1>6, <2>0 DEF Flags
  <2>. QED BY <1>2, <2>0, <2>1 DEF Fields, Flags, Null
<1>7. NothingTakenBack'
  BY <1>1, <1>5, <1>6 DEF IInv, NothingTakenBack, Kept, Flags
<1>8. outcome' # "failed" => DoubtsShow'
  BY <1>1, <1>4 DEF IInv, DoubtsShow
<1>. QED BY <1>1, <1>3, <1>7, <1>8 DEF IInv

(* Whatever the client stores between two reads keeps the invariant.      *)
LEMMA ClientKeeps ==
    ASSUME IInv, Client, UNCHANGED <<tool, doubts>>
    PROVE  IInv'
<1>1. clearing \subseteq Flags /\ Flags \subseteq Fields
      /\ {"ui", "ready", "current"} \subseteq Fields
  BY DEF IInv, ClientTypeOK, Fields
<1>2. ASSUME NEW f \in Flags, ParseReply(f) PROVE IInv'
  BY <1>1, <1>2, StoreKeeps DEF ParseReply
<1>3. ASSUME NEW f \in Flags, Clear(f) PROVE IInv'
  <2>1. memory["ready"] = 1 /\ clearing' \subseteq Flags
    BY <1>1, <1>3 DEF Clear, IInv, NothingTakenBack
  <2>. QED BY <1>1, <1>3, <2>1, StoreKeeps DEF Clear
<1>4. CASE CreateSingleton
  BY <1>1, <1>4, StoreKeeps DEF CreateSingleton
<1>5. CASE ShowScreen
  <2>1. PICK screen : Store("current", screen) /\ clearing' = clearing
    BY <1>5 DEF ShowScreen
  <2>. QED BY <1>1, <2>1, StoreKeeps
<1>6. CASE Barrier
  BY <1>1, <1>6, StoreKeeps DEF Barrier
<1>. QED BY <1>2, <1>3, <1>4, <1>5, <1>6 DEF Client

(* A read that keeps nothing, or the end of the report.                    *)
LEMMA OtherKeeps ==
    ASSUME IInv, UNCHANGED <<memory, clearing, seen>>, doubts' = doubts,
           outcome = "running", outcome' \in {"running", "printed"},
           pc' = pc \/ (pc' = pc + 1 /\ pc \notin {2, 6, 7, 8, 10}),
           outcome' = "printed" => pc' >= 11
    PROVE  IInv'
<1>1. ClientTypeOK'
  BY DEF IInv, ClientTypeOK
<1>2. pc \in Nat /\ pc' \in Nat
      /\ \A n \in {3, 7, 8, 9, 11} : pc' >= n <=> pc >= n
  BY DEF IInv, ClientTypeOK
<1>3. NothingTakenBack'
  BY <1>2 DEF IInv, NothingTakenBack, Kept
<1>4. DoubtsShow'
  BY <1>2 DEF IInv, DoubtsShow
<1>. QED BY <1>1, <1>3, <1>4 DEF IInv

(* A read keeps it: the value is the memory's, and a doubt it raises      *)
(* shows in the report.                                                   *)
LEMMA ReadKeeps ==
    ASSUME IInv, NEW f \in Fields, ReadField(f), pc' = pc + 1, outcome # "failed",
           UNCHANGED client, doubts' = doubts \cup Doubts
    PROVE  IInv'
<1>1. /\ seen' = [seen EXCEPT ![f] = memory[f]] /\ outcome' = outcome
      /\ memory' = memory /\ clearing' = clearing /\ pc \in Nat
  BY DEF ReadField, client, IInv, ClientTypeOK
<1>2. ClientTypeOK'
  BY <1>1 DEF IInv, ClientTypeOK
<1>3. /\ f = "ui" <=> pc = 2
      /\ f = "current" <=> pc = 4
      /\ f = "e1" <=> pc = 6
      /\ f = "e0" <=> pc = 7
      /\ f = "da" <=> pc = 8
      /\ f = "ready" <=> pc = 10
  BY <1>1, WhenReached DEF ReadField, Fields, Flags
<1>4. \A g \in Fields : seen'[g] = IF g = f THEN memory[f] ELSE seen[g]
  BY <1>1 DEF IInv, ClientTypeOK
<1>5. NothingTakenBack'
  <2>1. ASSUME memory["ready"] = 0
        PROVE  Kept("e1", 7)' /\ Kept("e0", 8)' /\ Kept("da", 9)'
    <3>1. Kept("e1", 7) /\ Kept("e0", 8) /\ Kept("da", 9)
      BY <2>1 DEF IInv, NothingTakenBack
    <3>2. {"e1", "e0", "da"} \subseteq Fields
      BY DEF Fields, Flags
    <3>3. Kept("e1", 7)'  BY <1>1, <1>3, <1>4, <3>1, <3>2 DEF Kept
    <3>4. Kept("e0", 8)'  BY <1>1, <1>3, <1>4, <3>1, <3>2 DEF Kept
    <3>5. Kept("da", 9)'  BY <1>1, <1>3, <1>4, <3>1, <3>2 DEF Kept
    <3>. QED BY <3>3, <3>4, <3>5
  <2>2. memory["ready"] = 0 /\ pc' >= 3 /\ seen'["ui"] # Null => memory["ui"] # Null
    <3>1. "ui" \in Fields  BY DEF Fields
    <3>. QED BY <1>1, <1>3, <1>4, <3>1 DEF IInv, NothingTakenBack
  <2>. QED BY <1>1, <2>1, <2>2 DEF IInv, NothingTakenBack
<1>6. "flag_cleared" \in Doubts => memory["ready"] = 1 /\ pc \in {6, 7, 8}
  BY <1>1, WhenReached DEF Doubts, FlagWasCleared, Flags
<1>7. "not_waiting" \in Doubts => ~Waiting /\ pc = 10
  BY <1>1, WhenReached DEF Doubts
<1>8. DoubtsShow'
  <2>1. "flag_cleared" \in doubts' => memory'["ready"] = 1 /\ (pc' >= 11 => seen'["ready"] = 1)
    BY <1>1, <1>3, <1>4, <1>6 DEF IInv, DoubtsShow, Fields
  <2>2. ASSUME "not_waiting" \in doubts, "not_waiting" \notin Doubts
        PROVE  pc > 10 /\ seen' = seen
    BY <1>1, <1>3, <2>2 DEF IInv, DoubtsShow, Fields, Flags
  <2>3. ASSUME ~Waiting, pc = 10
        PROVE  seen'["ready"] = 1 \/ seen'["ui"] = Null \/ \E g \in Flags : seen'[g] # 1
    <3>1. CASE memory["ready"] = 1
      BY <1>3, <1>4, <2>3, <3>1 DEF Fields
    <3>2. CASE memory["ready"] = 0
      <4>1. \A g \in Flags : seen[g] = 1 => memory[g] = 1
        BY <2>3, <3>2 DEF IInv, NothingTakenBack, Flags, Kept
      <4>2. seen["ui"] # Null => memory["ui"] # Null
        BY <2>3, <3>2 DEF IInv, NothingTakenBack
      <4>3. seen'["ui"] = seen["ui"] /\ \A g \in Flags : seen'[g] = seen[g]
        BY <1>3, <1>4, <2>3 DEF Fields, Flags
      <4>. QED BY <2>3, <4>1, <4>2, <4>3 DEF Waiting
    <3>. QED BY <3>1, <3>2 DEF IInv, ClientTypeOK
  <2>. QED BY <1>1, <1>7, <2>1, <2>2, <2>3 DEF IInv, DoubtsShow
<1>. QED BY <1>1, <1>2, <1>5, <1>8 DEF IInv

(* The invariant is inductive: the client's stores, then the inspector's  *)
(* steps one by one.                                                      *)
LEMMA StepIInv == IInv /\ [Next]_vars => IInv'
<1>1. ASSUME IInv, UNCHANGED vars PROVE IInv'
  BY <1>1 DEF vars, client, tool, IInv, ClientTypeOK, NothingTakenBack, DoubtsShow, Kept
<1>2. ASSUME IInv, outcome = "running", Client, UNCHANGED <<tool, doubts>> PROVE IInv'
  BY <1>2, ClientKeeps
<1>3. ASSUME IInv, outcome = "running", Inspect, doubts' = doubts \cup Doubts, UNCHANGED client
      PROVE  IInv'
  <2>0. pc \in Nat /\ Len(TextIds) \in Nat /\ Len(Program) = 14
    BY <1>3, TablesAssumption DEF IInv, ClientTypeOK, Program
  <2>1. CASE \E f \in Fields : ReadField(f) /\ pc' = pc + 1
    BY <1>3, <2>1, ReadKeeps
  <2>2. CASE (OpenProcess \/ StaticFields \/ ReadOthers \/ CurrentScreenFields) /\ pc' = pc + 1
    <3>1. pc \notin {2, 6, 7, 8, 10} /\ UNCHANGED <<seen, outcome>>
      <4>1. \E step \in {"process", "statics", "others", "screen"} : Reached(step)
        BY <2>2 DEF OpenProcess, StaticFields, ReadOthers, CurrentScreenFields
      <4>2. UNCHANGED <<seen, outcome>>
        BY <2>2 DEF OpenProcess, StaticFields, ReadOthers, CurrentScreenFields
      <4>. QED BY <2>0, <4>1, <4>2, WhenReached DEF Reached
    <3>2. Doubts = {}
      BY <2>0, <3>1, WhenReached DEF Doubts, FlagWasCleared, Flags
    <3>. QED BY <1>3, <2>0, <2>2, <3>1, <3>2, OtherKeeps DEF client
  <2>3. CASE ReadText /\ pc' = pc + 1
    <3>1. pc >= 14 /\ UNCHANGED <<seen, outcome>>
      BY <2>0, <2>3 DEF ReadText
    <3>2. Doubts = {}
      BY <2>0, <3>1, WhenReached DEF Doubts, FlagWasCleared, Flags
    <3>. QED BY <1>3, <2>0, <2>3, <3>1, <3>2, OtherKeeps DEF client
  <2>4. CASE PrintReport
    <3>1. pc >= 14 /\ UNCHANGED <<seen, pc>> /\ outcome' = "printed"
      BY <2>0, <2>4 DEF PrintReport
    <3>2. Doubts = {}
      BY <2>0, <3>1, WhenReached DEF Doubts, FlagWasCleared, Flags
    <3>. QED BY <1>3, <2>0, <3>1, <3>2, OtherKeeps DEF client
  <2>5. CASE Fail
    BY <1>3, <2>5 DEF Fail, client, IInv, ClientTypeOK, NothingTakenBack, Kept
  <2>. QED BY <1>3, <2>1, <2>2, <2>3, <2>4, <2>5 DEF Inspect
<1>. QED BY <1>1, <1>2, <1>3 DEF Next

(* It holds of a client that has just started and a report not yet begun. *)
LEMMA InitIInv == Init => IInv
BY DEF Init, IInv, ClientTypeOK, NothingTakenBack, DoubtsShow, Fields, Flags, Kept, Null

(* So it holds always.                                                    *)
LEMMA SpecIInv == Spec => []IInv
BY InitIInv, StepIInv, PTL DEF Spec

(* A printed report with appReady 0 means what the documentation says of   *)
(* it, though the client went on between any two reads: a flag of 0 was    *)
(* never one that the barrier had cleared, and with all flags 1 and the    *)
(* singleton there the barrier waited for nothing else.                    *)
(* inspect_runtime_state.py:371, 401-414                                   *)
THEOREM InspectorDiagnosisHolds == Spec => []DiagnosisHolds
<1>1. IInv => DiagnosisHolds
  <2>. SUFFICES ASSUME IInv, outcome = "printed", seen["ready"] = 0
                PROVE  /\ (\E f \in Flags : seen[f] = 0) => "flag_cleared" \notin doubts
                       /\ (\A f \in Flags : seen[f] = 1) /\ seen["ui"] # Null
                             => "not_waiting" \notin doubts
    BY DEF DiagnosisHolds
  <2>1. pc >= 11 /\ DoubtsShow
    BY DEF IInv
  <2>. QED BY <2>1 DEF DoubtsShow
<1>. QED BY <1>1, SpecIInv, PTL
------------------------------------------------------------------------------
(* The texts.                                                              *)

(* What the check of the span lets through lies inside the array.          *)
LEMMA WordsInside ==
    ASSUME NEW n \in Nat, NEW index \in 0..n - 1, NEW offset \in Nat,
           NEW length \in Nat, offset + RequiredWords(n) <= length
    PROVE  offset + index \div 4 \in 0..length - 1 /\ (index % 4) + 1 \in 1..4
<1>. DEFINE w == index \div 4
            r == (n + 3) \div 4
<1>1. w \in Nat /\ r \in Nat /\ w < r  OBVIOUS
<1>2. (index % 4) + 1 \in 1..4  OBVIOUS
<1>3. r = RequiredWords(n)  BY DEF RequiredWords
<1>. HIDE DEF w, r
<1>4. offset + w \in 0..length - 1  BY <1>1, <1>3
<1>. QED BY <1>2, <1>4 DEF w

(* A byte of a word that is there is a byte.                               *)
LEMMA PackedBytes ==
    ASSUME NEW packed, packed.at \in Seq(Nat), NEW offset \in Nat, NEW index \in Nat,
           offset + index \div 4 \in 0..Len(packed.at) - 1, (index % 4) + 1 \in 1..4
    PROVE  PackedByte(packed, offset, index) \in 0..255
<1>. DEFINE j == offset + index \div 4
            u == Unit[(index % 4) + 1]
            word == At(packed, j)
<1>1. u \in Nat \ {0}
  <2>1. \A k \in 1..4 : Unit[k] \in Nat \ {0}  BY DEF Unit
  <2>. QED BY <2>1
<1>2. word \in Nat
  <2>. DEFINE s == packed.at
  <2>1. s \in Seq(Nat) /\ j \in 0..Len(s) - 1  OBVIOUS
  <2>. HIDE DEF s, j
  <2>2. j + 1 \in 1..Len(s)  BY <2>1, LenProperties
  <2>3. s[j + 1] \in Nat  BY <2>1, <2>2, ElementOfSeq
  <2>. QED BY <2>1, <2>3, Zenon DEF At, s
<1>3. word # Outside  BY <1>2 DEF Outside
<1>4. PackedByte(packed, offset, index) = (word \div u) % 256
      BY <1>3, Zenon DEF PackedByte
<1>. HIDE DEF u, word
<1>. DEFINE quotient == word \div u
<1>5. quotient \in Int  BY <1>1, <1>2
<1>. HIDE DEF quotient
<1>6. quotient % 256 \in 0..255  BY <1>5
<1>. QED BY <1>4, <1>6 DEF quotient

(* What is decoded is made of bytes, each from inside the arrays.          *)
Decodes(bytes, tables, id, n) ==
    /\ n \in 0..MaxTextBytes /\ n = At(tables.lengths, id)
    /\ bytes = [i \in 1..n |-> PlainByte(tables.packed, At(tables.offsets, id), id, i - 1)]
    /\ \A i \in 1..n : bytes[i] \in 0..255

(* _localization_text: behind the span check no byte is read beside the   *)
(* packed array.                                                          *)
LEMMA SpanDecoded ==
    ASSUME NEW tables \in Tables, NEW id \in Ids, NEW offset, offset = At(tables.offsets, id),
           NEW n, n = At(tables.lengths, id), offset \in Int,
           NEW bytes, bytes = DecodeSpan(tables.packed, offset, n, id), bytes # Refused
    PROVE  Decodes(bytes, tables, id, n)
<1>. DEFINE packed == tables.packed
<1>1. /\ n \in 0..MaxTextBytes /\ ~(offset < 0) /\ ~(packed.length < 0)
      /\ ~(offset + RequiredWords(n) > packed.length)
      /\ bytes = [i \in 1..n |-> PlainByte(packed, offset, id, i - 1)]
      BY Zenon DEF DecodeSpan
<1>2. packed.at \in Seq(Nat) /\ packed.length = Len(packed.at)
  <2>1. packed = NoArray \/ packed = Array(packed.at)  BY TablesAssumption, Zenon
  <2>2. packed.length # -1  BY <1>1
  <2>3. packed # NoArray  BY <2>2 DEF NoArray
  <2>4. packed = Array(packed.at)  BY <2>1, <2>3
  <2>5. \A a : Array(a).length = Len(a)  BY DEF Array
  <2>6. packed.at \in Seq(Nat)  BY TablesAssumption, Zenon
  <2>. HIDE DEF packed
  <2>. QED BY <2>4, <2>5, <2>6, Zenon
<1>. DEFINE l == packed.length
<1>3. l \in Nat  BY <1>2
<1>4. MaxTextBytes \in Nat  BY TablesAssumption, Zenon
<1>5. n \in Nat /\ n <= MaxTextBytes /\ offset \in Nat  BY <1>1, <1>4
<1>6. RequiredWords(n) \in Nat  BY <1>5 DEF RequiredWords
<1>7. offset + RequiredWords(n) <= l
  <2>. HIDE DEF l
  <2>1. ~(offset + RequiredWords(n) > l)  BY <1>1, Zenon DEF l
  <2>. QED BY <1>3, <1>5, <1>6, <2>1
<1>8. ASSUME NEW i \in 1..n PROVE PlainByte(packed, offset, id, i - 1) \in 0..255
  <2>. DEFINE index == i - 1
              b == PackedByte(packed, offset, index)
  <2>1. index \in 0..n - 1 /\ index \in Nat /\ index \in 0..MaxTextBytes  BY <1>4, <1>5
  <2>. HIDE DEF index, l
  <2>2. offset + index \div 4 \in 0..l - 1 /\ (index % 4) + 1 \in 1..4
        BY <1>3, <1>5, <1>7, <2>1, WordsInside
  <2>. HIDE DEF packed
  <2>3. b \in 0..255  BY <1>2, <1>5, <2>1, <2>2, PackedBytes DEF l
  <2>4. b # Outside  BY <2>3 DEF Outside
  <2>. HIDE DEF b
  <2>5. PlainByte(packed, offset, id, index) = XorByte(b, KeyStream(id, index))
        BY <2>4, Zenon DEF PlainByte, b
  <2>6. XorByte(b, KeyStream(id, index)) \in 0..255  BY <2>1, <2>3, TextAssumption, Zenon
  <2>. QED BY <2>5, <2>6 DEF index
<1>9. \A i \in 1..n : bytes[i] \in 0..255  BY <1>1, <1>8
<1>. QED BY <1>1, <1>9, Zenon DEF Decodes

(* An entry of an array that has it is an integer.                         *)
LEMMA EntryType ==
    ASSUME NEW array, array = NoArray \/ array.at \in Seq(Int), NEW i
    PROVE  At(array, i) \in Int
<1>1. Outside \in Int  BY DEF Outside
<1>. DEFINE s == array.at
<1>2. s \in Seq(Int)
  <2>1. NoArray.at = <<>>  BY DEF NoArray
  <2>2. <<>> \in Seq(Int)  OBVIOUS
  <2>. QED BY <2>1, <2>2
<1>3. ASSUME i \in 0..Len(s) - 1 PROVE s[i + 1] \in Int
  <2>. HIDE DEF s
  <2>1. Len(s) \in Nat /\ i \in Nat  BY <1>2, <1>3
  <2>. QED BY <1>2, <1>3, <2>1
<1>. HIDE DEF s
<1>. QED BY <1>1, <1>3, Zenon DEF At, s

(* A text is the cached one, or decoded inside the arrays.                 *)
LEMMA TextRead ==
    ASSUME NEW tables \in Tables, NEW id \in Ids, NEW slot \in {{}, {Text[id]}},
           NEW bytes, bytes = LocalizationText(tables, slot, id), bytes # Refused
    PROVE  /\ \A n \in DOMAIN bytes : bytes[n] # Outside
           /\ tables.sound => bytes = Text[id]
<1>. DEFINE n == At(tables.lengths, id)
<1>1. Text[id] \in Seq(0..255)  BY TextAssumption, Zenon
<1>2. \A byte \in 0..255 : byte # Outside  BY DEF Outside
<1>3. CASE slot # {}
  <2>1. bytes = (CHOOSE cached \in slot : TRUE)  BY <1>3, Zenon DEF LocalizationText
  <2>2. slot = {Text[id]}  BY <1>3
  <2>3. bytes = Text[id]  BY <2>1, <2>2
  <2>. DEFINE s == Text[id]
  <2>. HIDE DEF s
  <2>4. s \in Seq(0..255) /\ bytes = s  BY <1>1, <2>3 DEF s
  <2>5. \A i \in DOMAIN s : s[i] \in 0..255
    <3>. DEFINE B == 0..255
    <3>1. s \in Seq(B)  BY <2>4
    <3>. HIDE DEF B
    <3>2. DOMAIN s = 1..Len(s)  BY <3>1, LenProperties
    <3>3. \A i \in 1..Len(s) : s[i] \in B  BY <3>1, ElementOfSeq
    <3>. QED BY <3>2, <3>3 DEF B
  <2>. QED BY <1>2, <2>3, <2>4, <2>5, Zenon
<1>4. CASE slot = {}
  <2>1. bytes = DecodeSpan(tables.packed, At(tables.offsets, id), n, id)
        BY <1>4, Zenon DEF LocalizationText
  <2>2. At(tables.offsets, id) \in Int
    <3>1. tables.offsets = NoArray \/ tables.offsets.at \in Seq(Int)
          BY TablesAssumption, Zenon
    <3>. QED BY <3>1, EntryType
  <2>. HIDE DEF n
  <2>3. Decodes(bytes, tables, id, n)
    <3>1. n = At(tables.lengths, id)  BY Zenon DEF n
    <3>. QED BY <2>1, <2>2, <3>1, SpanDecoded
  <2>4. \A i \in DOMAIN bytes : bytes[i] # Outside
    <3>1. DOMAIN bytes = 1..n  BY <2>3 DEF Decodes
    <3>2. \A i \in 1..n : bytes[i] \in 0..255  BY <2>3, Zenon DEF Decodes
    <3>. QED BY <1>2, <3>1, <3>2, Zenon
  <2>5. ASSUME tables.sound PROVE bytes = Text[id]
    <3>. DEFINE s == Text[id]
                plain(i) == PlainByte(tables.packed, At(tables.offsets, id), id, i - 1)
    <3>1. n = Len(s) /\ \A i \in 1..Len(s) : plain(i) = s[i]
          BY <2>5, SoundAssumption, Zenon DEF n
    <3>2. bytes = [i \in 1..n |-> plain(i)]  BY <2>3, Zenon DEF Decodes
    <3>. HIDE DEF s, plain
    <3>3. s \in Seq(0..255)  BY <1>1 DEF s
    <3>4. s = [i \in 1..Len(s) |-> s[i]]  BY <3>3
    <3>5. bytes = [i \in 1..Len(s) |-> s[i]]  BY <3>1, <3>2
    <3>. QED BY <3>4, <3>5, Zenon DEF s
  <2>. QED BY <2>4, <2>5
<1>. QED BY <1>3, <1>4

(* Whatever lengths, offsets and spans a client's arrays hold, no byte of a*)
(* text comes from beside them; and from sound arrays, or from the cache,  *)
(* the text is the client's own. inspect_runtime_state.py:283-346          *)
THEOREM TextsAreTrue == Spec => []LocalizedTextIsTrue
<1>1. Init => LocalizedTextIsTrue  BY DEF Init, LocalizedTextIsTrue
<1>2. LocalizedTextIsTrue /\ [Next]_vars => LocalizedTextIsTrue'
  <2>1. ASSUME LocalizedTextIsTrue, text' = text PROVE LocalizedTextIsTrue'
        BY <2>1, Zenon DEF LocalizedTextIsTrue
  <2>2. ASSUME ReadText PROVE LocalizedTextIsTrue'
    <3>. DEFINE i == pc - Len(Program) + 1
                id == TextIds[i]
    <3>1. id \in Ids
      <4>. DEFINE l == Len(Program)
                  m == Len(TextIds)
      <4>1. pc - l \in 0..m - 1 /\ l \in Nat /\ m \in Nat /\ TextIds \in Seq(Nat)
            BY <2>2, TablesAssumption DEF ReadText, Program
      <4>2. i \in DOMAIN TextIds
        <5>. HIDE DEF l
        <5>1. pc - l + 1 \in 1..m  BY <4>1
        <5>2. DOMAIN TextIds = 1..m  BY <4>1
        <5>. QED BY <5>1, <5>2 DEF l
      <4>. QED BY <4>2, Zenon DEF Ids
    <3>. HIDE DEF i
    <3>2. PICK tables \in Tables, slot \in {{}, {Text[id]}} :
              \E bytes \in {LocalizationText(tables, slot, id)} \ {Refused} :
                 text' = {[id |-> id, from |-> tables, bytes |-> bytes]}
          BY <2>2, Zenon DEF ReadText, i
    <3>3. PICK bytes : /\ bytes = LocalizationText(tables, slot, id) /\ bytes # Refused
                       /\ text' = {[id |-> id, from |-> tables, bytes |-> bytes]}
          BY <3>2
    <3>4. /\ \A n \in DOMAIN bytes : bytes[n] # Outside
          /\ tables.sound => bytes = Text[id]
          BY <3>1, <3>3, TextRead
    <3>. HIDE DEF id
    <3>. DEFINE item == [id |-> id, from |-> tables, bytes |-> bytes]
    <3>5. item.id = id /\ item.from = tables /\ item.bytes = bytes /\ text' = {item}
          BY <3>3
    <3>. HIDE DEF item
    <3>6. \A t \in text' : t = item  BY <3>5
    <3>. QED BY <3>4, <3>5, <3>6, Zenon DEF LocalizedTextIsTrue
  <2>3. [Next]_vars => ReadText \/ text' = text
        BY Zenon DEF Next, Inspect, ReadField, OpenProcess, StaticFields, ReadOthers,
           CurrentScreenFields, PrintReport, Fail, vars, tool
  <2>. QED BY <2>1, <2>2, <2>3
<1>. QED BY <1>1, <1>2, PTL DEF Spec
==============================================================================
