---------------------------- MODULE ServiceProofs ----------------------------
(* The heartbeat and the bound of the write buffer, for any number of      *)
(* clients, any interval and any limits of the transport.                  *)
EXTENDS Service, TLAPS

(* What holds of one connection.  A task writes only from a read, which it *)
(* begins with a drained transport; the time a client has heard nothing is *)
(* the time of the read, because time passes in a drain only while it      *)
(* waits, and what ends the wait is something the client took.             *)
ConnInv(c) ==
    /\ client[c] = "absent" => task[c] = "none"
    /\ task[c] \in {"none", "queued"} => ~greeted[c]
    /\ task[c] \in {"none", "queued", "reading"} => ~paused[c]
    /\ ~paused[c] => Buffered(unsent[c]) <= HighWater
    /\ Buffered(unsent[c]) <= HighWater + MaxBurst
    /\ greeted[c] /\ task[c] = "reading" => lull[c] <= idle[c]
    /\ task[c] = "draining" /\ ~paused[c] /\ client[c] # "gone" => lull[c] = 0

IInv == TypeOK /\ \A c \in Connections : ConnInv(c)

(* What stands in the write buffer grows with what is unsent, and by no   *)
(* more.                                                                  *)
LEMMA BufferedGrows ==
    ASSUME NEW m \in Nat, NEW n \in Nat
    PROVE  /\ Buffered(m) \in Nat /\ Buffered(m + n) <= Buffered(m) + n
           /\ m > 0 => Buffered(m - 1) <= Buffered(m)
           /\ Buffered(0) = 0
BY ServiceAssumption DEF Buffered

(* What ConnInv does not mention, or mentions of another connection.       *)
LEMMA Unaffected ==
    ASSUME IInv, NEW d \in Connections,
           client'[d] = client[d], task'[d] = task[d], greeted'[d] = greeted[d],
           paused'[d] = paused[d], unsent'[d] = unsent[d], lull'[d] = lull[d],
           idle'[d] = idle[d]
    PROVE  ConnInv(d)'
BY DEF IInv, ConnInv, Buffered

(* What a client does on its side keeps the invariant.                    *)
LEMMA ClientKeeps ==
    ASSUME IInv, NEW c \in Connections,
           Connect(c) \/ Send(c) \/ StallOrResume(c) \/ SendEndOfFile(c)
    PROVE  IInv'
<1>1. TypeOK'
  BY DEF IInv, TypeOK, Connect, Send, StallOrResume, SendEndOfFile, main, wire, clock
<1>2. ASSUME NEW d \in Connections PROVE ConnInv(d)'
  <2>1. CASE d = c /\ Connect(c)
    BY <2>1 DEF IInv, TypeOK, ConnInv, Connect, main, wire, clock, Buffered
  <2>2. CASE d = c /\ SendEndOfFile(c)
    BY <2>2 DEF IInv, TypeOK, ConnInv, SendEndOfFile, main, wire, clock, Buffered
  <2>3. CASE d # c \/ Send(c) \/ StallOrResume(c)
    BY <2>3, Unaffected DEF IInv, TypeOK, Connect, Send, StallOrResume, SendEndOfFile,
                           main, wire, clock
  <2>. QED BY <2>1, <2>2, <2>3
<1>. QED BY <1>1, <1>2 DEF IInv

(* A connection that is reset has an empty buffer.                         *)
LEMMA ResetKeeps ==
    ASSUME IInv, NEW c \in Connections, Reset(c)
    PROVE  IInv'
<1>1. TypeOK'
  BY DEF IInv, TypeOK, Reset, Disconnected, main, clock
<1>2. ASSUME NEW d \in Connections PROVE ConnInv(d)'
  <2>1. CASE d = c
    <3>1. client'[c] = "gone" /\ unsent'[c] = 0
      BY DEF Reset, Disconnected
    <3>2. ~paused'[c]
      BY Zenon DEF Reset, Disconnected
    <3>3. /\ client[c] # "absent" /\ task'[c] = task[c] /\ greeted'[c] = greeted[c]
          /\ lull'[c] = lull[c] /\ idle'[c] = idle[c]
      BY DEF Reset, clock
    <3>4. Buffered(unsent[c])' = 0
      BY <3>1, BufferedGrows DEF Buffered
    <3>. QED BY <2>1, <3>1, <3>2, <3>3, <3>4, ServiceAssumption DEF IInv, ConnInv
  <2>2. CASE d # c
    BY <2>2, Unaffected DEF IInv, TypeOK, Reset, Disconnected, main, clock
  <2>. QED BY <2>1, <2>2
<1>. QED BY <1>1, <1>2 DEF IInv

(* A task goes from one await to another and writes nothing.               *)
LEMMA MoveKeeps ==
    ASSUME IInv, NEW c \in Connections,
           Accept(c) \/ ReadEndOfFile(c) \/ Drained(c) \/ Lost(c)
    PROVE  IInv'
<1>1. TypeOK'
  BY ServiceAssumption
  DEF IInv, TypeOK, Accept, ReadEndOfFile, Drained, Lost, Goto, main, peer, wire
<1>2. ASSUME NEW d \in Connections PROVE ConnInv(d)'
  <2>1. CASE d = c /\ Accept(c)
    BY <2>1, ServiceAssumption DEF IInv, TypeOK, ConnInv, Accept, Goto, main, peer, wire, Buffered
  <2>2. CASE d = c /\ Drained(c)
    BY <2>2, ServiceAssumption DEF IInv, TypeOK, ConnInv, Drained, Goto, main, peer, wire, Buffered
  <2>3. CASE d = c /\ (ReadEndOfFile(c) \/ Lost(c))
    BY <2>3 DEF IInv, TypeOK, ConnInv, ReadEndOfFile, Lost, Goto, main, peer, wire, Buffered
  <2>4. CASE d # c
    BY <2>4, Unaffected
    DEF IInv, TypeOK, Accept, ReadEndOfFile, Drained, Lost, Goto, main, peer, wire
  <2>. QED BY <2>1, <2>2, <2>3, <2>4
<1>. QED BY <1>1, <1>2 DEF IInv

(* A burst written from a read fits above the limit.                       *)
LEMMA WriteFits ==
    ASSUME IInv, NEW c \in Connections, task[c] = "reading",
           NEW n \in 1..MaxBurst, WriteAndDrain(c, n)
    PROVE  /\ unsent' \in [Connections -> Nat] /\ paused' \in [Connections -> BOOLEAN]
           /\ task' = [task EXCEPT ![c] = "draining"] /\ idle' = idle
           /\ Buffered(unsent[c])' <= HighWater + MaxBurst
           /\ ~paused'[c] => Buffered(unsent[c])' <= HighWater
           /\ \A d \in Connections \ {c} : unsent'[d] = unsent[d] /\ paused'[d] = paused[d]
<1>1. unsent' \in [Connections -> Nat] /\ unsent'[c] = unsent[c] + n
  BY ServiceAssumption DEF IInv, TypeOK, WriteAndDrain
<1>2. paused' \in [Connections -> BOOLEAN]
      /\ (paused'[c] <=> paused[c] \/ Buffered(unsent[c] + n) > HighWater)
      /\ \A d \in Connections \ {c} : paused'[d] = paused[d]
  BY Zenon DEF IInv, TypeOK, WriteAndDrain
<1>3. task' = [task EXCEPT ![c] = "draining"] /\ idle' = idle
  BY DEF WriteAndDrain, Goto
<1>4. Buffered(unsent[c])' = Buffered(unsent[c] + n)
  BY <1>1 DEF Buffered
<1>5. Buffered(unsent[c] + n) <= Buffered(unsent[c]) + n
      /\ Buffered(unsent[c] + n) \in Nat /\ Buffered(unsent[c]) \in Nat
  BY BufferedGrows, ServiceAssumption DEF IInv, TypeOK, Buffered
<1>6. Buffered(unsent[c]) <= HighWater
  BY DEF IInv, ConnInv
<1>7. Buffered(unsent[c])' <= HighWater + MaxBurst
  BY <1>4, <1>5, <1>6, ServiceAssumption
<1>8. ~paused'[c] => Buffered(unsent[c])' <= HighWater
  BY <1>2, <1>4, <1>5, ServiceAssumption
<1>9. \A d \in Connections \ {c} : unsent'[d] = unsent[d]
  BY DEF IInv, TypeOK, WriteAndDrain
<1>. QED BY <1>1, <1>2, <1>3, <1>7, <1>8, <1>9

(* A read with its replies keeps it: it began with a drained transport.   *)
LEMMA ReadKeeps ==
    ASSUME IInv, NEW c \in Connections, Read(c)
    PROVE  IInv'
<1>1. CASE \E n \in 1..MaxBurst : WriteAndDrain(c, n)
           /\ greeted' = [greeted EXCEPT ![c] = TRUE]
  <2>1. PICK n \in 1..MaxBurst : WriteAndDrain(c, n)  BY <1>1
  <2>2. TypeOK'
    <3>1. /\ unsent' \in [Connections -> Nat] /\ paused' \in [Connections -> BOOLEAN]
          /\ task' = [task EXCEPT ![c] = "draining"] /\ idle' = idle
      BY <2>1, WriteFits, Zenon DEF Read
    <3>2. request' = [request EXCEPT ![c] = FALSE] /\ lull' = [lull EXCEPT ![c] = 0]
          /\ client' = client /\ stalled' = stalled
          /\ server' = server /\ waits' = waits /\ interrupts' = interrupts
      BY DEF Read, main
    <3>. QED BY <1>1, <3>1, <3>2, ServiceAssumption DEF IInv, TypeOK
  <2>3. ConnInv(c)'
    <3>1. task'[c] = "draining" /\ client'[c] = client[c] /\ lull'[c] = 0 /\ client[c] # "absent"
      BY <1>1, <2>1, WriteFits DEF IInv, TypeOK, ConnInv, Read
    <3>2. /\ Buffered(unsent[c])' <= HighWater + MaxBurst
          /\ ~paused'[c] => Buffered(unsent[c])' <= HighWater
      BY <2>1, WriteFits, Zenon DEF Read
    <3>. QED BY <3>1, <3>2 DEF ConnInv
  <2>4. ASSUME NEW d \in Connections, d # c PROVE ConnInv(d)'
    <3>1. task[c] = "reading"  BY DEF Read
    <3>2. /\ task' = [task EXCEPT ![c] = "draining"] /\ idle' = idle
          /\ unsent'[d] = unsent[d] /\ paused'[d] = paused[d]
      BY <2>1, <2>4, <3>1, WriteFits, Zenon
    <3>3. client' = client /\ lull'[d] = lull[d] /\ greeted'[d] = greeted[d] /\ task'[d] = task[d]
      BY <1>1, <2>4, <3>2 DEF IInv, TypeOK, Read
    <3>. QED BY <3>2, <3>3, Unaffected
  <2>. QED BY <2>2, <2>3, <2>4 DEF IInv
<1>2. CASE (Goto(c, "closing") \/ Goto(c, "reading")) /\ UNCHANGED <<greeted, wire>>
  <2>2. TypeOK'
    BY <1>2, ServiceAssumption DEF IInv, TypeOK, Read, Goto, main, wire
  <2>3. ConnInv(c)'
    BY <1>2, ServiceAssumption DEF IInv, TypeOK, ConnInv, Read, Goto, main, wire, Buffered
  <2>4. ASSUME NEW d \in Connections, d # c PROVE ConnInv(d)'
    BY <1>2, <2>4, Unaffected DEF IInv, TypeOK, Read, Goto, main, wire
  <2>. QED BY <2>2, <2>3, <2>4 DEF IInv
<1>. QED BY <1>1, <1>2 DEF Read

(* A heartbeat keeps it: it ends the silence it was due for.              *)
LEMMA TimeoutKeeps ==
    ASSUME IInv, NEW c \in Connections, Timeout(c)
    PROVE  IInv'
<1>1. CASE greeted[c] /\ WriteAndDrain(c, 1) /\ lull' = [lull EXCEPT ![c] = 0]
  <2>1. 1 \in 1..MaxBurst  BY ServiceAssumption
  <2>2. TypeOK'
    BY <1>1, <2>1, WriteFits DEF IInv, TypeOK, Timeout, main, peer
  <2>3. ConnInv(c)'
    BY <1>1, <2>1, WriteFits DEF IInv, TypeOK, ConnInv, Timeout, main, peer
  <2>4. ASSUME NEW d \in Connections, d # c PROVE ConnInv(d)'
    BY <1>1, <2>1, <2>4, WriteFits, Unaffected DEF IInv, TypeOK, Timeout, main, peer
  <2>. QED BY <2>2, <2>3, <2>4 DEF IInv
<1>2. CASE ~greeted[c] /\ Goto(c, "reading") /\ UNCHANGED <<wire, lull>>
  <2>2. TypeOK'
    BY <1>2, ServiceAssumption DEF IInv, TypeOK, Timeout, Goto, main, peer, wire
  <2>3. ConnInv(c)'
    BY <1>2, ServiceAssumption DEF IInv, TypeOK, ConnInv, Timeout, Goto, main, peer, wire, Buffered
  <2>4. ASSUME NEW d \in Connections, d # c PROVE ConnInv(d)'
    BY <1>2, <2>4, Unaffected DEF IInv, TypeOK, Timeout, Goto, main, peer, wire
  <2>. QED BY <2>2, <2>3, <2>4 DEF IInv
<1>. QED BY <1>1, <1>2 DEF Timeout

(* Connections that are over have nothing left; the others go on, or are   *)
(* sent to their finally blocks.                                           *)
LEMMA OverKeeps ==
    ASSUME IInv, NEW C \in SUBSET Connections, Over(C),
           task' \in [Connections -> {"none", "queued", "reading", "draining", "closing", "done"}],
           \A d \in C : task'[d] = "done",
           \A d \in Connections \ C : task'[d] \in {task[d], "closing"}
                                       /\ (client[d] = "absent" => task'[d] = task[d]),
           server' \in {"serving", "closing", "cancelling", "stopped"},
           waits' \in BOOLEAN, interrupts' \in 0..MaxInterrupts
    PROVE  IInv'
<1>1. TypeOK'
  BY ServiceAssumption DEF IInv, TypeOK, Over, Disconnected
<1>2. ASSUME NEW d \in C PROVE ConnInv(d)'
  <2>1. client'[d] = "gone" /\ unsent'[d] = 0 /\ task'[d] = "done"
    BY <1>2 DEF Over, Disconnected
  <2>2. ~paused'[d]
    BY <1>2, Zenon DEF Over, Disconnected
  <2>3. Buffered(unsent[d])' = 0
    BY <2>1, BufferedGrows DEF Buffered
  <2>. QED BY <2>1, <2>2, <2>3, ServiceAssumption DEF ConnInv
<1>3. ASSUME NEW d \in Connections \ C PROVE ConnInv(d)'
  BY <1>3 DEF IInv, TypeOK, ConnInv, Over, Disconnected, Buffered
<1>. QED BY <1>1, <1>2, <1>3 DEF IInv

(* A frame taken: the buffer shrinks, and the silence is over.             *)
LEMMA TakeKeeps ==
    ASSUME IInv, NEW c \in Connections, Take(c)
    PROVE  IInv'
<1>1. TypeOK'
  BY ServiceAssumption DEF IInv, TypeOK, Take, main, peer
<1>2. ASSUME NEW d \in Connections PROVE ConnInv(d)'
  <2>1. CASE d = c
    <3>1. /\ client'[c] = client[c] /\ task'[c] = task[c] /\ greeted'[c] = greeted[c]
          /\ unsent'[c] = unsent[c] - 1 /\ lull'[c] = 0 /\ idle'[c] = idle[c]
      BY DEF IInv, TypeOK, Take, main, peer
    <3>2. paused'[c] <=> paused[c] /\ Buffered(unsent[c] - 1) > LowWater
      BY Zenon DEF IInv, TypeOK, Take
    <3>3. Buffered(unsent[c] - 1) <= Buffered(unsent[c]) /\ Buffered(unsent[c]) \in Nat
          /\ Buffered(unsent[c] - 1) \in Nat
      BY BufferedGrows, ServiceAssumption DEF IInv, TypeOK, Take, Buffered
    <3>4. Buffered(unsent[c])' = Buffered(unsent[c] - 1)
      BY <3>1 DEF Buffered
    <3>5. idle[c] \in Nat  BY DEF IInv, TypeOK
    <3>. QED BY <2>1, <3>1, <3>2, <3>3, <3>4, <3>5, ServiceAssumption DEF IInv, ConnInv
  <2>2. CASE d # c
    BY <2>2 DEF IInv, TypeOK, Take, ConnInv, main, peer, Buffered
  <2>. QED BY <2>1, <2>2
<1>. QED BY <1>1, <1>2 DEF IInv

(* The end of one connection keeps it, and leaves the others alone.       *)
LEMMA CloseKeeps ==
    ASSUME IInv, NEW c \in Connections, Close(c)
    PROVE  IInv'
<1>1. /\ Over({c}) /\ task' = [task EXCEPT ![c] = "done"]
      /\ server' = server /\ waits' = waits /\ interrupts' = interrupts
  BY DEF Close, main
<1>2. /\ task' \in [Connections -> {"none", "queued", "reading", "draining", "closing", "done"}]
      /\ task'[c] = "done" /\ \A d \in Connections \ {c} : task'[d] = task[d]
      /\ server' \in {"serving", "closing", "cancelling", "stopped"}
      /\ waits' \in BOOLEAN /\ interrupts' \in 0..MaxInterrupts
  BY <1>1 DEF IInv, TypeOK
<1>. QED BY <1>1, <1>2, OverKeeps

(* A CancelledError: client[d] = "absent" only before there is a task.     *)
LEMMA CancelKeeps ==
    ASSUME IInv, CancelAll, waits' \in BOOLEAN, interrupts' \in 0..MaxInterrupts
    PROVE  IInv'
<1> DEFINE ended == {c \in Connections : task[c] \in {"queued", "closing"}}
<1>1. Over(ended) /\ server' = "cancelling"
  BY DEF CancelAll
<1>2. task' \in [Connections -> {"none", "queued", "reading", "draining", "closing", "done"}]
  BY DEF CancelAll, IInv, TypeOK, Ended
<1>3. \A d \in ended : task'[d] = "done"
  BY DEF CancelAll
<1>4. \A d \in Connections \ ended : task'[d] \in {task[d], "closing"}
                                    /\ (client[d] = "absent" => task'[d] = task[d])
  BY DEF CancelAll, Ended, IInv, ConnInv
<1>5. ended \in SUBSET Connections  OBVIOUS
<1>. QED
  <2> HIDE DEF ended
  <2>. QED BY <1>1, <1>2, <1>3, <1>4, <1>5, OverKeeps

(* Ctrl+C keeps it, at each await of the main task.                       *)
LEMMA InterruptKeeps ==
    ASSUME IInv, Interrupt
    PROVE  IInv'
<1>0. waits' \in BOOLEAN /\ interrupts' \in 0..MaxInterrupts
  BY ServiceAssumption DEF Interrupt, IInv, TypeOK
<1>1. CASE server = "serving"
  <2> DEFINE queued == {c \in Connections : task[c] = "queued"}
  <2>1. /\ Over(queued) /\ server' = "closing"
        /\ task' = [c \in Connections |-> IF c \in queued THEN "done" ELSE task[c]]
    BY <1>1 DEF Interrupt
  <2>2. /\ task' \in [Connections -> {"none", "queued", "reading", "draining", "closing", "done"}]
        /\ \A d \in queued : task'[d] = "done"
        /\ \A d \in Connections \ queued : task'[d] = task[d]
    BY <2>1 DEF IInv, TypeOK
  <2>3. queued \in SUBSET Connections  OBVIOUS
  <2>. QED
    <3> HIDE DEF queued
    <3>. QED BY <1>0, <2>1, <2>2, <2>3, OverKeeps
<1>2. CASE server = "closing"
  BY <1>0, <1>2, CancelKeeps DEF Interrupt
<1>3. CASE server = "cancelling"
  <2> DEFINE rest == {c \in Connections : ~Ended(c)}
  <2>1. /\ Over(rest) /\ server' = "stopped"
        /\ task' = [c \in Connections |-> IF Ended(c) THEN task[c] ELSE "done"]
    BY <1>3 DEF Interrupt
  <2>2. /\ task' \in [Connections -> {"none", "queued", "reading", "draining", "closing", "done"}]
        /\ \A d \in rest : task'[d] = "done"
        /\ \A d \in Connections \ rest : task'[d] = task[d]
    BY <2>1 DEF IInv, TypeOK
  <2>3. rest \in SUBSET Connections  OBVIOUS
  <2>. QED
    <3> HIDE DEF rest
    <3>. QED BY <1>0, <2>1, <2>2, <2>3, OverKeeps
<1>. QED BY <1>1, <1>2, <1>3 DEF Interrupt

(* The steps of main behind Ctrl+C keep it: waiting, cancelling and       *)
(* stopping.                                                              *)
LEMMA MainKeeps ==
    ASSUME IInv, MainStep
    PROVE  IInv'
<1>1. CASE WaitClosed
  BY <1>1, CancelKeeps DEF WaitClosed, IInv, TypeOK
<1>2. CASE Stop
  <2>1. TypeOK'
    BY <1>2 DEF Stop, IInv, TypeOK, peer, wire, clock
  <2>2. ASSUME NEW d \in Connections PROVE ConnInv(d)'
    BY <1>2, Unaffected DEF Stop, peer, wire, clock
  <2>. QED BY <2>1, <2>2 DEF IInv
<1>. QED BY <1>1, <1>2 DEF MainStep

(* Time passes when nothing is due: the timer of a read has not run out,   *)
(* and a drain waits.                                                      *)
LEMMA TickKeeps ==
    ASSUME IInv, Tick
    PROVE  IInv'
<1>1. ASSUME NEW d \in Connections
      PROVE  /\ idle'[d] = IF task[d] = "reading" THEN idle[d] + 1 ELSE idle[d]
             /\ lull'[d] = IF lull[d] <= Interval /\ ~Ended(d) THEN lull[d] + 1 ELSE lull[d]
             /\ idle[d] \in 0..Interval /\ lull[d] \in 0..Interval + 1
             /\ client'[d] = client[d] /\ task'[d] = task[d] /\ greeted'[d] = greeted[d]
             /\ paused'[d] = paused[d] /\ unsent'[d] = unsent[d]
  BY DEF Tick, IInv, TypeOK, peer, wire
<1>2. ASSUME NEW d \in Connections
      PROVE  /\ task[d] = "reading" => idle[d] # Interval
             /\ task[d] = "draining" => paused[d] /\ client[d] # "gone"
  BY DEF Tick, Due
<1>3. TypeOK'
  <2>1. idle' = [c \in Connections |-> idle'[c]] /\ lull' = [c \in Connections |-> lull'[c]]
    BY DEF Tick
  <2>2. \A d \in Connections : idle'[d] \in 0..Interval /\ lull'[d] \in 0..Interval + 1
    BY <1>1, <1>2, ServiceAssumption
  <2>3. idle' \in [Connections -> 0..Interval] /\ lull' \in [Connections -> 0..Interval + 1]
    BY <2>1, <2>2
  <2>. QED BY <2>3 DEF Tick, IInv, TypeOK, main, peer, wire
<1>4. ASSUME NEW d \in Connections PROVE ConnInv(d)'
  <2>1. Buffered(unsent[d])' = Buffered(unsent[d])
    BY <1>1 DEF Buffered
  <2>2. ConnInv(d)
    BY DEF IInv
  <2>3. greeted'[d] /\ task'[d] = "reading" => lull'[d] <= idle'[d]
    <3>. SUFFICES ASSUME greeted[d], task[d] = "reading" PROVE lull'[d] <= idle'[d]
      BY <1>1, Zenon
    <3>1. lull[d] <= idle[d]  BY <2>2, Zenon DEF ConnInv
    <3>. QED BY <1>1, <3>1 DEF Ended
  <2>4. ~(task'[d] = "draining" /\ ~paused'[d] /\ client'[d] # "gone")
    BY <1>1, <1>2, Zenon
  <2>. QED BY <1>1, <2>1, <2>2, <2>3, <2>4 DEF ConnInv
<1>. QED BY <1>3, <1>4 DEF IInv

(* The invariant holds when the server starts.                            *)
LEMMA InitIInv == Init => IInv
<1>. SUFFICES ASSUME Init PROVE IInv  OBVIOUS
<1>1. TypeOK
  BY ServiceAssumption DEF Init, TypeOK
<1>2. ASSUME NEW c \in Connections PROVE ConnInv(c)
  BY BufferedGrows, ServiceAssumption DEF Init, ConnInv
<1>. QED BY <1>1, <1>2 DEF IInv

(* It is inductive, one lemma for each kind of step.                      *)
LEMMA StepIInv == IInv /\ [Next]_vars => IInv'
<1>. SUFFICES ASSUME IInv, [Next]_vars PROVE IInv'  OBVIOUS
<1>1. ASSUME NEW c \in Connections, ClientStep(c) PROVE IInv'
  BY <1>1, ClientKeeps, TakeKeeps, ResetKeeps DEF ClientStep
<1>2. ASSUME NEW c \in Connections, TaskStep(c) PROVE IInv'
  BY <1>2, MoveKeeps, ReadKeeps, TimeoutKeeps, CloseKeeps DEF TaskStep
<1>3. CASE UNCHANGED vars
  <2>1. TypeOK'
    BY <1>3 DEF vars, main, peer, wire, clock, IInv, TypeOK
  <2>2. ASSUME NEW d \in Connections PROVE ConnInv(d)'
    BY <1>3, Unaffected DEF vars, main, peer, wire, clock
  <2>. QED BY <2>1, <2>2 DEF IInv
<1>. QED BY <1>1, <1>2, <1>3, MainKeeps, InterruptKeeps, TickKeeps DEF Next

(* So it holds always.                                                    *)
LEMMA SpecIInv == Spec => []IInv
BY InitIInv, StepIInv, PTL DEF Spec

(* Every variable keeps its type; the timer of a read never runs past the  *)
(* interval.  app.py:47-119                                                *)
THEOREM ServiceTypeCorrect == Spec => []TypeOK
<1>1. IInv => TypeOK  BY DEF IInv
<1>. QED BY <1>1, SpecIInv, PTL

(* The write buffer stays within a burst of the limit.  app.py:64, 118-119 *)
THEOREM ServiceBufferBounded == Spec => []BufferBounded
<1>1. IInv => BufferBounded  BY Zenon DEF IInv, ConnInv, BufferBounded
<1>. QED BY <1>1, SpecIInv, PTL

(* A greeted client that keeps up is never left without a word for more    *)
(* than an interval.  app.py:49-70, 104-119                                *)
THEOREM ServiceHeartbeatWhenQuiet == Spec => []HeartbeatWhenQuiet
<1>1. IInv => HeartbeatWhenQuiet
  <2>. SUFFICES ASSUME IInv, NEW c \in Connections, greeted[c], task[c] = "reading"
                PROVE  lull[c] <= Interval
    BY DEF HeartbeatWhenQuiet
  <2>1. lull[c] <= idle[c]  BY Zenon DEF IInv, ConnInv
  <2>2. idle[c] \in 0..Interval /\ lull[c] \in 0..Interval + 1  BY DEF IInv, TypeOK
  <2>. QED BY <2>1, <2>2, ServiceAssumption
<1>. QED BY <1>1, SpecIInv, PTL
==============================================================================
