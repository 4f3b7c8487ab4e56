------------------------------- MODULE Service -------------------------------
(***************************************************************************)
(* The server as a whole: main.py, start_server and serve_forever of       *)
(* server/app.py, the connection tasks they start, and Ctrl+C.             *)
(*                                                                         *)
(* What a task and its client say to each other is the matter of           *)
(* Connection.  Here a request is a flag and a frame is one unit; instead  *)
(* there is time, in ticks, and a client may stop reading, so that frames  *)
(* pile up in the socket and in the transport's write buffer, drain waits, *)
(* and wait_closed waits.  Time passes only when nobody has anything to do *)
(* at once: the event loop is fast compared with the heartbeat interval.   *)
(* What belongs to a connection is forgotten when it is over.              *)
(***************************************************************************)
EXTENDS Integers

CONSTANTS
    Connections,   \* the clients, each of which connects at most once
    Interval,      \* ServerConfig.heartbeat_interval_seconds, in ticks
    Window,        \* frames that the sockets hold for a client
    HighWater,     \* frames in the write buffer beyond which drain waits,
    LowWater,      \* and down to which it waits
    MaxBurst,      \* the most frames that answer one request
    WaitsForTasks, \* whether asyncio's Server.wait_closed waits until every
                   \* connection is closed: FALSE up to Python 3.11, TRUE in 3.12
    MaxInterrupts  \* bound: how often the user presses Ctrl+C

ASSUME ServiceAssumption ==
    /\ Interval \in Nat \ {0} /\ Window \in Nat
    /\ LowWater \in Nat /\ HighWater \in Nat /\ LowWater <= HighWater
    /\ MaxBurst \in Nat \ {0} /\ MaxInterrupts \in Nat
    /\ WaitsForTasks \subseteq BOOLEAN

VARIABLES
    server,      \* "serving"; "closing", in Server.wait_closed of serve_forever;
                 \* "cancelling", asyncio.run gathers the tasks; "stopped"
    waits,       \* which of WaitsForTasks this Python is
    interrupts,  \* how often Ctrl+C was pressed
    client,      \* "absent", "open", "closed" (end of file sent), "gone" (there is
                 \* no connection any more)
    stalled,     \* the client has stopped reading what was sent to it
    request,     \* bytes from the client wait for a read
    unsent,      \* frames written and not taken by the client
    paused,      \* the transport has called pause_writing
    task,        \* the await _handle_client is in
    greeted,     \* outbound_cursor is not None
    idle,        \* ticks since the current read began
    lull         \* history: ticks since anything passed between the two

peer  == <<client, stalled, request>>
wire  == <<unsent, paused>>
main  == <<server, waits, interrupts>>
clock == <<idle, lull>>
vars  == <<main, peer, wire, task, greeted, clock>>

Buffered(n) == IF n > Window THEN n - Window ELSE 0
Ended(c)    == task[c] \in {"none", "done"}
Attached(c) == task[c] \in {"reading", "draining", "closing"} /\ client[c] # "gone"

Init ==
    /\ server = "serving" /\ waits \in WaitsForTasks /\ interrupts = 0
    /\ client  = [c \in Connections |-> "absent"]
    /\ stalled = [c \in Connections |-> FALSE]
    /\ request = [c \in Connections |-> FALSE]
    /\ unsent  = [c \in Connections |-> 0]
    /\ paused  = [c \in Connections |-> FALSE]
    /\ task    = [c \in Connections |-> "none"]
    /\ greeted = [c \in Connections |-> FALSE]
    /\ idle    = [c \in Connections |-> 0]
    /\ lull    = [c \in Connections |-> 0]

------------------------------------------------------------------------------
(* The clients.                                                            *)
Connect(c) ==
    /\ client[c] = "absent" /\ server = "serving"
    /\ client' = [client EXCEPT ![c] = "open"]
    /\ task' = [task EXCEPT ![c] = "queued"]
    /\ UNCHANGED <<main, stalled, request, wire, greeted, clock>>

Send(c) ==
    /\ client[c] = "open" /\ ~Ended(c) /\ ~request[c]
    /\ request' = [request EXCEPT ![c] = TRUE]
    /\ UNCHANGED <<main, client, stalled, wire, task, greeted, clock>>

StallOrResume(c) ==
    /\ client[c] \in {"open", "closed"} /\ unsent[c] > 0
    /\ stalled' = [stalled EXCEPT ![c] = ~@]
    /\ UNCHANGED <<main, client, request, wire, task, greeted, clock>>

Take(c) ==
    /\ client[c] \in {"open", "closed"} /\ ~stalled[c] /\ unsent[c] > 0
    /\ unsent' = [unsent EXCEPT ![c] = @ - 1]
    /\ paused' = [paused EXCEPT ![c] = @ /\ Buffered(unsent[c] - 1) > LowWater]
    /\ lull' = [lull EXCEPT ![c] = 0]
    /\ UNCHANGED <<main, peer, task, greeted, idle>>

SendEndOfFile(c) ==
    /\ client[c] = "open" /\ ~Ended(c)
    /\ client' = [client EXCEPT ![c] = "closed"]
    /\ UNCHANGED <<main, stalled, request, wire, task, greeted, clock>>

(* What a reset finds in the buffers of either side is lost.               *)
Disconnected(C) ==
    /\ client'  = [c \in Connections |-> IF c \in C THEN "gone" ELSE client[c]]
    /\ stalled' = [c \in Connections |-> c \notin C /\ stalled[c]]
    /\ request' = [c \in Connections |-> c \notin C /\ request[c]]
    /\ unsent'  = [c \in Connections |-> IF c \in C THEN 0 ELSE unsent[c]]
    /\ paused'  = [c \in Connections |-> c \notin C /\ paused[c]]

Reset(c) ==
    /\ client[c] \in {"open", "closed"} /\ ~Ended(c)
    /\ Disconnected({c})
    /\ UNCHANGED <<main, task, greeted, clock>>

------------------------------------------------------------------------------
(* The task of a connection.                                               *)
Goto(c, await) ==
    /\ task' = [task EXCEPT ![c] = await]
    /\ idle' = IF await = "reading" THEN [idle EXCEPT ![c] = 0] ELSE idle

(* Mutant: writes are not followed by a drain.                             *)
WriteUndrained(c, n) ==
    /\ unsent' = [unsent EXCEPT ![c] = @ + n]
    /\ paused' = [paused EXCEPT ![c] = @ \/ Buffered(unsent[c] + n) > HighWater]
    /\ Goto(c, "reading")

(* writer.write of n frames, and writer.drain.                             *)
WriteAndDrain(c, n) ==
    /\ unsent' = [unsent EXCEPT ![c] = @ + n]
    /\ paused' = [paused EXCEPT ![c] = @ \/ Buffered(unsent[c] + n) > HighWater]
    /\ Goto(c, "draining")

(* The tasks of the connections C are over.                                *)
Over(C) ==
    /\ Disconnected(C)
    /\ greeted' = [c \in Connections |-> c \notin C /\ greeted[c]]
    /\ idle' = [c \in Connections |-> IF c \in C THEN 0 ELSE idle[c]]
    /\ lull' = [c \in Connections |-> IF c \in C THEN 0 ELSE lull[c]]

(* Mutant: one connection is served at a time.                             *)
AcceptOneAtATime(c) ==
    /\ task[c] = "queued" /\ server = "serving"
    /\ \A d \in Connections : ~Attached(d)
    /\ Goto(c, "reading")
    /\ UNCHANGED <<main, peer, wire, greeted, lull>>

(* start_server calls _handle_client in a task of its own.                 *)
Accept(c) ==
    /\ task[c] = "queued" /\ server = "serving"
    /\ Goto(c, "reading")
    /\ UNCHANGED <<main, peer, wire, greeted, lull>>

(* The read returns a request, which is refused, answered or only noted,   *)
(* or part of one; the first one accepted is the greeting.                 *)
Read(c) ==
    /\ task[c] = "reading" /\ client[c] # "gone" /\ request[c]
    /\ request' = [request EXCEPT ![c] = FALSE]
    /\ lull' = [lull EXCEPT ![c] = 0]
    /\ \/ /\ Goto(c, "closing")
          /\ UNCHANGED <<greeted, wire>>
       \/ /\ Goto(c, "reading")
          /\ UNCHANGED <<greeted, wire>>
       \/ /\ greeted' = [greeted EXCEPT ![c] = TRUE]
          /\ \E n \in 1..MaxBurst : WriteAndDrain(c, n)
    /\ UNCHANGED <<main, client, stalled>>

ReadEndOfFile(c) ==
    /\ task[c] = "reading" /\ client[c] = "closed" /\ ~request[c]
    /\ Goto(c, "closing")
    /\ UNCHANGED <<main, peer, wire, greeted, lull>>

(* Mutant: the loop goes on to its next read without a heartbeat.          *)
TimeoutSilently(c) ==
    /\ task[c] = "reading" /\ client[c] # "gone" /\ idle[c] = Interval
    /\ Goto(c, "reading")
    /\ UNCHANGED <<main, peer, wire, greeted, lull>>

(* The interval is over, possibly just as a request arrives.               *)
Timeout(c) ==
    /\ task[c] = "reading" /\ client[c] # "gone" /\ idle[c] = Interval
    /\ \/ /\ ~greeted[c]
          /\ Goto(c, "reading")
          /\ UNCHANGED <<wire, lull>>
       \/ /\ greeted[c]
          /\ WriteAndDrain(c, 1)
          /\ lull' = [lull EXCEPT ![c] = 0]
    /\ UNCHANGED <<main, peer, greeted>>

Drained(c) ==
    /\ task[c] = "draining" /\ client[c] # "gone" /\ ~paused[c]
    /\ Goto(c, "reading")
    /\ UNCHANGED <<main, peer, wire, greeted, lull>>

(* Mutant: only a read notices that the connection is lost.                *)
LostInReadOnly(c) ==
    /\ task[c] = "reading" /\ client[c] = "gone"
    /\ Goto(c, "closing")
    /\ UNCHANGED <<main, peer, wire, greeted, lull>>

(* A read or a drain raises ConnectionError.                               *)
Lost(c) ==
    /\ task[c] \in {"reading", "draining"} /\ client[c] = "gone"
    /\ Goto(c, "closing")
    /\ UNCHANGED <<main, peer, wire, greeted, lull>>

(* wait_closed returns when the write buffer is empty or lost.             *)
Close(c) ==
    /\ task[c] = "closing"
    /\ client[c] = "gone" \/ Buffered(unsent[c]) = 0
    /\ task' = [task EXCEPT ![c] = "done"]
    /\ Over({c})
    /\ UNCHANGED main

TaskStep(c) ==
    Accept(c) \/ Read(c) \/ ReadEndOfFile(c) \/ Timeout(c) \/ Drained(c) \/ Lost(c) \/ Close(c)

------------------------------------------------------------------------------
(* The main task and asyncio.run.                                          *)

(* Mutant: the loop goes on after a CancelledError.                        *)
CancelSwallowed ==
    LET ended == {c \in Connections : task[c] \in {"queued", "closing"}}
    IN  /\ server' = "cancelling"
        /\ task' = [c \in Connections |-> IF c \in ended THEN "done" ELSE task[c]]
        /\ Over(ended)

(* A CancelledError sends a task to its finally block, and ends one that   *)
(* is there already.                                                       *)
CancelAll ==
    LET ended == {c \in Connections : task[c] \in {"queued", "closing"}}
    IN  /\ server' = "cancelling"
        /\ task' = [c \in Connections |->
                       IF c \in ended THEN "done"
                       ELSE IF Ended(c) THEN task[c] ELSE "closing"]
        /\ Over(ended)

(* Ctrl+C, as Python 3.11 and later handle it (3.10 cancels all tasks at   *)
(* the first).  The first cancels the main task, which closes the listener:*)
(* what was not accepted yet is reset.  The second interrupts the wait for *)
(* the connections, the third the wait for the cancelled tasks.            *)
Interrupt ==
    /\ interrupts < MaxInterrupts
    /\ interrupts' = interrupts + 1
    /\ UNCHANGED waits
    /\ \/ /\ server = "serving"
          /\ server' = "closing"
          /\ LET queued == {c \in Connections : task[c] = "queued"}
             IN  /\ task' = [c \in Connections |-> IF c \in queued THEN "done" ELSE task[c]]
                 /\ Over(queued)
       \/ /\ server = "closing"
          /\ CancelAll
       \/ /\ server = "cancelling"
          /\ server' = "stopped"
          /\ task' = [c \in Connections |-> IF Ended(c) THEN task[c] ELSE "done"]
          /\ Over({c \in Connections : ~Ended(c)})

(* Server.wait_closed returns, and asyncio.run cancels what is left.       *)
WaitClosed ==
    /\ server = "closing"
    /\ waits => \A c \in Connections : ~Attached(c)
    /\ CancelAll
    /\ UNCHANGED <<waits, interrupts>>

Stop ==
    /\ server = "cancelling"
    /\ \A c \in Connections : Ended(c)
    /\ server' = "stopped"
    /\ UNCHANGED <<waits, interrupts, peer, wire, task, greeted, clock>>

MainStep == WaitClosed \/ Stop

------------------------------------------------------------------------------
(* What somebody does at once.                                             *)
Due(c) ==
    \/ task[c] = "queued"
    \/ task[c] = "reading" /\ (request[c] \/ client[c] # "open" \/ idle[c] = Interval)
    \/ task[c] = "draining" /\ (~paused[c] \/ client[c] = "gone")
    \/ task[c] = "closing" /\ (Buffered(unsent[c]) = 0 \/ client[c] = "gone")
    \/ client[c] \in {"open", "closed"} /\ ~stalled[c] /\ unsent[c] > 0

Tick ==
    /\ server \in {"serving", "closing"}
    /\ \A c \in Connections : ~Due(c)
    /\ idle' = [c \in Connections |-> IF task[c] = "reading" THEN idle[c] + 1 ELSE idle[c]]
    /\ lull' = [c \in Connections |->
                   IF lull[c] <= Interval /\ ~Ended(c) THEN lull[c] + 1 ELSE lull[c]]
    /\ UNCHANGED <<main, peer, wire, task, greeted>>

ClientStep(c) == Connect(c) \/ Send(c) \/ StallOrResume(c) \/ Take(c)
                 \/ SendEndOfFile(c) \/ Reset(c)

Next ==
    \/ \E c \in Connections : ClientStep(c) \/ TaskStep(c)
    \/ MainStep \/ Interrupt \/ Tick

Spec == Init /\ [][Next]_vars

(* The event loop runs the tasks and the main task, and a client that is   *)
(* ready to read time and again takes what it is sent.                     *)
FairSpec ==
    /\ Spec
    /\ WF_vars(MainStep)
    /\ \A c \in Connections : WF_vars(TaskStep(c)) /\ SF_vars(Take(c))
------------------------------------------------------------------------------
(* Every variable keeps its type; the read's timer does not run over.      *)
TypeOK ==
    /\ server \in {"serving", "closing", "cancelling", "stopped"}
    /\ waits \in BOOLEAN /\ interrupts \in 0..MaxInterrupts
    /\ client \in [Connections -> {"absent", "open", "closed", "gone"}]
    /\ stalled \in [Connections -> BOOLEAN] /\ request \in [Connections -> BOOLEAN]
    /\ unsent \in [Connections -> Nat] /\ paused \in [Connections -> BOOLEAN]
    /\ task \in [Connections ->
                    {"none", "queued", "reading", "draining", "closing", "done"}]
    /\ greeted \in [Connections -> BOOLEAN]
    /\ idle \in [Connections -> 0..Interval] /\ lull \in [Connections -> 0..Interval + 1]

(* The heartbeat, as app.py gives it: once greeted, a client that neither  *)
(* sends nor is behind with reading hears from the server before more than *)
(* one interval has passed since anything went either way.  The timer      *)
(* starts again with every read; no order of reads, replies, drains and    *)
(* timeouts lets it miss.  app.py:49-70, 104-119                           *)
HeartbeatWhenQuiet ==
    \A c \in Connections :
        greeted[c] /\ task[c] = "reading" => lull[c] <= Interval

(* A client that does not read costs a bounded amount of memory: drain     *)
(* keeps the task from answering, or beating, beyond one burst above the   *)
(* transport's limit.  app.py:64, 118-119                                  *)
BufferBounded ==
    \A c \in Connections : Buffered(unsent[c]) <= HighWater + MaxBurst

HeldBack(c) == stalled[c] /\ Buffered(unsent[c]) > 0

(* Every request is read, unless the task has hung up; only a client that  *)
(* has stopped reading, with frames it has not taken, can wait for ever.   *)
(* app.py:47-119                                                           *)
EveryRequestRead ==
    \A c \in Connections :
        \/ []<>(~request[c] \/ task[c] = "closing" \/ Ended(c))
        \/ <>[](HeldBack(c) /\ task[c] = "draining")

(* A task ends with its client: at once with one that is gone, and with    *)
(* one that sent its end of file as soon as that has taken what was        *)
(* written.  app.py:71-77, 138-151                                         *)
ClosedWithItsClient ==
    \A c \in Connections :
        /\ client[c] = "gone" ~> Ended(c)
        /\ \/ []<>(client[c] # "closed" \/ Ended(c))
           \/ <>[]HeldBack(c)

(* A client that keeps the server from stopping.                           *)
HoldsUp(c) ==
    \/ server = "closing" /\ waits /\ client[c] = "open" /\ Attached(c)
    \/ server # "serving" /\ HeldBack(c)

(* Ctrl+C stops the server, cancelled tasks and their finally blocks       *)
(* included, unless one and the same client holds it up for ever: on a     *)
(* Python whose wait_closed waits, any client that stays, and on every     *)
(* Python one that does not take what was written to it.                   *)
(* app.py:129, 146-151, 169-174; main.py:59-63                             *)
ShutdownCompletes ==
    \/ []<>(server \in {"serving", "stopped"})
    \/ \E c \in Connections : <>[]HoldsUp(c)

(* "Dung Ctrl+C de dung server" (use Ctrl+C to stop the server),           *)
(* docs/local-server.md:52, for a server that has been asked to.           *)
InterruptStops == server = "closing" ~> server = "stopped"
==============================================================================
