# TLA+ models and proofs for the local Army3 service

The repository holds a minimal local server for the login phase of the Army3
client (Python, asyncio), a tool that makes a patched copy of the client which
connects to it, a script that runs this copy isolated from the network, and a
set of analysis scripts.  This directory models the parts that keep state,
checks them with TLC on small instances, and proves the most important
properties with TLAPS for all of them.

All paths below are relative to the repository.

## 1. The system

### Components, their state and their operations

| component | source | state | operations | talks to |
|---|---|---|---|---|
| byte transform | `server/army3_protocol/transform.py` | key, shift; the cursors live in its users | from_seed, encode/decode of command and data bytes | frame codec |
| frame codec | `server/army3_protocol/framing.py` | none | `encode_frame`, `_decode_one` | transform, decoder |
| frame stream decoder | `FrameStreamDecoder` in `framing.py` | `_buffer`, `cursor`, `transform` | `feed(data, max_packets)`, `enable_transform` | codec, connection task |
| payload readers, message codecs | `primitives.py`, `messages.py` | a read position | one decoder or encoder per command | session |
| login session | `server/session.py` | state and two "sent" flags | `handle(packet)`: one handler per state | message codecs, connection task |
| connection task | `_handle_client` in `server/app.py` | decoder, outbound cursor, session, the await it is in | read with timeout, heartbeat, burst of replies, close | client (bytes), decoder, session |
| listener, configuration, entry point | `app.py`, `config.py`, `main.py` | the counter of connections | start, serve, validate, stop on Ctrl+C | starts connection tasks, `asyncio.run` cancels them |
| client redirection | `tools/redirect_client.py` | three directory trees, the local variable `published` | `create`, `verify-source`, `verify-copy` | file system, other runs of itself |
| isolated launcher | `scripts/run-local-client-isolated.ps1` | firewall profiles and rules, known and watched processes | check, enable, add rules, launch, watch, clean up | Windows Firewall, desktop shell, other launchers |
| loopback probe | `tools/probe_loopback_service.py` | a counter | read once and close | a client under analysis |
| runtime inspector | `tools/inspect_runtime_state.py` | the report it collects | read one value after the other out of a running client, decode its texts | the client's memory |
| vtable inspector | `tools/inspect_runtime_vtable.py` | none | print the methods of one object | the client's memory |
| IL reachability tracer | `scripts/trace-il-reachability.ps1` | queue, visited set, edges | bounded breadth-first search | assembly files |
| other analysis scripts, Ghidra scripts | `scripts/` | none | print tables | assemblies, Ghidra |

What a connection says depends on nothing but its own client: the client on
the other end, the network that cuts and joins its bytes, the idle timer and
the shutdown against one task that awaits reads and drains.  Connections meet
where the server stops: what ends the process waits for all of them.
The redirection tool and the launcher are run by hand, possibly twice at a
time, on directories and a firewall that other programs use as well.

### What is hard, and what makes each component correct

* **Stream and cursor.**  Both directions are xored with a rolling key, and
  the decoder must look at a header before it knows whether the frame is
  there.  Any partial frame that moves the cursor, any wide frame (32-bit
  length, only the command byte transformed) whose key bytes are counted as in
  a narrow one, and every later byte is garbage.  Correct: packets come out as
  they went in, however the stream is cut (`InOrder`, `NoCursorDrift`).
* **The switch.**  The reply to the first 0xE5 goes out in the clear, both
  cursors start behind it, and the client may already have sent transformed
  frames in the same segment.  `feed` is therefore called with
  `max_packets=1`, again and again until it returns nothing.  Correct:
  `HandledInOrder`, `InboundInStep`, `ClientReadsWhatIsSent`,
  `NoRequestHeldBack`.
* **Retries and once-only replies.**  The client repeats 0xBB and 0xDB; the
  version barrier must go with every 0xBB before the panel is ready, the
  experimental splash and area push once at most.  Correct: `VersionBarrier`,
  `SplashOnce`, `AreaPushOnce`, `ReadySinceFirstDB`, and the abstract service
  `LoginPromise`.
* **The end of a connection.**  End of file, reset, oversize frame, rejected
  packet, idle interval and cancellation can meet at any await.  Correct:
  `CutOffForAReason`, `CloseAfterTheLastRequest`, `ClosedWithItsClient`.
* **A timer that starts again.**  Each read starts the heartbeat interval anew,
  each drain stands outside it, and a timeout can race the bytes it waited for.
  Correct: whoever is silent hears from the server in time (`HeartbeatWhenQuiet`).
* **A client that stops reading.**  `drain` and `wait_closed` have no timeout.
  Correct: its buffer stays bounded (`BufferBounded`), nobody else waits for it
  (`EveryRequestRead`), and it is the only one that can keep the server from
  stopping (`ShutdownCompletes`).
* **Reading a process that runs.**  The inspector's values are from different
  moments.  Correct: what the documentation concludes from a report was true
  (`DiagnosisHolds`), and a text is the client's or there is none
  (`LocalizedTextIsTrue`).
* **Files that change meanwhile.**  `redirect_client create` hashes a tree,
  copies it, patches it, hashes the copy, renames it, and hashes both again,
  each one file at a time.  Correct: what is published is exactly the patched
  client, success means the source was left as it was, a failing run removes
  what is its own and nothing else.
* **A shared firewall.**  Two launchers find, enable and restore the same
  profiles in any order.  Correct: the client is isolated while it is watched
  and the machine ends as it began.

* **Layouts without names.**  A payload carries no types: ranges, selectors,
  literal bytes and the end of the payload are all that keeps one message from
  being read as another, or as itself with something missing.  Correct: what
  was encoded is decoded to itself (`RoundTrip`), and a decoder takes a payload
  only if it is the one encoding of what it returns (`OneEncoding`).
* **A search that stops early.**  The tracer gives up after `MaxDepth` calls and
  knows callees by name only.  Correct: what it prints is a shortest chain of
  calls (`ShortestPath`), and a negative answer is one only if nothing was
  limited or unresolved (`NotFoundMeansUnreachable`).

`PROJECT.json` lists these hazards one by one, each at its line.

## 2. The modules

Naming follows the source (`EncodeFrame` is `encode_frame`,
`HandleBootstrap` is `_handle_bootstrap`, ...), and `PROJECT.json` maps each
definition to its lines.  A definition with the word *Mutant* or *Fault* in its
comment is not part of any model: it is a plausible bug in the definition that
follows it, and a property is only kept if putting the bug in makes TLC find it
violated.

```
Transform <- Framing <- FrameStream
                 ^
                 +----- Connection -----> LoginSession -----> Payloads -----> Primitives
                                              | implements                   ^
                                          LoginPromise     MessageCodecs ----+
Service (the same task in time, all connections)      Inspector -----> Localization
RedirectClient          IsolatedLauncher          Reachability
```

| module | models | state |
|---|---|---|
| `Transform` | `ByteTransform`: key from seed, shift, xor, cursor arithmetic | operators only |
| `Framing` | `encode_frame`, `_decode_one` byte by byte, narrow and wide frames, the checkpoint of the cursor | operators only |
| `FrameStream` | one direction of a connection: a sender and a `FrameStreamDecoder` fed arbitrary fragments, with and without `max_packets` | `buffer`, `cursor`, `packets` are the code's; `stream`, `sent`, `delivered` record what was sent and handed over; `phase` is the place inside `feed` |
| `Primitives` | `ByteReader` and `ByteWriter`, UTF-8 and `string16` included | operators only |
| `Payloads` | the decoders of what a client sends and the encoders of what the server sends, as a session uses them | operators only |
| `MessageCodecs` | both halves of every message class: a message is its class, the values of its fields and its records, a codec the sequence of the kinds of its fields (a literal is a field that takes one value); a payload that is cut, extended or overwritten on the way | `message` is the object, `payload` and `decoded` what `encode_payload` and `decode_payload` return; `stage` and `tampers` count what happened |
| `LoginSession` | `LoginSession.handle`: one action per state handler and branch; a handler that raises changes nothing | `state` and the two flags are the code's fields, `outcome` the returned `SessionOutcome`, `log` a history of accepted packets |
| `LoginPromise` | what a client may rely on, without bytes and commands: greeting, open phase with version barriers, ready phase, at most one splash and one push | `phase`, `burst`, `splash`, `push` |
| `Connection` | `_handle_client`: from one await to the next (`read`, drain of a burst, drain of a heartbeat), composed of `Framing` and `LoginSession` and a client that pipelines, closes or resets | `pc` is the await, `buffer`/`inCursor`/`outboundCursor` are the code's; `clientStream`, `serverStream` are the bytes on the wire |
| `Service` | `main`, `serve_forever`, `start_server` and every connection's task: accepting, reads, bursts, heartbeats and drains in ticks of time; clients that stall, close and reset; Ctrl+C, `wait_closed` and the cancellation by `asyncio.run` | `server` and `task` are the awaits of the main task and of each connection, `greeted` is `outbound_cursor is not None`, `paused` the transport's; `client`, `stalled`, `request`, `unsent` the other side; `idle` is the timer of the read, `lull` a history |
| `RedirectClient` | `create_patched_copy` as several runs, a step per file read, copied or removed; other programs' edits, disk errors and kills | `source`, `temporary`, `output` map each path to a content; `pc`, `todo`, `doomed`, `published` are per run; `owner`, `pristine`, `quiet` are histories |
| `IsolatedLauncher` | the launcher script as several launchers, with the shell that starts a client on its own time | `enabled`, `rules` are the firewall; `restore`, `known`, `watched` the script's variables; `outside` the clients with an outside connection |
| `Reachability` | the search of `trace-il-reachability.ps1` over a call dump, a step per method taken from the queue, one start after the other | the script's variables; `rows` is the dump |
| `Localization` | `_localization_text`: the cached text, or the span check and the decoding of the client's three arrays | operators only |
| `Inspector` | `ProcessReader` and `inspect` as the sequence of its reads, against a client that goes through its bootstrap | `pc` is the read that is next, `seen`, `text`, `outcome` the report; `memory`, `clearing` are the client's; `doubts` is a history |
| `FramingProofs` | what the codec does, and two facts about recursive functions that other proofs need | |
| `ProtocolProofs`, `ConnectionProofs` | theorems about a stream and about the message codecs; about a session and the connection that runs it, the refinement of `LoginPromise` among them; both extend `FramingProofs` | |
| `ServiceProofs`, `RedirectClientProofs`, `IsolatedLauncherProofs`, `InspectorProofs`, `ReachabilityProofs` | theorems about one module each | |

What the models abstract from:

* XOR is a constant operator `XorByte` with the two properties the code relies
  on (it maps bytes to bytes and undoes itself); the MC modules give it the
  bitwise operator.  The proofs hold for any such operator.
* In `MessageCodecs` a u32 is the pair of its halves, because TLC's integers end
  at 2^31.  Values of a wrong Python type are not constructed, and no string
  holds a lone surrogate.
* In `Reachability` the assembly's metadata is a constant, and the offsets that
  the path prints are left out.  The rows of a method come in any order.
* `Connection` and `Service` model one task from two sides.  In `Connection` it
  has bytes, packets and a session, but no time, and a drain ends or meets the
  client's reset.  In `Service` a request is a flag and a frame is a unit (the
  task may answer it with up to `MaxBurst` of them, refuse it, note it or find
  that it is only part of one), but frames pile up in the socket and the write
  buffer, `drain` and `wait_closed` wait, and time passes.  Steps between two
  awaits are atomic in both, as they are in asyncio.
* Time in `Service` passes only when nobody has anything to do at once: the loop
  is taken to be fast compared with the interval (0.1 s at least).  Once the
  main task only waits for cancelled tasks, time plays no part.
* What `Service` says of asyncio's `start_server`, `wait_closed`, `asyncio.run`
  and their cancellation is not in this repository; it is modelled as
  CPython 3.11 and later have it, with `Server.wait_closed` as a constant,
  because 3.12 changed it.  3.10 cancels all tasks at the first Ctrl+C.
* `Inspector` keeps the six values that the documented readings of a report
  depend on.  The other reads are steps that may fail; neighbouring ones are
  joined.  Its client is modelled from `analysis/m3-length4-commands.md` and
  `analysis/m6-splash-transition.md`, as one thread whose stores the inspector
  may fall between.  The key stream of a text is a constant operator.
* In `RedirectClient`, a SHA-256 names a content: two contents with one hash do
  not occur.  `Path.rename` onto an empty directory may succeed (POSIX) or fail
  (Windows); both are taken.  `rmtree` lists the directory once and removes the
  files in any order; it fails if one has vanished or one was added.  Removing a
  temporary directory is one step, as nobody else knows its random name.
* In `IsolatedLauncher`, the cmdlets of the `finally` block succeed (the script
  asks for `SilentlyContinue` there), and a rule blocks its program as soon as
  it exists and its profile is on.

## 3. The runs

| run | question | bounds | properties |
|---|---|---|---|
| `frame` | both directions: client frames, the first in the clear, as `app.py` feeds them; server frames, wide ones among them, with and without `max_packets`; one frame is longer than the limit | 3 packets of 4 kinds in each, every fragmentation | `InOrder`, `NoCursorDrift`, `NothingLostBeforeOversize`, `OversizeStops`, `EventuallyDelivered` |
| `login_session` | every sequence of accepted packets, with every configuration | 5 accepted packets, 23 well-formed and malformed ones to choose from | `TypeOK`, `TransformOnce`, `VersionBarrier`, `SplashOnce`, `AreaPushOnce`, `ReadySinceFirstDB`, `FieldsTellHistory`, `KeepsPromise` |
| `connection` | one task and a client that pipelines, closes or resets | 4 packets of 7 kinds, reads of 1 to 9 bytes, one heartbeat | `HandledInOrder`, `InboundInStep`, `ClientReadsWhatIsSent`, `RepliesInOrder`, `CutOffForAReason`, `CloseAfterTheLastRequest`, `NoRequestHeldBack` |
| `connection_python310` | the idle interval on Python 3.10 | 2 packets | `IdleIsHarmless` (violated) |
| `redirect` | competing runs of `create`, with faults | 2 runs, 2 files and one extra, 2 faults | `PublishedIsWhole`, `CreatedIsKept`, `SuccessMeansSourceIntact`, `NothingLeftBehind`, `EveryRunEnds`, `SomeRunSucceeds` |
| `launcher` | overlapping launchers, interrupted anywhere | 2 launchers, 2 profiles, 1 executable | `IsolatedWhileWatched`, `LeavesNoTrace`, `EndsWithItsClient` |
| `launcher_late` | a client that starts after the script has given up | 1 launcher | `ClientsRunIsolated` (violated) |
| `codecs` | what is encoded, arrives (changed or not) and is decoded | 154 messages of all classes, 2 changes with 5 byte values | `RoundTrip`, `OneEncoding` |
| `reachability` | the search for every call dump | 5 methods, 14 optional calls, 2 starts, 3 calls deep | `ShortestPath`, `NotFoundMeansUnreachable` |
| `service` | the server in time, with clients that may stall, close or reset, and Ctrl+C | 2 clients, interval 1, frames of 1, no room before `drain` waits, Ctrl+C twice, both kinds of `wait_closed` | `HeartbeatWhenQuiet`, `BufferBounded`, `EveryRequestRead`, `ClosedWithItsClient`, `ShutdownCompletes` |
| `service_ctrl_c` | Ctrl+C on Python 3.12 | 1 client, interval 2, room for 2 frames, Ctrl+C once | `InterruptStops` (violated) |
| `inspector` | the report on a client that runs through its bootstrap while it is read | 2 texts, sound arrays and 19 ways to spoil them | `DiagnosisHolds`, `LocalizedTextIsTrue` |

Why the bounds are enough:

* *Frames.*  A three-byte key and packets of three to seven bytes make the
  cursor wrap inside a frame, at its end and in the middle of its header; three
  packets give a frame before, at and behind each of them.  Wide and narrow
  frames alternate.  The limit of the payload is between the longest and the
  next longest packet.
* *Session.*  Three packets (0xE5, 0xBB, 0xDB) pass through all four states;
  five leave room for what is repeated before and after each of them.  The
  proofs remove this bound.
* *Connection.*  Four packets hold the greeting, a burst, the move to ready and
  one more; a read of nine bytes holds the first frame with one or two of the
  ones behind it, so that the switch meets bytes already in the buffer.  The
  second direction is read back by a model of the client's decoder, wide
  replies included.  One heartbeat can fall between any two steps of the task.
* *Redirection.*  Two runs are what it takes to race for the output.  Two
  faults cover an edit of the source that is undone, an edit and an error, an
  error during the cleanup of an error, and a kill of either run.  The proofs
  remove these bounds.
* *Codecs.*  Each range check has a message at its least and greatest value and
  one beyond it.  Two changes can damage a length and its content, or a record
  and what stands behind it; the byte values are the literals, the sign bit and
  the sentinel 0xFF.  The proofs remove these bounds.
* *Search.*  Five methods with one overloaded name allow a chain of four calls,
  one more than the limit, and a longer way that is found first.
* *Service.*  Two clients, so that one can stall while the other is served, and
  either can hold up the shutdown.  With an interval of one tick a heartbeat is
  due after every tick without a read; with no room in the buffer every frame
  that is not taken pauses the transport, and a heartbeat behind a reply is
  paused like the reply.  Two Ctrl+C interrupt the wait for the connections.
  The proofs remove these bounds from the two invariants.
* *Inspector.*  The client's states are finite by themselves.  Two texts, in
  word 0 and in words 1 and 2 of the packed array, the second not a multiple
  of four bytes long; each array null, short, or with a value out of range on
  either side, one that is odd, and one that runs one word over the end.
* *Launchers.*  Two launchers are enough for one to find, enable or restore
  what the other did; two profiles for one to be on and the other off.

### Fairness

* `FrameStream`: `WF(Receive)`.  What has arrived is fed, and `feed` runs to
  its end.  Nothing makes the sender send.
* `Service`: `WF(TaskStep(c))` for each connection and `WF(MainStep)`, because
  the event loop runs every task that can go on; `SF(Take(c))`, a client that
  is ready to read time and again takes what it is sent.  A client may stall
  for ever, and nothing makes it send, close or reset; nothing makes the user
  press Ctrl+C; time need not pass.  The liveness properties name the client
  that may be waited for: one that stalls with frames behind the socket's room
  (`HeldBack`), or, for a `wait_closed` that waits, one that stays.
* `RedirectClient`: `WF(Step(r))` for each run.  The operating system runs it
  until it ends or is killed.  Faults are never forced.
* `IsolatedLauncher`: `WF(Step(l))` for each launcher.  The shell, the client
  and the user who interrupts are under no obligation.

`LoginSession`, `Connection`, `MessageCodecs`, `Reachability` and `Inspector` have safety properties only:
what of a connection must happen in the end is asked of `Service`.

Deadlock is not checked: a decoded message, a finished search, a closed connection, an ended run, an ended launcher,
a stopped server, a printed report and a sender that has sent its bound of packets do stop.

### What the runs found

* **Python 3.10.**  `docs/local-server.md:9` asks for Python 3.10 or later.
  There, `asyncio.wait_for` raises `asyncio.TimeoutError`, which is the builtin
  `TimeoutError` only from 3.11 on.  The `except TimeoutError` of `app.py:53`
  does not match it, and the first idle interval ends the connection in
  `except Exception` (`connection_python310`; the constant
  `TimeoutErrorIsBuiltin` chooses the Python).  On 3.11 and later the run
  `connection` shows that no ending is an internal error.
* **A late client.**  `ROADMAP.md:35-36` allows running the client only in an
  environment that is isolated by default.  The launcher waits fifteen seconds
  for the process and then removes its rules; the desktop shell may start the
  client after that, and it runs without them (`launcher_late`).  An interrupt
  while the client runs ends the same way.
* **Ctrl+C on Python 3.12.**  `docs/local-server.md:52` says to stop the server
  with Ctrl+C.  The cancelled `serve_forever` closes the listener and awaits
  `Server.wait_closed`, which from Python 3.12 on waits for every connection;
  the tasks are cancelled only behind it, and their heartbeats keep a connected
  client where it is (`service_ctrl_c`).  A second Ctrl+C, the client's leaving
  or a Python before 3.12 ends the wait, as `ShutdownCompletes` shows.
* `IsolatedWhileWatched` carries an exception, and TLC shows that it needs it:
  a launcher that has found profiles disabled disables them again when it ends,
  even if another launcher still watches its client.  `LeavesNoTrace` holds
  for all orders all the same.

Read off the code and confirmed while modelling, without a run of their own:

* `docs/messages/login-bootstrap.md:101` calls the id of an area record an s8.
  `ServerAreaRecord.decode_from` (`messages.py:445-446`) reads 0x80 to 0xFE as 128
  to 254, which its own encoder refuses.  `RoundTrip` holds because nothing
  encodes such a record.
* `docs/messages/login-bootstrap.md:69` has a heartbeat every ten seconds.  The
  code sends one after ten seconds without a read; a client that sends anything
  more often gets none.  `HeartbeatWhenQuiet` states what it does promise.
* `docs/client-redirection.md:164-165` reads flags that are all 1 beside a null
  singleton as "the replies were parsed before the object existed".  The
  pointer is read before the flags, so the two need never have been true
  together; `DiagnosisHolds` covers the two other readings of that list, which
  need only the order in which the code does read.
* The inspector stops with exit code 1 while no screen is current: there is
  nothing to read at address 0 (`CurrentScreenFields`).

## 4. The proofs

All proofs are checked by `tlapm` down to the last leaf.  They assume only the
named `ASSUME`s of the modules, which TLC evaluates in the runs.

### Frame codec (`FramingProofs`)

For any key, shift, limit and xor.  `FramingUndone` is the lemma that the two
modules above the codec rest on: as far as the bytes of a buffer agree with an
encoded frame, `DecodeOne` with the encoder's cursor returns that packet and the
encoder's next cursor, or leaves buffer and cursor as they are, because bytes are
missing or because the payload is too long.  It goes by the layout of a frame,
byte by byte (`FrameLayout`); the arithmetic of the length, narrow and wide, is
done once, and the rest never looks into a length byte again.
`OnWire` says of a stream that it is the encodings of a list of packets, each
with the cursor the one before left; `FramingUndone` is lifted to a decoder
that stands somewhere in such a stream.

### Frame stream (`ProtocolProofs`, first part)

For any set of links (direction, packets, limits, number of clear frames), any
number of packets and any fragments.  `NoCursorDrift` speaks of the time between
feeds only and is not inductive: inside `feed` the packets it has decoded
but not returned yet count as taken (`Taken`), and the last packet in the clear is
returned before the cursor is switched on.  The invariant says where the decoder
stands in terms of `Taken` (`OnBoundary`, with this one exception), that
`max_packets = 1` leaves no room for a second packet (`Limited`), that the
stream is on the wire as `OnWire` says (`Written`), and where a failed decoder
stopped (`Stopped`).  Theorems: `StreamInvariant`, `DeliveredInOrder`,
`CursorNeverDrifts`, `StopsAtOversize`, `HandedOverBeforeOversize`.

### Message codecs (`ProtocolProofs`, second part)

For every set of messages a program can construct (`MessagesAssumption`: the
values of a field have its type, in or out of the range its encoder accepts),
texts and blobs of any length, any number of records, and any cuts, extensions
and overwritten bytes.

Each kind of field has two facts.  `Back`: what the encoder accepts and writes
is read back, with the bytes behind it left for the next field.  `Form`: what is
read, from any bytes, was written so: if the reader returns a value, the encoder
accepts it, and the bytes are what it writes for it, followed by the rest.  `EveryKindBothWays` proves both
for all kinds: the arithmetic of big-endian numbers is done for u8, u16 and
the two halves of a u32; texts, seeds and blobs are a length and as many bytes
(`CountedBack`, `CountedForm`), and what `IsUtf8` says of these bytes is the
same on both sides.  The rest lifts the two facts.

1. *Lists of fields* (`FieldsBack`, `FieldsForm`).  What is written is the join
   of its fields; `JoinedSuffixes` names what is left of it behind each of them,
   so that the state of the reader after `i` fields is the first `i` values and
   the `i`-th of these suffixes.
2. *Records* (`RecordBack`, `RecordForm`).  The sentinel -1 chooses the short
   layout.  The reader knows ids from -1 to 254 and the encoder takes -1 to
   127: `Form` therefore says that a record *if it can be written at all* has
   the bytes that were read, which is why `OneEncoding` has that condition.
3. *The list of records* (`RecordsBack`, `RecordsForm`).  It has no count and
   ends with the payload.  A record has a byte at least, so the loop ends within
   as many rounds as there are bytes (`JoinedLength`), and nothing is dropped
   between the last record and the end.
4. *Messages* (`MessageBack`, `MessageForm`).  What the three classes of 0xC4
   write begins with their selector (`FirstByte`), and the selectors differ
   (`Selectors`), so another class of the command rejects it (`OtherRejects`).

Neither property says anything before a payload has been decoded, so neither is
inductive.  `CodecIInv` adds what holds on the way: a payload nobody has changed
is the encoding of a message that its encoder accepts, and what was decoded is
what one of the command's decoders makes of the payload.
Theorems: `EveryKindBothWays`, `CodecInvariant`, `RoundTrips`, `OneEncodings`.

### Login session and its promise (`ConnectionProofs`, first part)

For every set of client packets, every configuration and sessions of any
length.  None of the invariants is inductive by itself: that a splash goes out
only once is a fact about the flag `_splash_transition_sent`, and what this
flag says about the past is not in the code.  `FieldsTellHistory` states it:
each field of the session as a function of the packets it has accepted so far.
The inductive invariant is `TypeOK`, `FieldsTellHistory` and the properties of
the log.  A step appends one entry; the proof shows for each handler that the
entry is *lawful* (what it contains is what the fields before it allow), and
then once, for all handlers, that appending a lawful entry keeps each property.
Theorems: `SessionTypeCorrect` (bytes and lengths of all payloads included),
`SessionTransformOnce`, `SessionVersionBarrier`, `SessionSplashOnce`,
`SessionAreaPushOnce`, `SessionReadySinceFirstDB`, `SessionFieldsTellHistory`.

`SessionKeepsPromise`: `LoginSession` implements `LoginPromise` under the
mapping that reads the phase off the state, the burst off the last outcome, and
what is still owed off the configuration and the flags.  The initial states map
to initial states, and each handler to one step or a stutter.
`SessionNeverRegresses`, that no step goes back to an earlier state, is the
action property beside it.

### Connection (`ConnectionProofs`, second part)

For any client, configuration, key, read size, payload limit and number of
heartbeats.  The inductive invariant `CInv` has these parts.

1. *The session's own*, `IInv`.
2. *What the client wrote* (`Sent`): the inbound stream is the frames of
   `clientSent`, the first in the clear, the second from cursor 0 on.
3. *Where the decoder stands* (`InStep`): behind as many frames as the session
   has handled, with the cursor the client had there.  The one exception is why
   `InboundInStep` is not inductive: between the reply to 0xE5 and the end of
   its drain the client's cursor exists already and the server's does not.  The
   step out of the drain needs from the session that only the first packet
   enables the transform (`TransformOnce`).
4. *What the server wrote* (`Spoken`): the outbound stream is the frames of
   `serverSent`, with the outbound cursor behind the last.
5. *The properties that follow the decoder*: `HandledInOrder`,
   `NoRequestHeldBack`, `CloseAfterTheLastRequest`, and `CutOffForAReason` where
   `TimeoutError` is the builtin.  (On Python 3.10 it is false, as
   `connection_python310` shows; `NeverCutOff` therefore has
   `TimeoutErrorIsBuiltin` as its hypothesis.)

Every step of the task meets the stream through `FramingUndone`: the bytes that
were read agree with what the client wrote, so what is decoded is its next
packet.  `RepliesInOrder` needs a second invariant (`Answered`): each step
appends to the log and to `serverSent` the same burst, a lone heartbeat, or
nothing, and no reply is a heartbeat.  `ClientReadsWhatIsSent` then is a fact
about a stream that is `Spoken` (`SpeechIsRead`): the client's decoder, run over
it frame by frame, takes off one packet after the other and ends with nothing.

The composition is proved too: a step of a connection handles one packet in the
session or leaves it alone.  `ConnectionRunsSession` has the connection
implement `LoginSession` (whose log is bounded by `MaxHandled`, hence the
hypothesis `MaxSent <= MaxHandled`), `ConnectionKeepsSession` and
`ConnectionKeepsPromise` carry the session's invariants and its refinement of
`LoginPromise` over to a connection without any bound.

Assumptions: `LimitsAssumption` is what `config.py:32-33` enforces;
`RepliesFit` says that the three packets made of the seed and of the server's
texts fit their frames (they are constants of `session.py`, a few dozen bytes at most).
Theorems: `ConnectionInvariant`, `RequestsHandledInOrder`, `InboundStaysInStep`,
`NothingHeldBack`, `OrderlyClose`, `NeverCutOff`, `AnswersInOrder`,
`ClientUnderstandsServer` and the three above.

### Redirection (`RedirectClientProofs`)

For any number of competing runs, any manifest and any number of faults.  The
inductive invariant `IInv` has, besides the types, three parts.

1. *What a verification has read stays true.*  While the temporary directory is
   verified, each path is either still in `todo` or as it must be, because
   nobody else writes there; the same for the second verification of the
   source, as long as `quiet` says that nobody has changed it.  That the lists of
   checks name every path (`ChecksReadEverything`) closes the argument: with
   nothing left in `todo`, all of the tree is right.
2. *Ownership.*  A run from `verifying_output` on owns the output until it ends
   or has removed it, and only a run that owns it has anything doomed.
3. *A rename finds nothing that anyone counts on.*  It succeeds only where there
   is no directory or an empty one; the owner's directory is not empty until its
   own cleanup has removed the last file, and then it has nothing doomed left.

The steps of a run that leave the shared trees alone need only be checked for
that run (`Elsewhere`); the rename, the removal and the edits by others are
checked for every run.  Theorems: `RedirectTypeCorrect`,
`RedirectPublishedIsWhole`, `RedirectCreatedIsKept`,
`RedirectSuccessMeansSourceIntact`, `RedirectNothingLeftBehind`.

### Service (`ServiceProofs`)

For any number of clients, any interval and any limits of the transport.
`BufferBounded` needs that a task writes only from a read, and begins its read
with a drained transport: `~paused[c]` in `reading`, and what is not paused is
within the high-water mark.  `HeartbeatWhenQuiet` needs that the silence `lull`
is never longer than the timer `idle` while the task reads, and that a drain
ends with a silence of zero: either it did not wait, or it was the client's
taking a frame that ended the wait.  `ConnInv` states this per connection; a step
of one connection is shown to leave the others alone once (`Unaffected`), and
the endings of connections, by themselves, by Ctrl+C or by `asyncio.run`, share
one lemma (`OverKeeps`).
Theorems: `ServiceTypeCorrect`, `ServiceBufferBounded`, `ServiceHeartbeatWhenQuiet`.

### Launchers (`IsolatedLauncherProofs`)

For any number of launchers, profiles and executables.  Rules: by phase, none
or all of a launcher's rules exist, and no launcher touches another's
(`RulesInv`).  Profiles: one that is off, though a launcher relies on it, has
been turned off by another launcher that had found it off (`ProfilesInv`); one
that is on, and was not at first, has a launcher that still owes its disabling
(`OwedInv`).  The second makes `LeavesNoTrace` follow when nobody is left who
could owe anything, the first gives `IsolatedWhileWatched` with its exception.
`TypeOK` says that a watched process has started, which needs that each
launcher asks for its client once (`ProcessInv`).
Theorems: `LauncherTypeCorrect`, `LauncherIsolatedWhileWatched`,
`LauncherLeavesNoTrace`.

### Inspector (`InspectorProofs`)

For any texts and arrays.  The argument is the order of the reads: the client
takes nothing back before it has set appReady (`NothingTakenBack`), and the
inspector reads appReady behind the flags and the singleton.  So a doubt, raised
by a read, shows in the report (`DoubtsShow`): either appReady reads 1, or a flag
or the singleton reads as missing.  `WhenReached` evaluates the sequence of
reads, the one place where the proof depends on it.

`TextsAreTrue` is about `_localization_text`.  Whatever lengths and offsets the
client's arrays hold, a text that passes the check of its span is made of words
of the packed array: the word of byte `i` is less than the `(n + 3) // 4` words
that the check has counted (`WordsInside`), and a byte of a word that is there,
xored with its key byte, is a byte.  That the text is the client's own is
said of *sound* arrays only, and `SoundAssumption` defines what those are: each
length is that of its text and each byte, at its place and under its key, the
text's.  What the proof adds is that the inspector, if it returns anything,
then returns all of the text, and the same as the cache.  `TablesAssumption`
and `TextAssumption` are types.
Theorems: `InspectorDiagnosisHolds`, `TextsAreTrue`.

### Reachability (`ReachabilityProofs`)

For every finite assembly and dump, any list of starts, any depth and any order
of a method's rows.  What the search says is right when its queue is empty, and
neither invariant says anything before; the inductive one, `SearchInvariant`,
is about the search on its way.

1. *Rooted*: every visited method but the start has a predecessor that calls it
   and is one level nearer the start.
2. *Levels*: the queue is sorted by depth, and nothing visited is more than one
   level deeper than its head.  This is what makes the search breadth-first; a
   stack in its place breaks it, and with it the shortest path.
3. *Closed*: of each method that was visited and taken from the queue, all
   calls were followed to a method at most one level deeper, or it is the target,
   or it stood at the limit and was counted; calls that lead to no known name
   were counted too.

The three steps that take a method from the queue are one step, `Takes`, that
differs in what it finds (`TakesKeeps`).  At the end of a search, by induction on the number of
calls, what n calls lead to is visited at a depth of n at the most
(`WithinVisited`), and what is visited is within as many calls as its depth
(`VisitedWithin`), which is less than the number of methods because the depths
have no gaps (`DepthBelow`).  The printed path loses one level per line and so
arrives at the start (`PathBack`).  With nothing limited and nothing unresolved
the visited methods are closed under all calls (`NotFoundAnswer`).
`ReachabilityAssumption` says that the tables of the script are finite and its
tokens in range (`[ValidateRange(1, 12)]` for the depth is the script's own).
Theorems: `SearchInvariant`, `ShortestPathFound`, `NotFoundIsProof`.

### Recursion

Nothing can be cited about recursive functions and induction with an operator as
a parameter.  The proofs do without: `SetInduction` (in `FramingProofs` and
`ReachabilityProofs`, which have no module in common) is the
least-number principle for a set, `RecursionUpTo` has a bounded recursive
function exist, `SameRun` has two of them agree that start and go on alike.
`Written`, `ClientReads`, `Replied` and `Unbeaten` of `Connection`, and `Within`
and `Path` of `Reachability`, and `Unsigned`, `Joined`, `ReadAll` and
`ReadRecords` of the codecs, are recursive functions over an initial segment
for this reason, and `Framing` names `Word`, `TwoBytes` and `Clear` so that the
proofs need not open them.

### Only model-checked

Liveness everywhere (`EventuallyDelivered`, `EveryRequestRead`,
`ClosedWithItsClient`, `ShutdownCompletes`, `EveryRunEnds`, `SomeRunSucceeds`,
`EndsWithItsClient`): fairness and ENABLED are out of the prover's reach.  All
safety properties of the runs that pass are proved.

What is not claimed of UTF-8: `IsUtf8` is a fold over the bytes, and the
proofs use it as a predicate without looking into it.  That it accepts the
right byte sequences is shown by the model's text only.

## 5. Not modelled

* **Configuration**: validation without state; the ranges that `config.py`
  enforces are assumptions on the constants of `LoginSession`, `Connection` and
  `Service`.  The loopback check and the argument parsers accept or refuse a
  command line and do nothing else.
* **Probe**: it reads once and closes.  Its only state is the number in its
  output; its read with a timeout and its Ctrl+C are those of the server, which
  `connection_python310` and `service` are about.
* **Vtable inspector**: a loop of reads that do not depend on one another.
* **Other scripts and the Ghidra scripts**: stateless queries over data of other
  programs.

## 6. Plan

Done, in this order: `Transform`, `Framing`, `FrameStream`; `Payloads`,
`LoginSession`, `LoginPromise`; `Connection`; `RedirectClient`,
`IsolatedLauncher`; `MessageCodecs`, `Reachability`; the proofs about session,
promise and redirection; `Service`, `Localization`, `Inspector`; the proofs about
the service, the launchers and the inspector; the proofs about the codec, the
stream and the connection, about the inspector's texts and about the search; the
proofs about the message codecs.

What would come next: the server's `Payloads` as instances of the codecs of
`MessageCodecs`, which would carry `RoundTrips` over to what a session sends.

## 7. Running

```
tlc -config MCConnection.cfg MCConnection.tla
tlapm RedirectClientProofs.tla
```

`PROJECT.json` lists the runs with their configurations.  The longest takes
about two minutes with two workers; the proofs about a connection and about the
codecs take some minutes, the others about one each.
