# Verification of the Connect NCP host library

The Connect NCP host library lets a program on a Linux host use the Silicon
Labs Connect stack that runs on a network co-processor (NCP). Every API function
is a remote call over a CPC endpoint; what happens on the NCP comes back as
indications that become application callbacks. This directory holds TLA+
models of the library, the TLC configurations that check them and TLAPS proofs.

    tlc -config TransportFaults.cfg MCNcpTransport     # one run
    tlapm NcpTransportProofs.tla                       # one proof module

`PROJECT.json` lists the parts, the runs, the lines each definition models,
the mutants, the disagreements found, the hazards and the theorems.

## 1. Inventory

Paths are relative to the repository; `host-common`, `csp`, `stack` and
`ota-unicast-bootloader` are below `src/`.

| Component | State | Operations |
| --- | --- | --- |
| Command path (`ncp-host-common.c`, `cpc-host.c`, shape of every function of `csp-command-app.c`) | command mutex, `apiCommandData`, `responseBuffer`, response pipe | acquire, format, `cpc_tx`, `wait_for_response`, copy, fetch, release |
| Poll thread (`cpc-host.c`) | shares `responseBuffer` and both pipes | poll, `cpc_rx`, dispatch on the first byte |
| Callback queue (`callback-queue.c`) | a POSIX pipe, `pipe_buffer` of each thread that empties it | append (blocking write), poll, read all, handle one by one |
| Serialization format (`csp-format.c`, `byte-utilities.c`) | `use_long_message_length` | format and fetch according to a format string |
| Commands and indications (`csp-command-app.c`, `csp-command-callbacks.c`, `csp-api-enum-gen.h`) | none of their own | 75 commands, 11 indications, switch of the length mode |
| OTA unicast bootloader server (`ota-unicast-bootloader-server.c`) | nine unprotected globals, a timer descriptor, a thread per process | initiate (2), abort, incoming message, message sent, event handler |
| Byte utilities (`byte-utilities.c`) | none | integers to bytes and back, bit prefixes, string comparison |
| Log (`log.c`) | trace buffer, index and depth of each thread | hexadecimal text of a frame, of a command identifier |
| Callback dispatcher, OTA stubs, initialisation | none that matters | straight calls |
| Sensor sink application (`app/`) | the image buffer `gbl_image` | a command line (load, distribute, request, exit), the segment callback, the display of sensor messages, two polling threads |
| NCP, CPC daemon, target node | outside the repository | environment |

How they interact. An application thread inside an API call waits on the response
pipe, which the poll thread feeds; the poll thread puts indications into the
callback pipe, which a callback thread empties; that thread runs callbacks,
which may be API calls again, or the two OTA callbacks. The OTA server's event
threads send messages, which are API calls. So three kinds of threads meet in the
OTA server's globals, and all of them meet in the two pipes and two buffers of
the transport.

What is hard here:

 * the buffer that every frame is read into is also the one from which callers copy
   their response, with nothing but a byte on a pipe between them;
 * blocking writes and reads in the very threads that others wait for;
 * timeouts and failed writes in the middle of an exchange;
 * a switch that the two sides must make together, while another thread reads;
 * globals without a lock under three kinds of threads, one of which blocks in
   the middle of its handler; a process started or aborted at any moment;
   messages that are lost, late, or left over from the process before;
 * limits: full pipe, error counters, lengths of one and two bytes, a delay of a
   full second, the last segment of an image.

What makes each component correct:

 * command path: a call returns, and returns the response to itself; nothing
   of an exchange outlives it;
 * callback queue: every indication reaches the application, once and in order;
 * serialization: either side reads what the other wrote, in the same mode;
 * OTA server: a process ends, with one completion callback; no segment is
   skipped; retries are bounded; no assertion of the code fails; what its header
   promises the application holds;
 * sink application: after a distribution that succeeded the target holds the image;
   a reading is shown as it was sent;
 * byte utilities, messages, log: what is written can be read back, and fits.

## 2. Modules

**`NcpTransport`** models the command path, the poll thread and the callback
queue as one system of threads. `pc[t]` is where thread `t` stands in an API
call; each of the calls' statements that touches shared state is one action
(`AcquireCommandMutex`, `FormatCommand`, `CpcTx`, `WaitForResponse`,
`WaitTimeout`, `LateRead`, `CopyResponse`, `FetchApiParams`,
`ReleaseCommandMutex`). The poll thread's read is two steps (`PollNcpMsg`,
`CpcRx`): between them `responseBuffer` is `Torn`, since `recv` fills it while a
caller may be copying. A frame is its origin (command, response, indication,
other) and the number of the call or indication it belongs to; contents come in the
modules below. The response pipe holds one entry per byte, tagged with the call
it announces; the tag and `handled` are history variables. A handler of a
thread in `NestingThreads` may call the API. `Faults` selects what goes
wrong: `lost` (write fails), `slow` (answer later than 1000 ms), `stray` (frame of
unknown origin), `reset` (daemon gone). `FATAL` sets `halted`.

**`CommandApi`** is the abstract specification: calls are served one at a time and
each returns its own answer. **`NcpTransportRefinement`** maps the transport to
it: a call counts as served while its command is off the link and its answer not
yet fetched.

**`ByteUtilities`, `CspFormat`, `CspCommands`, `CspSession`** model the
serialization protocol bottom up: integers to bytes; format letters to fields,
in either length mode, with buffers that cut what is too long; the catalogue
of commands and indications; a session of host, callback thread and NCP in
which commands, responses and indications really are formatted to bytes and
read back. In the catalogue, the letter `b` is named for the buffer that receives the array;
`n` is a `u` whose variable the following array's length overwrites; `a` is the `v` of an
`EmberMacAddress`, whose short and long address are one union: the host fetches the short one
and then the long one over it, so that what it hands over as the short address is the first
two bytes of the long one (`LeftBy`, on the little-endian machines it runs on). An
address that the host itself sends is such a union before it is formatted (`InUnion`).
`emberNcpSetLongMessagesUse` switches the NCP when it accepts and
the host when it has read that it did. A frame with a length in it that is
read in the other mode is `Garbled`: what comes out of it is left open. The host
may be restarted, with the NCP keeping its mode or reset as well; `synced`
remembers whether the two sides have agreed since.

**`OtaServer`** models the OTA server. `server` holds the globals; every C
function that only updates them is an operator from their values to their new
values, with what else it does (set the timer, call a completion callback, fail
an assert). The event handler is cut at the places where another thread can get
in: the switch on the state, the blocking send, the assignment of `PENDING`, the
assignment of `sentSegment`, the scheduling of the next task. Each process has
an event thread with its own timer; the global descriptor is `server.timerFd`.
The NCP reports accepted messages as sent, unacknowledged or failed; the target may
ignore what it received, or answer with every status of the protocol
(`ota-unicast-bootloader-protocol.h:50`), but for what `ConformingTarget` excludes (see 3). The handler of
segment responses has no branch for FAILED and ABORTED; `givenUp`, a history variable, remembers
that such an answer came before the segment was reported as sent, and `Stalled` is the state this
leaves: waiting for a response, with no timer set. A process' image tag is its number.
The states are those of the code without the prefix
(`SEGMENT_INTERVAL` for `STATE_OTA_SERVER_SEGMENT_UNICAST_INTERVAL`).

**`OtaProcess`** is what the header of the OTA server promises an application: one
process at a time, each completed by one callback; a distribution agrees on a first
segment, moves on from a segment the target has, and reports SUCCESS when the
target has the last. No messages, timers, threads or retries are visible in it.
**`OtaServerRefinement`** maps the server to it: the process is read off the
state of the server, the segment is `nextSegment` while segments are sent.

**`SinkApp`** composes the server with the application that drives it: `gbl_image`
with the commands that load a file (which may fail to open or to fit), distribute it,
request the bootload, and the exit actions that free it; the segment callback, that
fails when there is no image; the bytes each message carries; and the target's
flash. A byte is its image and its position in it. Every step of `OtaServer` occurs in
it, those that send a segment together with the callback that supplies the bytes.

**`OtaMessages`** is the layout of the over-the-air messages (frame control, tag, 32-bit
number), the 32-bit arithmetic of segments and the delay in a bootload request;
**`BitUtilities`** the bit and string helpers; **`SensorReading`** what the sink
makes of a sensor's message; **`TraceLog`** how much of a frame the log shows and
the buffer of a thread. These are computations without steps: they are proved about, with
integers wider than TLC's, and not run.

`MCNcpTransport`, `MCOtaServer`, `MCSinkApp` and `MCCspSession` give constants their values
for TLC. `OtaServerInvariant` states the inductive invariants of the server. The proofs are in
`NcpTransportProofs` (calls) and `NcpDeliveryProofs` (indications), `ConversionProofs` (bytes
and bits, messages, sensor readings, log), `CspProofs` (formats, catalogues and the session),
`OtaServerControl` (segments, types and control),
`OtaServerSafety` (messages, segments, refinement), `OtaServerDue` (what keeps a process
going) and `SinkAppProofs` (the application).
Definitions commented "Mutant" are deliberately wrong variants of the
definition that follows them; nothing in the specifications uses them.

## 3. Runs

| Run | Question | Bounds |
| --- | --- | --- |
| TransportFaults | Under all faults: does an exchange leave anything behind, can a call get another's response, is an indication lost or doubled? | 2 callers, 2 callback threads (one nesting), 2 calls, 2 indications, queue of 1 |
| TransportLive | Does every call return and every indication arrive, in order? | 2 callers, 1 nesting callback thread, 3 calls, 2 indications, queue of 2 |
| TransportRpc | Does the transport implement `CommandApi` when the NCP emits no indication? | 2 callers, 4 calls |
| ResponseOverwritten | README.md:54 "thread safe": does every call get its own response? **No.** | 1 caller, 1 indication |
| FullQueue | ncp.h:63: is a callback that finds the queue full lost? **No: the poll thread blocks.** | queue of 1, 3 indications, 1 nested call |
| LostCommand | cpc-host.c:140: does a response that does not come end the process? **No: it waits for ever.** | 1 caller, lost writes |
| OtaLive | The application and the server together: does a process of either kind always complete, unless it is stalled (see OtaClientAbort), and keep the contract of the header; are segments, retries and asserts right; does the target hold the image after a success, also when the image may be freed on the way? | image of 3 bytes in 2 segments, the last one shorter; limits of 1 stack error and 2 unicast errors; one process, one image; 557,894 states |
| OtaRestart | Is each of two processes completed once, and the second not moved by messages of the first, with an abort and a restart before the old event thread has ended? Is the second forgotten, do its retries end, does an event thread send out of turn or for a process that is over? Does the contract hold across both? Is the invariant of the proofs true? | 2 processes, 1 abort, 2 messages with the target, image of 1 segment, limits of 2 and 1 errors; 5,473,878 states |
| OtaClientAbort | server.c:366 "Check if client aborted or refused": does a process complete whose target answers a segment with ABORTED? **Not when the answer comes before the sent callback: it waits for ever.** | as OtaLive, the server alone, limits of 2 errors, distribution only |
| OtaTxInterval | config.h:45: does it work with an interval of 1000 ms? **No: no event is scheduled after the first, which is 1 ns ahead.** | as OtaLive, the server alone, limits of 2 errors |
| OtaAssert | Can an assert of the server fail? **Yes, when an abort meets the handler.** | 1 process, 1 abort, callbacks and aborts during the handler |
| CspSession | Do host and NCP always understand each other? | all commands and indications, least and largest arguments, 1 indication pending, 1 restart |

Why the bounds are enough. In the transport the mutex lets one exchange run at a time, so a
call can only be disturbed by the one before it, by indications and by faults:
two calls and two indications already give every pair, and a queue of one
is full after one. In the OTA server a segment is first, in between or last; two
segments give a first that is not last and a last, a handshake may ask to start at
either, and an error limit of two separates "first error", "limit reached" and "reset in
between": `OtaRestart` has it for the stack errors, `OtaLive` for the unicast errors, and the
invariants of the retries are checked in both. In the session, fields are independent, so the least and largest values of each kind,
different at each position, would show a field that is swapped, cut or read at
the wrong place; all integers of 16 and 32 bits are covered by proof.

Deadlock is checked except where the system may really stop: `TransportFaults`
(a command that was lost is waited for without end), `FullQueue`,
`LostCommand`, `OtaAssert` and `OtaTxInterval`, which show that it does. Elsewhere a server may
rest (`Resting`) when it is idle, when an assert has ended it, and when its process is `Stalled`.

An abort during the handshake is refused with INVALID_CALL, and the process goes on: the
macros of `ota-unicast-bootloader-server-internal.h:57` do not count the handshake as a part of a
distribution. `ota-unicast-bootloader-server.h:132` promises this result only when no process runs.
`AbortCurrentProcess` does what the code does.

Fairness. Each thread is weakly fair: they are POSIX threads under a preemptive
scheduler, and each of their steps stays enabled until it is taken. The NCP
answers what it received and the poll thread runs; timers expire; the NCP
reports every message it accepted. Nothing is assumed about new calls, indications,
aborts, faults, or about the target, which may be silent for ever.

Restrictions of the checked instances, and why:

 * `OtaLive` and `OtaRestart` run callbacks and aborts only while every event thread
   sleeps (`Races` without "during handler"). The code does not ensure this. Without
   the restriction an assert fails (`OtaAssert`), a sent callback that comes before the
   state is `PENDING` is ignored and the process hangs, and a response between
   `PENDING` and the store of `sentSegment` is compared with the wrong segment.
 * All runs of the OTA server have a target that never answers the last segment with ONGOING,
   nor another one with COMPLETED, and that asks to start at a segment of the image
   (`ConformingTarget`). It may answer each segment with any other status, FAILED and ABORTED
   among them. After an ONGOING answer to the last segment the server would send a
   segment past the image (`ota-unicast-bootloader-server.c:524`).
 * `NeverForgotten` and `ProcessCompletes` except a process that is `Stalled`: the target answered
   a segment with FAILED or ABORTED before the message was reported as sent. The
   server does not complete such a process; `OtaClientAbort` states that it should, and TLC finds
   the counterexample. When the report comes first, its response timeout is set and
   the process goes on: `ProcessCompletes` says so.
 * `SinkApp`: `bootloader_unicast_distribute` is given the size of the loaded file (the code
   takes any number from the command line); a file is loaded only between processes
   (`LoadAnyTime = FALSE`). The code prevents neither. With `LoadAnyTime = TRUE` and two
   images TLC finds `DeliveredImage` violated: the target gets segments of both and
   the server reports SUCCESS. The copy of a segment is one step: freeing the image inside
   it would be undefined behaviour. Opening and allocation may fail, reading does not.
 * Every process has a tag of its own. An operator who gives two processes the same tag
   takes from the server the only thing that tells their responses apart.
 * In the short mode payloads are at most 255 bytes, as `csp-format.c:282` demands.
 * `CommandReadBack`, `ResponseReadBack` and `IndicationReadBack` are about what was sent with
   one exception: the short address of an `EmberMacAddress` that the host reads
   (`emberMacGetParentAddress`, `emberGetChildInfo`, three indications) is lost, as described under
   `CspFormat` in 2. The properties say what is handed over in its place.
 * Garbled indications are excluded from `IndicationReadBack`: the callback thread reads the
   length mode without the mutex and may read an indication in another mode
   than it was sent in.

## 4. Proofs

What is proved holds for every number of threads, calls, indications, queue
size and set of faults that `TransportAssumption` admits.

 * `TypeCorrect`, `MutexHolds`, `NoStaleExchangeHolds`, `NeverAnothersResponseHolds`.
   None of the last three is inductive alone. `TransportInv` is: threads inside
   the critical section are exactly the lock's holder (`MutualExclusion`); whatever is
   on the link, in the poll thread's hand or announced on the pipe belongs to the call the
   holder waits for (`NoStaleExchange`); there is at most one such thing
   (`SingleExchange`), without which taking one response off the link could
   leave another; and what is in the buffers, when it is a response, is the
   holder's (`OwnBuffers`). `InvInit` and `InvStep` prove it, one step per action.
 * `OwnResponseHolds`: with an NCP that sends nothing but responses (`QuietLink`),
   a call that returns has its own response. `QuietInv` adds to `TransportInv` that
   the poll thread never has anything else in hand, so that the response stays in
   `responseBuffer` until it is copied. Without the assumption it is false
   (`ResponseOverwritten`).
 * `CallsAreSerialised`: with `QuietLink` and no lost command, the transport implements
   `CommandApi` without its liveness. From `QuietInv`: a command on the link belongs to
   the holder (`OneInside`), so its call turns "served" when the NCP takes it and no other
   call is served; at most one thread is inside, so a step changes the phase of one
   call only. A lost command would count as served, hence the assumption.
 * `ExactlyOnceHolds`: no indication is lost or handled twice, under every fault. An
   indication moves from the link to the poll thread's hand, to the queue, to the batch of
   a callback thread, to what is handled. `OnceInv` says that each one emitted is one
   entry of one of these sites, which `ExactlyOnce`, a property of what is handled, does not by
   itself, and that a thread empties its batch before it reads another (`BatchesUsedUp`). The
   moves between sites are lemmas of their own (`Moved`, `MovedAll`, `Added`, `Dropped`),
   each cited by the actions that make it.
 * `CallbackFifoHolds`: with one callback thread, the sequences of those sites one after another
   are what the NCP emitted, in order (`FifoInv`). With two threads it is false: each has a
   batch of its own.
 * Serialization: `ReadBack`. A frame gives back its identifier and its fields, for every
   format of the letters in use, every identifier and all values that fit the format
   (`Sendable`), when it is read in the mode it was written in or has no length. An array longer
   than its buffer comes back cut, its length with it, and the variable a later field is read over holds what
   that field leaves in it (`Expected`). A field that is stored and fetched comes back
   (`FieldReadBack` and the lemmas of each kind), wherever it stands among other bytes (`Holds`).
   What a frame is and what is taken of it are folds over the format, and an induction over data
   with a predicate is out of the provers' reach: the folds are described instead by functions
   that give the bytes before each field (`Joins`) and what is taken of the first fields,
   and the induction is over the set of numbers for which two such functions agree
   (`AllNumbers`, from the well-foundedness of the naturals).
 * The session: `ModesAgreeHolds`, `CommandReadBackHolds`, `ResponseReadBackHolds`,
   `IndicationReadBackHolds` and `TypeOKHolds`, for any number of pending indications and of restarts
   (`SessionConstants` is all that is assumed). What they say is handed over is what was sent, but
   for the short address of a MAC address that the host reads (see 3). Values are the least and largest of each kind, as
   in the model; `ReadBack` is about all. `SessionInv` says for each stage of a call whose frame is
   on its way, in which mode it was written and what has been read of it (`CallOK`). None of the
   properties is inductive without: that the modes agree again when the host has read the answer
   to a switch depends on that answer being read as it was written, hence on the modes before it.
   The rest is about the catalogues: identifiers are distinct, so that a frame
   finds its command (`CommandsGood`, `IndicationsGood`); lengths stand before their arrays;
   no format has more than 20 fields or two large arrays, so that every frame fits the 2096 bytes of
   the command buffer (`WireFits`). TLC found `SessionInv` true with the constants of `CspSession`
   before it was proved.
 * `RoundTrip16`, `RoundTrip32`: storing and fetching integers in either byte order
   gives them back, for all values.
 * OTA server: `TypeCorrect` for every timing; `CompletedOnceHolds`, `ErrorsBoundedHolds`,
   `NoAssertFailsHolds` and `SentInTurnHolds` when no callback and no abort runs inside the handler
   (`"during handler" \notin Races`, see 3; an early restart is admitted);
   `IInvHolds`, `NoSegmentSkippedHolds`, `OnlySegmentsOfTheImageHolds` and
   `ImplementsOtaProcessHolds` with a conforming target as well. They hold for every number of
   processes, threads, aborts and messages with the target, all limits and image sizes.
   None is inductive alone. `IInv` has four parts. `TypeInv`: the types of globals,
   messages and history. `ControlInv`: the counters are below their limits while a process
   runs and nothing is due when none does; of all event threads that have not ended,
   at most one is creating its timer or handling an event, and the server is in a state its branch
   is for. Without the last, a thread left over from an aborted process could act for
   the next. `MessagesInv`: a segment message of the current process was sent when the server
   had come to its segment, the target has what it answered, and an answer is true of
   it; messages of earlier processes bear another tag. Without it, a late answer could
   stand for a segment the target has not got. `PositionInv` and `StoredInv`: the
   server is at a segment of the image, and the segment it compares answers with is
   the one it sent, except between two assignments of the handler. `OtaRestart` checks
   `IInv` itself. The bootload response is taken without comparison of its tag
   (server.c:231): that is why the contract does not say that a target whose bootload request
   reported SUCCESS accepted this very request.
 * `NeverForgottenHolds`: whenever all event threads sleep and a process runs, its timer
   is set or expired with an event due, or the NCP has yet to report a message, or the process is
   `Stalled`, by a target that gave up on a segment before it was reported as sent. This is what
   `ProcessCompletes` rests on: without it fairness has nothing to act on. `GoesOnInv` adds to `IInv`
   that the process' own event thread has not ended and owns the timer (`OwnerInv`); that in a state
   an event ends the event is due or a thread is at it (`DueInv`); that in a state a report
   ends, and already between the call that sends and the change of state, there is a message to be reported
   or a report to be looked at (`ReportsInv`). Assumed are `ConformingTarget`, no callback inside the
   handler, and `ShortDelays`. It excludes delays of a second and more: the response timeout is 250 ms in
   the code and the interval is 100 ms by default, and `OtaTxInterval` shows that with 1000 a process
   does not go on. TLC found `GoesOnInv` true with the constants of `OtaRestart` before it was proved.
 * The application: `SinkServes`, each step of the sink application is a step of the server or a
   stutter, so that all of the above holds in it. `DeliveredImageHolds`, with a conforming
   target and no file loaded while a process runs (with `LoadAnyTime` it is false, see 3): `ImageInv` adds to
   `IInv` that each segment under way carries the bytes of the image at its place (`CargoInv`), that all
   of them, and what the target holds, are of one image (`OneImageInv`), that the target holds the
   bytes of every segment it received (`StoredBytes`), and that after a success it has received
   all from the first one it asked for (`ReceivedAll`).
 * `OtaRequestReadBack`, `OtaResponseReadBack`: the layout of the messages gives back what was
   put in, whatever the reserved bit. `SegmentMessageFits`: for every image of at most
   `MAXIMUM_IMAGE_SIZE` the 32-bit arithmetic does not wrap, each message fits the buffer it is
   built in, and no segment has the number 0xFFFF. The lengths are those of the security
   option being defined or not: `ota-unicast-bootloader-common-internal.h:40` asks whether
   the option is defined, so that setting it to 0 still selects the secured ones.
 * `DelayKeepsDeadline`: each bootload request, first or retried, carries what is left until
   the deadline, across a wrap of the millisecond clock, for delays below 2^31 ms and
   retries up to 2^31 ms after the deadline. `LongDelayIsLost`: a longer delay is sent as zero.
 * `ReadingShown`: a temperature (other than the least `int32_t`, whose `abs` is undefined)
   and a humidity are shown with the sign, whole part and decimals they have.
 * `TextFits`, `FrameShownWhole`, `TraceStaysInBuffer`: the text of a frame stays in
   its buffer, and so do all texts of a log line. A frame of at least two bytes is shown whole
   when there is room; one of a single byte is shown empty, as `log.c:85` ("We can't write at
   least one byte") asks for one character more than a byte takes.
 * `PrefixMatched`, `BitsCopied`, `StringsCompared`: the bit and string helpers, with the limits
   their 8-bit variables set: 2048 bits are not copied (`byte-utilities.c:169`), and bytes that differ
   by more than 127 compare the wrong way round (`byte-utilities.c:139`).
 * `SegmentsTile`: for every image size and payload length, the byte ranges the server
   asks the application for are non-empty, fit in a message, follow one another and
   end with the image.

Only model-checked: everything about fairness (`CallReturns`, `IndicationDelivered`,
`ProcessCompletes`, the liveness of the refinement of `CommandApi`) and `ENABLED`, which the
provers do not reach. Every invariant and action property of a run that
expects none to be violated is a theorem as well.

## 5. Not modelled

 * Start-up and initialisation (sequential, before threads), weak stubs and the
   callback dispatcher (straight calls), public headers (declarations).
 * Of the log: levels, colours, a null frame, and the checks that end the process; the backtrace.
 * Of the application: the commands that call one API function and print what it returns, and
   the parsing of their arguments.
 * Of the serialization: the unused letter `p` and `computeCommandLength`, null pointers.
 * Of the byte utilities: `emMemoryByteCompare`, `emberReverseMemCopy`, `emStrlen`.
 * The contents of error returns of system calls that end in `FATAL`; the descriptors and
   threads that ended processes leave behind.

## 6. Plan

Done: the transport, the protocol and the OTA server, the contract of the OTA server and
its refinement, the application's image, messages, log and helpers, with theorems for all invariants
that are checked.
What is left, most important first:

 1. What still holds of the OTA server when a callback or an abort runs inside the handler: the
    theorems exclude it, but for `TypeCorrect`.
 2. The session with any values instead of the least and largest: `ReadBack` already admits them.
 3. The hazard of 8-bit lengths (`csp-format.c:283`) as a theorem beside `ReadBack`:
    what comes out when a format is given values that do not fit it.
 4. The message send of the OTA server as a call of the transport: a composition in which
    the event thread, the callback thread and the poll thread share the queue.
