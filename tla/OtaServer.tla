------------------------------ MODULE OtaServer ------------------------------
(***************************************************************************)
(* The OTA unicast bootloader server                                       *)
(* (src/ota-unicast-bootloader/ota-unicast-bootloader-server).             *)
(*                                                                         *)
(* One set of unprotected globals (`server`) is used by three kinds of     *)
(* threads: the application's (initiate, abort), the callback thread       *)
(* (message sent, incoming message) and the event threads, one created by  *)
(* each process that is initiated, which sleep on a timerfd and run the    *)
(* event handler.  Each C function that updates the globals is an operator *)
(* from the record of their values to the record of their new values; the  *)
(* event handler is cut into the steps between which another thread can    *)
(* get in: the switch on the state, emberMessageSend (a blocking call to   *)
(* the NCP) and the assignments after it.                                  *)
(*                                                                         *)
(* The NCP and the target node are external.  Messages of another endpoint *)
(* or node are dropped by the first tests of the callbacks and do not      *)
(* appear.  Each process has an image tag of its own, its number.          *)
(***************************************************************************)
EXTENDS Naturals, Sequences

CONSTANTS
  MaxStackErrors,     \* ..._SERVER_MAX_STACK_ERRORS
  MaxUnicastErrors,   \* ..._SERVER_MAX_UNICAST_ERRORS
  TxIntervalMs,       \* ..._SERVER_TX_INTERVAL_MS
  ResponseTimeoutMs,  \* ..._SERVER_RESPONSE_TIMEOUT_MS
  PayloadLength,      \* MAX_SEGMENT_PAYLOAD_LENGTH
  ImageSize,          \* bytes of the image being distributed
  Processes,          \* what the application initiates: a subset of ProcessKinds
  MaxStarts,          \* bound: processes initiated in a behaviour
  MaxAborts,          \* bound: calls of AbortCurrentProcess in a behaviour
  Races,              \* timings the code does not exclude: a subset of RaceKinds
  TargetCap,          \* bound: messages the target has yet to answer
  ConformingTarget    \* TRUE: the target never says ONGOING to the last
                      \* segment, COMPLETED only to that, and asks to start
                      \* at a segment of the image

ProcessKinds == {"image", "bootload"}
RaceKinds == {"during handler",   \* a callback or an abort while an event
                                  \* thread is between two polls
              "early restart"}    \* a process initiated while the event
                                  \* thread of the last one has yet to end

ASSUME OtaAssumption ==
  /\ MaxStackErrors \in Nat \ {0}
  /\ MaxUnicastErrors \in Nat \ {0}
  /\ TxIntervalMs \in 25..1000 /\ ResponseTimeoutMs \in Nat \ {0}
  /\ PayloadLength \in Nat \ {0}
  /\ ImageSize \in Nat \ {0}
  /\ Processes \subseteq ProcessKinds
  /\ MaxStarts \in Nat /\ MaxAborts \in Nat /\ TargetCap \in Nat
  /\ Races \subseteq RaceKinds
  /\ ConformingTarget \in BOOLEAN

EventThreads == 1..MaxStarts

VARIABLES
  server,       \* the globals of ota-unicast-bootloader-server.c, and two
                \* histories: asserted, givenUp (the target gave up on the
                \* segment sent last before the NCP reported it as sent)
  pc,           \* where each event thread stands
  timers,       \* each event thread's timerfd: "off", "armed" or "expired"
  outbox,       \* messages the NCP accepted and has yet to report as sent
  targetBox,    \* messages the target received and has yet to answer
  mail,         \* callbacks on their way to the callback thread
  starts,       \* processes initiated so far
  completions,  \* history: completion callbacks, the status of each
  received,     \* history: segments the target received in this process
  asked,        \* history: where the target asked this process to start
  aborts,       \* calls of AbortCurrentProcess so far
  abortResult   \* what the last of them returned, and the state it met

world == <<outbox, targetBox, mail, received>>
vars == <<server, pc, timers, world, starts, completions, asked, aborts, abortResult>>

-----------------------------------------------------------------------------
(* Byte ranges of the segments.                                            *)

GetTotalSegmentsCount(size) ==
  size \div PayloadLength + (IF size % PayloadLength > 0 THEN 1 ELSE 0)

SegmentStart(n) == n * PayloadLength

SegmentEnd(n, size) ==
  LET end == SegmentStart(n) + PayloadLength - 1
  IN  IF end >= size THEN size - 1 ELSE end

TotalSegments == GetTotalSegmentsCount(ImageSize)

ImageDistributionStates ==
  {"SEGMENT_INTERVAL", "SEGMENT_PENDING", "SEGMENT_WAITING"}
BootloadRequestStates ==
  {"BOOTLOAD_INTERVAL", "BOOTLOAD_PENDING", "BOOTLOAD_WAITING"}
HandshakeStates ==
  {"HANDSHAKE_INTERVAL", "HANDSHAKE_PENDING", "HANDSHAKE_WAITING"}
ServerStates ==
  {"IDLE"} \cup ImageDistributionStates \cup BootloadRequestStates \cup HandshakeStates

-----------------------------------------------------------------------------
(* The functions that update the globals.  `outcome` is what a function    *)
(* does besides: "armed" (it set the timer), "image" or "bootload" with a  *)
(* status (it called that completion callback), "asserted" (an assert      *)
(* failed).                                                                *)

Quietly(s)           == [globals |-> s, outcome |-> "none", status |-> "none"]
AssertFails(s)       == [globals |-> s, outcome |-> "asserted", status |-> "none"]

(* The delay goes into the nanoseconds of a timespec: timerfd_settime      *)
(* refuses a whole second, and its result is not looked at.                *)
ScheduleNextEvent(s, ms) ==
  [globals |-> [s EXCEPT !.active = TRUE],
   outcome |-> IF ms * 1000000 <= 999999999 THEN "armed" ELSE "none", status |-> "none"]

Finished(s, kind, status) ==
  [globals |-> [s EXCEPT !.active = FALSE, !.state = "IDLE"],
   outcome |-> kind, status |-> status]
ImageDistributionProcessFinished(s, status) == Finished(s, "image", status)

\* Mutant: the state is not reset.
FinishedNotIdle(s, status) ==
  [Finished(s, "bootload", status) EXCEPT !.globals.state = s.state]

BootloadRequestProcessFinished(s, status) == Finished(s, "bootload", status)

\* Mutant: one attempt too many.
OneSendMore(s) == s.stackErrors > MaxStackErrors

StackExhausted(s) == s.stackErrors >= MaxStackErrors

\* Mutant: one attempt too many.
OneAttemptMore(s) == s.targetErrors > MaxUnicastErrors

TargetUnreachable(s) == s.targetErrors >= MaxUnicastErrors

ScheduleImageDistributionProcessNextTask(s, newSegment) ==
  CASE s.state \in {"HANDSHAKE_INTERVAL", "SEGMENT_INTERVAL"} ->
         IF StackExhausted(s) THEN ImageDistributionProcessFinished(s, "STACK_ERROR")
         ELSE IF TargetUnreachable(s) THEN ImageDistributionProcessFinished(s, "UNREACHABLE")
         ELSE ScheduleNextEvent(s, TxIntervalMs)
    [] s.state = "SEGMENT_WAITING" ->
         IF newSegment /\ s.nextSegment >= TotalSegments
         THEN Quietly([s EXCEPT !.nextSegment = 0, !.stackErrors = 0,
                                !.targetErrors = 0])
         ELSE LET n == [s EXCEPT !.nextSegment = IF newSegment THEN @ + 1 ELSE @,
                                 !.state = "SEGMENT_INTERVAL"]
              IN  IF TargetUnreachable(n)
                  THEN ImageDistributionProcessFinished(n, "UNREACHABLE")
                  ELSE ScheduleNextEvent(n, TxIntervalMs)
    [] s.state = "HANDSHAKE_WAITING" ->
         IF TargetUnreachable(s)
         THEN ImageDistributionProcessFinished(s, "UNREACHABLE")
         ELSE ScheduleNextEvent([s EXCEPT !.state = "HANDSHAKE_INTERVAL"], TxIntervalMs)
    [] OTHER -> AssertFails(s)

(* response = "none" when the target did not respond.                      *)
ScheduleBootloadRequestProcessNextTask(s, response) ==
  CASE s.state \notin BootloadRequestStates  -> AssertFails(s)
    [] s.state \in BootloadRequestStates /\ StackExhausted(s) ->
         BootloadRequestProcessFinished(s, "STACK_ERROR")
    [] OTHER ->
         CASE response = "COMPLETED" -> BootloadRequestProcessFinished(s, "SUCCESS")
           [] response = "REFUSED"   -> BootloadRequestProcessFinished(s, "REFUSED")
           [] response = "none" ->
                IF TargetUnreachable(s)
                THEN BootloadRequestProcessFinished(s, "UNREACHABLE")
                ELSE ScheduleNextEvent([s EXCEPT !.state = "BOOTLOAD_INTERVAL"], TxIntervalMs)
           [] OTHER -> BootloadRequestProcessFinished(s, "FAILED")

\* Mutant: the segment of the response is not compared.
AnySegmentResponse(s, m) ==
  CASE m.status \in {"OUT_OF_SEQ", "REFUSED"} -> ImageDistributionProcessFinished(s, "FAILED")
    [] m.status = "ONGOING"    ->
         ScheduleImageDistributionProcessNextTask(
           [s EXCEPT !.targetErrors = 0, !.active = FALSE], TRUE)
    [] m.status = "COMPLETED"  -> ImageDistributionProcessFinished(s, "SUCCESS")
    [] OTHER -> Quietly(s)

HandleSegmentResponse(s, m) ==
  CASE m.status = "OUT_OF_SEQ" -> ImageDistributionProcessFinished(s, "FAILED")
    [] m.status = "REFUSED"    -> ImageDistributionProcessFinished(s, "REFUSED")
    [] m.status = "ONGOING"    ->
         IF m.segment = s.sentSegment
         THEN ScheduleImageDistributionProcessNextTask(
                [s EXCEPT !.targetErrors = 0, !.active = FALSE], TRUE)
         ELSE ImageDistributionProcessFinished(s, "FAILED")
    [] m.status = "COMPLETED"  -> ImageDistributionProcessFinished(s, "SUCCESS")
    [] OTHER -> Quietly(s)

\* Mutant: the response is taken for the last segment the target has.
HandshakeOffByOne(s, m) ==
  IF m.status # "ONGOING" THEN ImageDistributionProcessFinished(s, "FAILED")
  ELSE ScheduleImageDistributionProcessNextTask(
         [s EXCEPT !.nextSegment = m.segment + 1, !.targetErrors = 0,
                   !.state = "SEGMENT_INTERVAL"], TRUE)

HandleHandshakeResponse(s, m) ==
  CASE m.status = "REFUSED" -> ImageDistributionProcessFinished(s, "REFUSED")
    [] m.status = "ONGOING" ->
         ScheduleImageDistributionProcessNextTask(
           [s EXCEPT !.nextSegment = m.segment, !.targetErrors = 0,
                     !.state = "SEGMENT_INTERVAL"], TRUE)
    [] OTHER -> ImageDistributionProcessFinished(s, "FAILED")

\* Mutant: a response that overtakes the sent callback is not expected.
NotBeforeSent(s, m, tag) ==
  CASE m.command = "HANDSHAKE" /\ s.state = "HANDSHAKE_WAITING" /\ m.tag = tag ->
         HandleHandshakeResponse(s, m)
    [] /\ m.command = "SEGMENT" /\ m.tag = tag
       /\ s.state \in {"SEGMENT_PENDING", "SEGMENT_WAITING"} -> HandleSegmentResponse(s, m)
    [] m.command = "BOOTLOAD" /\ s.state = "BOOTLOAD_WAITING" ->
         ScheduleBootloadRequestProcessNextTask(s, m.status)
    [] OTHER -> Quietly(s)

\* Mutant: the image tag is not compared.
AnyTag(s, m, tag) ==
  CASE m.command = "HANDSHAKE" /\ s.state = "HANDSHAKE_WAITING" ->
         HandleHandshakeResponse(s, m)
    [] m.command = "SEGMENT" /\ s.state \in {"SEGMENT_PENDING", "SEGMENT_WAITING"} ->
         HandleSegmentResponse([s EXCEPT !.state = "SEGMENT_WAITING"], m)
    [] m.command = "BOOTLOAD" /\ s.state = "BOOTLOAD_WAITING" ->
         ScheduleBootloadRequestProcessNextTask(s, m.status)
    [] OTHER -> Quietly(s)

(* The statuses HandleSegmentResponse has no branch for.                   *)
GivesUp(m) == m.status \in {"FAILED", "ABORTED"}

(* A response to a segment ends the wait for its sent callback.            *)
TakenAsSent(s, m) ==
  [s EXCEPT !.state = "SEGMENT_WAITING",
            !.givenUp = @ \/ (s.state = "SEGMENT_PENDING" /\ GivesUp(m))]

(* All responses but that to a bootload request must bear the tag of the   *)
(* current process.                                                        *)
IncomingMessage(s, m, tag) ==
  CASE m.command = "HANDSHAKE" /\ s.state = "HANDSHAKE_WAITING" /\ m.tag = tag ->
         HandleHandshakeResponse(s, m)
    [] /\ m.command = "SEGMENT" /\ m.tag = tag
       /\ s.state \in {"SEGMENT_PENDING", "SEGMENT_WAITING"} ->
         HandleSegmentResponse(TakenAsSent(s, m), m)
    [] m.command = "BOOTLOAD" /\ s.state = "BOOTLOAD_WAITING" ->
         ScheduleBootloadRequestProcessNextTask(s, m.status)
    [] OTHER -> Quietly(s)

\* Mutant: a message that was not acknowledged is not counted.
NoAckNotCounted(s, status) ==
  [s EXCEPT !.stackErrors = IF status = "NO_ACK" THEN 0 ELSE @ + 1]

\* Mutant: the stack errors are counted down.
CountedDown(s, status) ==
  IF status = "NO_ACK"
  THEN [s EXCEPT !.targetErrors = @ + 1, !.stackErrors = 0]
  ELSE [s EXCEPT !.stackErrors = @ - 1]

CountSendError(s, status) ==
  IF status = "NO_ACK"
  THEN [s EXCEPT !.targetErrors = @ + 1, !.stackErrors = 0]
  ELSE [s EXCEPT !.stackErrors = @ + 1]

\* Mutant: the response timeout is not scheduled.
AwaitForever(s, waiting) == Quietly([s EXCEPT !.stackErrors = 0, !.state = waiting])

AwaitResponse(s, waiting) ==
  ScheduleNextEvent([s EXCEPT !.stackErrors = 0, !.state = waiting], ResponseTimeoutMs)

MessageSent(s, m) ==
  CASE m.command = "HANDSHAKE" /\ s.state = "HANDSHAKE_PENDING" ->
         IF m.status = "SUCCESS"
         THEN AwaitResponse(s, "HANDSHAKE_WAITING")
         ELSE ScheduleImageDistributionProcessNextTask(
                [CountSendError(s, m.status) EXCEPT !.state = "HANDSHAKE_INTERVAL"], FALSE)
    [] m.command = "SEGMENT" /\ s.state = "SEGMENT_PENDING" ->
         IF m.status = "SUCCESS"
         THEN AwaitResponse(s, "SEGMENT_WAITING")
         ELSE ScheduleImageDistributionProcessNextTask(
                [CountSendError(s, m.status) EXCEPT !.state = "SEGMENT_INTERVAL"], FALSE)
    [] m.command = "BOOTLOAD" /\ s.state = "BOOTLOAD_PENDING" ->
         IF m.status = "SUCCESS"
         THEN AwaitResponse(s, "BOOTLOAD_WAITING")
         ELSE ScheduleBootloadRequestProcessNextTask(CountSendError(s, m.status), "none")
    [] OTHER -> Quietly(s)

(* The effect of one of the functions above on the state.                  *)
Apply(r) ==
  /\ server' = [r.globals EXCEPT !.asserted = r.outcome = "asserted"]
  /\ timers' = IF r.outcome = "armed"
               THEN [timers EXCEPT ![server.timerFd] = "armed"] ELSE timers
  /\ completions' = IF r.outcome \in ProcessKinds
                    THEN Append(completions, [kind |-> r.outcome, status |-> r.status])
                    ELSE completions

-----------------------------------------------------------------------------
Init ==
  /\ server = [state |-> "IDLE", sentSegment |-> 0, stackErrors |-> 0,
               targetErrors |-> 0, nextSegment |-> 0, active |-> FALSE,
               timerFd |-> 0, asserted |-> FALSE, givenUp |-> FALSE]
  /\ pc = [n \in EventThreads |-> "none"]
  /\ timers = [n \in EventThreads |-> "off"]
  /\ outbox = <<>> /\ targetBox = <<>> /\ mail = <<>>
  /\ starts = 0
  /\ completions = <<>>
  /\ received = {}
  /\ asked = {}
  /\ aborts = 0
  /\ abortResult = [result |-> "none", state |-> "IDLE"]

Goto(n, label) == pc' = [pc EXCEPT ![n] = label]

(* Every event thread sleeps in poll() or read(), or has ended.            *)
Quiescent ==
  \A n \in EventThreads :
    \/ pc[n] \in {"none", "poll", "done"}
    \/ pc[n] = "read" /\ timers[server.timerFd] # "expired"
MayInterrupt == Quiescent \/ "during handler" \in Races
(* ... and none of them will wake up any more.                             *)
Settled ==
  \A n \in EventThreads : pc[n] \in {"none", "done"} \/ (pc[n] = "poll" /\ timers[n] = "off")

-----------------------------------------------------------------------------
(* The application.                                                        *)

(* InitiateImageDistribution and InitiateRequestTargetBootload: BUSY when  *)
(* the server is not idle.                                                 *)
Initiate(kind) ==
  /\ kind \in Processes
  /\ starts < MaxStarts
  /\ server.state = "IDLE"
  /\ Settled \/ "early restart" \in Races
  /\ starts' = starts + 1
  /\ server' = [server EXCEPT
       !.nextSegment = 0, !.stackErrors = 0, !.targetErrors = 0,
       !.state = IF kind = "image" THEN "HANDSHAKE_INTERVAL" ELSE "BOOTLOAD_INTERVAL"]
  /\ Goto(starts + 1, "create")
  /\ received' = {}
  /\ asked' = {}
  /\ UNCHANGED <<timers, outbox, targetBox, mail, completions, aborts, abortResult>>

AbortCurrentProcess ==
  /\ aborts < MaxAborts
  /\ MayInterrupt
  /\ aborts' = aborts + 1
  /\ \/ /\ server.state \in ImageDistributionStates
        /\ Apply(ImageDistributionProcessFinished(server, "ABORTED"))
        /\ abortResult' = [result |-> "SUCCESS", state |-> server.state]
     \/ /\ server.state \in BootloadRequestStates
        /\ Apply(BootloadRequestProcessFinished(server, "ABORTED"))
        /\ abortResult' = [result |-> "SUCCESS", state |-> server.state]
     \/ /\ server.state \notin ImageDistributionStates \cup BootloadRequestStates
        /\ abortResult' = [result |-> "INVALID_CALL", state |-> server.state]
        /\ UNCHANGED <<server, timers, completions>>
  /\ UNCHANGED <<pc, world, starts, asked>>

-----------------------------------------------------------------------------
(* The callback thread.                                                    *)

MessageSentCallback ==
  /\ mail # <<>> /\ Head(mail).type = "sent"
  /\ MayInterrupt
  /\ mail' = Tail(mail)
  /\ Apply(MessageSent(server, Head(mail)))
  /\ UNCHANGED <<pc, outbox, targetBox, received, starts, asked, aborts, abortResult>>

IncomingMessageCallback ==
  /\ mail # <<>> /\ Head(mail).type = "response"
  /\ MayInterrupt
  /\ mail' = Tail(mail)
  /\ Apply(IncomingMessage(server, Head(mail), starts))
  /\ UNCHANGED <<pc, outbox, targetBox, received, starts, asked, aborts, abortResult>>

-----------------------------------------------------------------------------
(* An event thread.                                                        *)

(* timerfd_create into the global, and a first event at once.              *)
CreateTimer(n) ==
  /\ pc[n] = "create"
  /\ Goto(n, "check")
  /\ server' = [server EXCEPT !.timerFd = n, !.active = TRUE]
  /\ timers' = [timers EXCEPT ![n] = "armed"]
  /\ UNCHANGED <<world, starts, completions, asked, aborts, abortResult>>

(* while (!serverIsIdle())                                                 *)
CheckIdle(n) ==
  /\ pc[n] = "check"
  /\ Goto(n, IF server.state = "IDLE" THEN "done" ELSE "poll")
  /\ UNCHANGED <<server, timers, world, starts, completions, asked, aborts, abortResult>>

(* poll() watches the thread's own timer ...                               *)
PollTimer(n) ==
  /\ pc[n] = "poll"
  /\ timers[n] = "expired"
  /\ Goto(n, "read")
  /\ UNCHANGED <<server, timers, world, starts, completions, asked, aborts, abortResult>>

(* ... but read() takes the expiration of the one the global names.        *)
ReadTimer(n) ==
  /\ pc[n] = "read"
  /\ timers[server.timerFd] = "expired"
  /\ timers' = [timers EXCEPT ![server.timerFd] = "off"]
  /\ Goto(n, "loop")
  /\ UNCHANGED <<server, world, starts, completions, asked, aborts, abortResult>>

(* while (ota_event_is_active): the handler clears the flag and looks at   *)
(* the state.                                                              *)
HandlerFor(state) ==
  CASE state = "HANDSHAKE_INTERVAL" -> "sendHandshake"
    [] state = "SEGMENT_INTERVAL"   -> "sendSegment"
    [] state = "BOOTLOAD_INTERVAL"  -> "sendBootload"
    [] state \in {"HANDSHAKE_WAITING", "SEGMENT_WAITING"} -> "imageTimeout"
    [] state = "BOOTLOAD_WAITING"   -> "bootloadTimeout"
    [] OTHER -> "loop"

\* Mutant: the flag is not cleared.
EventStaysActive(n) ==
  /\ pc[n] = "loop"
  /\ Goto(n, IF server.active THEN HandlerFor(server.state) ELSE "check")
  /\ UNCHANGED <<server, timers, world, starts, completions, asked, aborts, abortResult>>

EventHandler(n) ==
  /\ pc[n] = "loop"
  /\ \/ /\ server.active
        /\ server' = [server EXCEPT !.active = FALSE]
        /\ Goto(n, HandlerFor(server.state))
     \/ /\ ~server.active
        /\ Goto(n, "check")
        /\ UNCHANGED server
  /\ UNCHANGED <<timers, world, starts, completions, asked, aborts, abortResult>>

(* emberMessageSend: the NCP accepts the message or not.                   *)
Send(n, command, segment, accepted, refused) ==
  /\ \/ /\ outbox' = Append(outbox, [command |-> command, segment |-> segment, tag |-> starts,
                                   got |-> FALSE])
        /\ Goto(n, accepted)
     \/ /\ UNCHANGED outbox
        /\ Goto(n, refused)
  /\ UNCHANGED <<server, timers, targetBox, mail, received, starts, completions,
                 asked, aborts, abortResult>>

UnicastHandshake(n) ==
  pc[n] = "sendHandshake" /\ Send(n, "HANDSHAKE", 0, "handshakeSent", "imageSendFailed")

UnicastNextSegment(n) ==
  pc[n] = "sendSegment" /\ Send(n, "SEGMENT", server.nextSegment, "segmentSent", "imageSendFailed")

RequestTargetForBootload(n) ==
  pc[n] = "sendBootload" /\ Send(n, "BOOTLOAD", 0, "bootloadSent", "bootloadSendFailed")

(* The application cannot supply the segment.                              *)
DataUnderflow(n) ==
  /\ pc[n] = "sendSegment"
  /\ Goto(n, "loop")
  /\ Apply(ImageDistributionProcessFinished(server, "DATA_UNDERFLOW"))
  /\ UNCHANGED <<world, starts, asked, aborts, abortResult>>

SegmentPending(s) == [s EXCEPT !.state = "SEGMENT_PENDING", !.givenUp = FALSE]

(* After emberMessageSend returned SUCCESS, and only then, the state       *)
(* becomes ..._PENDING; the segment number is stored after that.           *)
SetPending(n) ==
  /\ \/ /\ pc[n] = "handshakeSent"
        /\ server' = [server EXCEPT !.state = "HANDSHAKE_PENDING"]
        /\ Goto(n, "loop")
     \/ /\ pc[n] = "segmentSent"
        /\ server' = SegmentPending(server)
        /\ Goto(n, "storeSegment")
     \/ /\ pc[n] = "storeSegment"
        /\ server' = [server EXCEPT !.sentSegment = server.nextSegment]
        /\ Goto(n, "loop")
     \/ /\ pc[n] = "bootloadSent"
        /\ server' = [server EXCEPT !.state = "BOOTLOAD_PENDING"]
        /\ Goto(n, "loop")
  /\ UNCHANGED <<timers, world, starts, completions, asked, aborts, abortResult>>

StackErrorCounted(s)  == [s EXCEPT !.stackErrors = @ + 1]
TargetErrorCounted(s) == [s EXCEPT !.targetErrors = @ + 1]

(* The branches that count an error and schedule the next task, which      *)
(* reads the state again.                                                  *)
CountAndSchedule(n) ==
  /\ \/ /\ pc[n] = "imageSendFailed"
        /\ Apply(ScheduleImageDistributionProcessNextTask(StackErrorCounted(server), FALSE))
     \/ /\ pc[n] = "imageTimeout"
        /\ Apply(ScheduleImageDistributionProcessNextTask(TargetErrorCounted(server), FALSE))
     \/ /\ pc[n] = "bootloadSendFailed"
        /\ Apply(ScheduleBootloadRequestProcessNextTask(StackErrorCounted(server), "none"))
     \/ /\ pc[n] = "bootloadTimeout"
        /\ Apply(ScheduleBootloadRequestProcessNextTask(TargetErrorCounted(server), "none"))
  /\ Goto(n, "loop")
  /\ UNCHANGED <<world, starts, asked, aborts, abortResult>>

EventThreadStep(n) ==
  \/ CreateTimer(n) \/ CheckIdle(n) \/ PollTimer(n) \/ ReadTimer(n) \/ EventHandler(n)
  \/ UnicastHandshake(n) \/ UnicastNextSegment(n) \/ RequestTargetForBootload(n)
  \/ DataUnderflow(n) \/ SetPending(n) \/ CountAndSchedule(n)

-----------------------------------------------------------------------------
(* The clock, the NCP and the target.                                      *)

TimerExpires(n) ==
  /\ timers[n] = "armed"
  /\ timers' = [timers EXCEPT ![n] = "expired"]
  /\ UNCHANGED <<server, pc, world, starts, completions, asked, aborts, abortResult>>

TargetReceives ==
  /\ outbox # <<>> /\ ~Head(outbox).got
  /\ Len(targetBox) < TargetCap
  /\ outbox' = [outbox EXCEPT ![1].got = TRUE]
  /\ targetBox' = Append(targetBox, Head(outbox))
  /\ received' = IF Head(outbox).command = "SEGMENT" /\ Head(outbox).tag = starts
                 THEN received \cup {Head(outbox).segment} ELSE received
  /\ UNCHANGED <<server, pc, timers, mail, starts, completions, asked, aborts,
                 abortResult>>

(* Every accepted message is reported once: SUCCESS when it was            *)
(* acknowledged, NO_ACK when the message or its acknowledgement was lost,  *)
(* FAILED when it could not be sent.                                       *)
ReportSent(status) ==
  /\ outbox # <<>>
  /\ status = "SUCCESS" => Head(outbox).got
  /\ status = "FAILED" => ~Head(outbox).got
  /\ outbox' = Tail(outbox)
  /\ mail' = Append(mail, [type |-> "sent", command |-> Head(outbox).command,
                           status |-> status])
  /\ UNCHANGED <<server, pc, timers, targetBox, received, starts, completions,
                 asked, aborts, abortResult>>

Statuses == {"COMPLETED", "ONGOING", "FAILED", "REFUSED", "ABORTED", "OUT_OF_SEQ"}

(* The target may end a distribution at any segment.                       *)
SegmentStatuses(segment) ==
  CASE ~ConformingTarget            -> Statuses
    [] segment + 1 = TotalSegments  -> Statuses \ {"ONGOING"}
    [] OTHER                        -> Statuses \ {"COMPLETED"}

(* The status and the segment of a response: in that to a handshake the    *)
(* segment to start at, which only ONGOING tells.                          *)
Answers(m) ==
  CASE m.command = "HANDSHAKE" ->
         {"ONGOING"} \X (0..(IF ConformingTarget THEN TotalSegments - 1 ELSE TotalSegments + 1))
           \cup (Statuses \ {"ONGOING"}) \X {0}
    [] m.command = "SEGMENT" -> SegmentStatuses(m.segment) \X {m.segment}
    [] OTHER -> Statuses \X {0}

TargetAnswers ==
  /\ targetBox # <<>>
  /\ targetBox' = Tail(targetBox)
  /\ \/ \E a \in Answers(Head(targetBox)) :
          /\ mail' = Append(mail, [type |-> "response", command |-> Head(targetBox).command,
                                   status |-> a[1], segment |-> a[2],
                                   tag |-> Head(targetBox).tag])
          /\ asked' = IF /\ Head(targetBox).command = "HANDSHAKE" /\ a[1] = "ONGOING"
                         /\ Head(targetBox).tag = starts
                      THEN asked \cup {a[2]} ELSE asked
     \/ UNCHANGED <<mail, asked>>
  /\ UNCHANGED <<server, pc, timers, outbox, received, starts, completions,
                 aborts, abortResult>>

-----------------------------------------------------------------------------
Callbacks == MessageSentCallback \/ IncomingMessageCallback
Report == \E status \in {"SUCCESS", "NO_ACK", "FAILED"} : ReportSent(status)

(* The one way for a process to stand still: a response that gives up,     *)
(* ahead of the sent callback, takes the server to the state that waits    *)
(* for the response, and the callback, too late, starts no timeout.        *)
Stalled == server.state = "SEGMENT_WAITING" /\ server.givenUp

(* Nothing is left to do: the application may rest between processes, an   *)
(* assert ends everything, and a stalled process waits for ever.           *)
Resting == (server.asserted \/ server.state = "IDLE" \/ Stalled) /\ UNCHANGED vars

Next ==
  \/ /\ ~server.asserted
     /\ \/ \E kind \in ProcessKinds : Initiate(kind)
        \/ AbortCurrentProcess
        \/ Callbacks
        \/ \E n \in EventThreads : EventThreadStep(n) \/ TimerExpires(n)
        \/ TargetReceives \/ Report \/ TargetAnswers
  \/ Resting

Spec == Init /\ [][Next]_vars

(* The threads run, timers expire and the NCP reports every message it     *)
(* accepted.  The target need not receive or answer anything.              *)
Fairness ==
  /\ \A n \in EventThreads : WF_vars(~server.asserted /\ EventThreadStep(n))
  /\ \A n \in EventThreads : WF_vars(~server.asserted /\ TimerExpires(n))
  /\ WF_vars(~server.asserted /\ Callbacks)
  /\ WF_vars(~server.asserted /\ Report)

FairSpec == Spec /\ Fairness

-----------------------------------------------------------------------------
(* Properties.                                                             *)

Labels == {"none", "create", "check", "poll", "read", "loop", "sendHandshake",
           "sendSegment", "sendBootload", "handshakeSent", "segmentSent", "storeSegment",
           "bootloadSent", "imageSendFailed", "bootloadSendFailed", "imageTimeout",
           "bootloadTimeout", "done"}

Globals == [state : ServerStates, sentSegment : Nat, stackErrors : Nat,
            targetErrors : Nat, nextSegment : Nat, active : BOOLEAN,
            timerFd : 0..MaxStarts, asserted : BOOLEAN, givenUp : BOOLEAN]

(* Every variable holds a value of its type.                               *)
TypeOK ==
  /\ server \in Globals
  /\ pc \in [EventThreads -> Labels]
  /\ timers \in [EventThreads -> {"off", "armed", "expired"}]
  /\ starts \in 0..MaxStarts
  /\ aborts \in 0..MaxAborts
  /\ Len(completions) \in Nat

(* Every process that was initiated is completed by exactly one completion *)
(* callback, and by none while it runs.                                    *)
CompletedOnce ==
  Len(completions) = starts - (IF server.state = "IDLE" THEN 0 ELSE 1)

(* The server sends the segments from where the target asked it to start   *)
(* in this process, and moves past one only when the target has received   *)
(* it: no lost, repeated or late message or callback, of this process or   *)
(* of an earlier one, makes it skip a segment.                             *)
NoSegmentSkipped ==
  server.state \in ImageDistributionStates =>
    \E first \in asked :
      /\ first <= server.nextSegment
      /\ \A k \in first..(server.nextSegment - 1) : k \in received

(* The 8-bit error counters stop at their limits: the process ends there.  *)
ErrorsBounded ==
  /\ server.stackErrors <= MaxStackErrors
  /\ server.targetErrors <= MaxUnicastErrors

EventDue ==
  /\ server.active
  /\ \E n \in EventThreads :
       \/ pc[n] \in {"loop"}
       \/ n = server.timerFd /\ timers[n] # "off" /\ pc[n] \in {"check", "poll", "read"}

(* A process that runs is never forgotten, but for a target that gives up  *)
(* on a segment before the sent callback: while an event has to move it    *)
(* on, the event is due and a thread will see it; while a sent callback    *)
(* has to, the callback is still to come.                                  *)
NeverForgotten ==
  Quiescent =>
    /\ server.state \in {"HANDSHAKE_INTERVAL", "SEGMENT_INTERVAL", "BOOTLOAD_INTERVAL",
                         "HANDSHAKE_WAITING", "SEGMENT_WAITING", "BOOTLOAD_WAITING"}
         => EventDue \/ Stalled
    /\ server.state \in {"HANDSHAKE_PENDING", "SEGMENT_PENDING", "BOOTLOAD_PENDING"}
         => \/ outbox # <<>>
            \/ \E i \in DOMAIN mail : mail[i].type = "sent"

(* No assert of the server ever fails.                                     *)
NoAssertFails == ~server.asserted

(* Every process that is initiated completes, unless one is stalled for    *)
(* ever: ProcessCompletes is the rest of what the server owes.             *)
ProcessCompletes ==
  \/ <>[]Stalled
  \/ \A n \in 1..MaxStarts : starts >= n ~> Len(completions) >= n

(* "Check if client aborted or refused the image distribution"             *)
(* (ota-unicast-bootloader-server.c:366): a process whose target answers a *)
(* segment of it with ABORTED completes.                                   *)
AbortByClientCompletes ==
  \A n \in 1..MaxStarts :
    /\ starts = n
    /\ \E i \in DOMAIN mail :
         /\ mail[i].type = "response" /\ mail[i].command = "SEGMENT"
         /\ mail[i].status = "ABORTED" /\ mail[i].tag = n
    ~> Len(completions) >= n

(* The state in which each kind of message is due.                         *)
SendingState == [HANDSHAKE |-> "HANDSHAKE_INTERVAL", SEGMENT |-> "SEGMENT_INTERVAL",
                 BOOTLOAD |-> "BOOTLOAD_INTERVAL"]

(* No event thread sends out of turn: a message goes to the NCP only when  *)
(* its kind is what the process that runs has to send next.  In particular *)
(* nothing is sent for a process that was completed or aborted, though its *)
(* event thread may live on and share the timer of the next process        *)
(* (ota-unicast-bootloader-server.c:68-180, 627-740).                      *)
SentInTurn ==
  [][Len(outbox') > Len(outbox) =>
       server.state = SendingState[outbox'[Len(outbox')].command]]_vars

(* "Send next segment if any left" (ota-unicast-bootloader-server.c:523):  *)
(* every segment sent is a segment of the image.                           *)
OnlySegmentsOfTheImage ==
  \A i \in DOMAIN outbox :
    outbox[i].command = "SEGMENT" => outbox[i].segment < TotalSegments
=============================================================================
