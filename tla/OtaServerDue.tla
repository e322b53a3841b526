----------------------------- MODULE OtaServerDue -----------------------------
(***************************************************************************)
(* A process of the OTA server that runs is never forgotten, for every     *)
(* value of the constants: while it runs, its event is due and a thread    *)
(* will see it, or the report of a message is still to come, or the target *)
(* gave up on a segment before the message was reported as sent.           *)
(***************************************************************************)
EXTENDS OtaServerSafety

(* The delays that a timespec takes as nanoseconds: below a second.        *)
ShortDelays == TxIntervalMs < 1000 /\ ResponseTimeoutMs < 1000

-----------------------------------------------------------------------------
(* What the functions that update the globals do for the process.          *)

(* A result that ends the process or wakes its thread again.               *)
Wakes(s, r) ==
  /\ r.globals.timerFd = s.timerFd
  /\ \/ r.globals.state = "IDLE"
     \/ r.outcome = "armed" /\ r.globals.active /\ r.globals.state \in EventStates

(* A result that changes nothing the process goes on by.                   *)
Leaves(s, r) ==
  /\ r.globals.timerFd = s.timerFd /\ r.globals.state = s.state
  /\ r.globals.active = s.active /\ r.outcome # "armed"
  /\ s.givenUp => r.globals.givenUp

(* A result after which nothing will move the process.                     *)
Halts(s, r) ==
  /\ r.globals.timerFd = s.timerFd
  /\ r.globals.state = "SEGMENT_WAITING" /\ r.globals.givenUp

(* What an update of one field leaves.                                     *)
LEMMA FieldSet ==
  ASSUME NEW s \in Globals, NEW x
  PROVE  /\ [s EXCEPT !.state = x].state = x /\ [s EXCEPT !.state = x].timerFd = s.timerFd
         /\ [s EXCEPT !.active = x].state = s.state
         /\ [s EXCEPT !.active = x].timerFd = s.timerFd
         /\ [s EXCEPT !.active = x].active = x
         /\ [s EXCEPT !.stackErrors = x].state = s.state
         /\ [s EXCEPT !.stackErrors = x].timerFd = s.timerFd
         /\ [s EXCEPT !.targetErrors = x].state = s.state
         /\ [s EXCEPT !.targetErrors = x].timerFd = s.timerFd
         /\ [s EXCEPT !.nextSegment = x].state = s.state
         /\ [s EXCEPT !.nextSegment = x].timerFd = s.timerFd
BY Zenon DEF Globals

LEMMA FinishedWakes ==
  ASSUME NEW s \in Globals, NEW kind, NEW status
  PROVE  Wakes(s, Finished(s, kind, status))
<1> DEFINE a == [s EXCEPT !.active = FALSE]
<1> DEFINE g == [a EXCEPT !.state = "IDLE"]
<1>1. a \in Globals /\ a.timerFd = s.timerFd
  BY SetField, FieldSet
<1>2. g.state = "IDLE" /\ g.timerFd = s.timerFd
  <2> HIDE DEF a
  <2> QED
    BY <1>1, FieldSet
<1>3. Finished(s, kind, status).globals = g
  BY SMT DEF Finished
<1> HIDE DEF a, g
<1> QED
  BY <1>2, <1>3, Zenon DEF Wakes

LEMMA ScheduleWakes ==
  ASSUME NEW s \in Globals, s.state \in EventStates, NEW ms \in Nat, ms < 1000
  PROVE  Wakes(s, ScheduleNextEvent(s, ms))
<1> DEFINE g == [s EXCEPT !.active = TRUE]
<1>1. g.state = s.state /\ g.timerFd = s.timerFd /\ g.active
  BY FieldSet
<1>2. ms * 1000000 <= 999999999
  BY SMT
<1>3. ScheduleNextEvent(s, ms).globals = g /\ ScheduleNextEvent(s, ms).outcome = "armed"
  BY <1>2, SMT DEF ScheduleNextEvent
<1> HIDE DEF g
<1> QED
  BY <1>1, <1>3, ZenonT(60) DEF Wakes

(* The next task of a distribution whose segment, when it moves on, is not *)
(* past the last.                                                          *)
LEMMA ScheduleImageWakes ==
  ASSUME NEW s \in Globals, NEW new \in BOOLEAN, TxIntervalMs < 1000,
         s.state \in {"HANDSHAKE_INTERVAL", "SEGMENT_INTERVAL",
                      "HANDSHAKE_WAITING", "SEGMENT_WAITING"},
         new /\ s.state = "SEGMENT_WAITING" => ~(s.nextSegment >= TotalSegments)
  PROVE  Wakes(s, ScheduleImageDistributionProcessNextTask(s, new))
<1> DEFINE b == [s EXCEPT !.nextSegment = IF new THEN @ + 1 ELSE @,
                          !.state = "SEGMENT_INTERVAL"]
<1> DEFINE c == [s EXCEPT !.state = "HANDSHAKE_INTERVAL"]
<1>1. b \in Globals /\ b.state = "SEGMENT_INTERVAL" /\ b.timerFd = s.timerFd
  <2> DEFINE k == IF new THEN s.nextSegment + 1 ELSE s.nextSegment
  <2> DEFINE e == [s EXCEPT !.nextSegment = k]
  <2>1. k \in Nat /\ b = [e EXCEPT !.state = "SEGMENT_INTERVAL"]
    BY SMT DEF Globals
  <2> HIDE DEF k, b
  <2>2. e \in Globals /\ e.timerFd = s.timerFd
    <3>1. e \in Globals
      BY <2>1, SetField, ZenonT(60)
    <3>2. e.timerFd = s.timerFd
      BY FieldSet
    <3> QED
      BY <3>1, <3>2
  <2>3. b = [e EXCEPT !.state = "SEGMENT_INTERVAL"]
    BY <2>1
  <2> HIDE DEF e
  <2> QED
    BY <2>2, <2>3, SetField, FieldSet, States, ZenonT(60)
<1>2. c \in Globals /\ c.state = "HANDSHAKE_INTERVAL" /\ c.timerFd = s.timerFd
  BY SetField, FieldSet, States, ZenonT(60)
<1>3. ScheduleImageDistributionProcessNextTask(s, new) \in
        {Finished(s, "image", "STACK_ERROR"), Finished(s, "image", "UNREACHABLE"),
         Finished(b, "image", "UNREACHABLE"), ScheduleNextEvent(s, TxIntervalMs),
         ScheduleNextEvent(b, TxIntervalMs), ScheduleNextEvent(c, TxIntervalMs)}
  BY SMTT(40) DEF ScheduleImageDistributionProcessNextTask, ImageDistributionProcessFinished
<1> HIDE DEF b, c
<1>4. \A status : Wakes(s, Finished(s, "image", status)) /\ Wakes(b, Finished(b, "image", status))
  BY <1>1, FinishedWakes
<1>5. s.state \in EventStates /\ b.state \in EventStates /\ c.state \in EventStates
  BY <1>1, <1>2, SMT DEF EventStates
<1>6. /\ Wakes(s, ScheduleNextEvent(s, TxIntervalMs))
      /\ Wakes(b, ScheduleNextEvent(b, TxIntervalMs))
      /\ Wakes(c, ScheduleNextEvent(c, TxIntervalMs))
  BY <1>1, <1>2, <1>5, Constants, ScheduleWakes
<1>7. \A r : Wakes(b, r) \/ Wakes(c, r) => Wakes(s, r)
  BY <1>1, <1>2, ZenonT(60) DEF Wakes
<1> QED
  BY <1>3, <1>4, <1>6, <1>7, SMT

LEMMA ScheduleBootloadWakes ==
  ASSUME NEW s \in Globals, NEW response, TxIntervalMs < 1000,
         s.state \in BootloadRequestStates
  PROVE  Wakes(s, ScheduleBootloadRequestProcessNextTask(s, response))
<1> DEFINE c == [s EXCEPT !.state = "BOOTLOAD_INTERVAL"]
<1>1. c.state = "BOOTLOAD_INTERVAL" /\ c \in Globals /\ c.timerFd = s.timerFd
  BY SetField, FieldSet, States, ZenonT(60)
<1> HIDE DEF c
<1>2. \A status : Wakes(s, Finished(s, "bootload", status))
  BY FinishedWakes
<1>3. \/ \E status : ScheduleBootloadRequestProcessNextTask(s, response)
                       = Finished(s, "bootload", status)
      \/ ScheduleBootloadRequestProcessNextTask(s, response) = ScheduleNextEvent(c, TxIntervalMs)
  BY SMT DEF ScheduleBootloadRequestProcessNextTask, BootloadRequestProcessFinished,
             BootloadRequestStates, c
<1>4. Wakes(c, ScheduleNextEvent(c, TxIntervalMs))
  <2>1. c.state \in EventStates
    BY <1>1, SMT DEF EventStates
  <2> QED
    BY <1>1, <2>1, Constants, ScheduleWakes
<1>5. Wakes(s, ScheduleNextEvent(c, TxIntervalMs))
  BY <1>1, <1>4, ZenonT(60) DEF Wakes
<1> QED
  BY <1>2, <1>3, <1>5, ZenonT(60)

(* Counting an error leaves the state and the timer.                       *)
LEMMA CountedWakes ==
  ASSUME NEW s \in Globals, NEW status
  PROVE  /\ LET c == CountSendError(s, status)
            IN  c \in Globals /\ c.state = s.state /\ c.timerFd = s.timerFd
         /\ LET a == StackErrorCounted(s)
            IN  a \in Globals /\ a.state = s.state /\ a.timerFd = s.timerFd
         /\ LET b == TargetErrorCounted(s)
            IN  b \in Globals /\ b.state = s.state /\ b.timerFd = s.timerFd
<1> DEFINE a == [s EXCEPT !.stackErrors = @ + 1]
<1> DEFINE b == [s EXCEPT !.targetErrors = @ + 1]
<1> DEFINE c == [b EXCEPT !.stackErrors = 0]
<1>1. /\ a \in Globals /\ b \in Globals /\ CountSendError(s, status) \in Globals
      /\ StackErrorCounted(s) = a /\ TargetErrorCounted(s) = b
  BY CountedType, Zenon DEF StackErrorCounted, TargetErrorCounted
<1>2. /\ a.state = s.state /\ a.timerFd = s.timerFd
      /\ b.state = s.state /\ b.timerFd = s.timerFd
  BY FieldSet
<1>3. c.state = b.state /\ c.timerFd = b.timerFd
  <2> HIDE DEF b
  <2> QED
    BY <1>1, FieldSet
<1>4. CountSendError(s, status) = c \/ CountSendError(s, status) = a
  BY Zenon DEF CountSendError
<1> HIDE DEF a, b, c
<1> QED
  BY <1>1, <1>2, <1>3, <1>4, Zenon

(* The report of the message the server waits for wakes it; another one is *)
(* ignored.                                                                *)
LEMMA SentWakes ==
  ASSUME NEW s \in Globals, NEW m \in SentReport, TxIntervalMs < 1000, ResponseTimeoutMs < 1000
  PROVE  \/ MessageSent(s, m) = Quietly(s) /\ s.state # Pending(m.command)
         \/ s.state # "IDLE" /\ Wakes(s, MessageSent(s, m))
<1> DEFINE c == CountSendError(s, m.status)
<1> DEFINE a == [c EXCEPT !.state = "HANDSHAKE_INTERVAL"]
<1> DEFINE b == [c EXCEPT !.state = "SEGMENT_INTERVAL"]
<1>1. c \in Globals /\ c.state = s.state /\ c.timerFd = s.timerFd
  BY CountedWakes
<1> HIDE DEF c
<1>2. /\ a \in Globals /\ a.state = "HANDSHAKE_INTERVAL" /\ a.timerFd = s.timerFd
      /\ b \in Globals /\ b.state = "SEGMENT_INTERVAL" /\ b.timerFd = s.timerFd
  <2>1. a \in Globals /\ b \in Globals
    BY <1>1, SetField, States, ZenonT(60)
  <2> QED
    BY <1>1, <2>1, FieldSet
<1> HIDE DEF a, b
<1>3. /\ Wakes(s, ScheduleImageDistributionProcessNextTask(a, FALSE))
      /\ Wakes(s, ScheduleImageDistributionProcessNextTask(b, FALSE))
  <2>1. /\ Wakes(a, ScheduleImageDistributionProcessNextTask(a, FALSE))
        /\ Wakes(b, ScheduleImageDistributionProcessNextTask(b, FALSE))
    BY <1>2, ScheduleImageWakes, ZenonT(60)
  <2> QED
    BY <1>2, <2>1, ZenonT(60) DEF Wakes
<1>4. s.state = "BOOTLOAD_PENDING" => Wakes(s, ScheduleBootloadRequestProcessNextTask(c, "none"))
  <2>1. s.state = "BOOTLOAD_PENDING" => Wakes(c, ScheduleBootloadRequestProcessNextTask(c, "none"))
    BY <1>1, ScheduleBootloadWakes DEF BootloadRequestStates
  <2> QED
    BY <1>1, <2>1, ZenonT(60) DEF Wakes
<1>5. ASSUME NEW x \in {"HANDSHAKE_WAITING", "SEGMENT_WAITING", "BOOTLOAD_WAITING"}
      PROVE  Wakes(s, AwaitResponse(s, x))
  <2> DEFINE d == [s EXCEPT !.stackErrors = 0]
  <2> DEFINE e == [d EXCEPT !.state = x]
  <2>1. d \in Globals /\ d.timerFd = s.timerFd
    <3>1. d \in Globals
      BY SetField, ZenonT(60)
    <3>2. d.timerFd = s.timerFd
      BY FieldSet
    <3> QED
      BY <3>1, <3>2
  <2>2. e \in Globals /\ e.timerFd = s.timerFd /\ e.state = x
    <3> HIDE DEF d
    <3>1. x \in ServerStates
      BY States, SMT
    <3>2. e \in Globals
      BY <2>1, <3>1, SetField, ZenonT(60)
    <3>3. e.timerFd = s.timerFd /\ e.state = x
      BY <2>1, FieldSet
    <3> QED
      BY <3>2, <3>3
  <2>3. AwaitResponse(s, x) = ScheduleNextEvent(e, ResponseTimeoutMs)
    BY ZenonT(60) DEF AwaitResponse
  <2> HIDE DEF d, e
  <2>4. e.state \in EventStates
    BY <2>2, SMT DEF EventStates
  <2>5. Wakes(e, ScheduleNextEvent(e, ResponseTimeoutMs))
    BY <2>2, <2>4, ScheduleWakes, Constants
  <2> QED
    BY <2>2, <2>3, <2>5, ZenonT(60) DEF Wakes
<1>6. m.command \in Commands
  BY DEF SentReport
<1>7. \/ MessageSent(s, m) = Quietly(s) /\ s.state # Pending(m.command)
      \/ /\ s.state = "HANDSHAKE_PENDING"
         /\ MessageSent(s, m) \in {AwaitResponse(s, "HANDSHAKE_WAITING"),
                                   ScheduleImageDistributionProcessNextTask(a, FALSE)}
      \/ /\ s.state = "SEGMENT_PENDING"
         /\ MessageSent(s, m) \in {AwaitResponse(s, "SEGMENT_WAITING"),
                                   ScheduleImageDistributionProcessNextTask(b, FALSE)}
      \/ /\ s.state = "BOOTLOAD_PENDING"
         /\ MessageSent(s, m) \in {AwaitResponse(s, "BOOTLOAD_WAITING"),
                                   ScheduleBootloadRequestProcessNextTask(c, "none")}
  <2>0. m.command = "HANDSHAKE" \/ m.command = "SEGMENT" \/ m.command = "BOOTLOAD"
    BY <1>6, SMT DEF Commands
  <2>1. CASE m.command = "HANDSHAKE"
    <3>1. Pending(m.command) = "HANDSHAKE_PENDING"
      BY <2>1, SMT DEF Pending
    <3>2. s.state = "HANDSHAKE_PENDING" =>
            MessageSent(s, m) \in {AwaitResponse(s, "HANDSHAKE_WAITING"),
                                   ScheduleImageDistributionProcessNextTask(a, FALSE)}
      BY <2>1, SMT DEF MessageSent, a, c
    <3>3. s.state # "HANDSHAKE_PENDING" => MessageSent(s, m) = Quietly(s)
      BY <2>1, SMT DEF MessageSent
    <3> QED
      BY <3>1, <3>2, <3>3, ZenonT(60)
  <2>2. CASE m.command = "SEGMENT"
    <3>1. Pending(m.command) = "SEGMENT_PENDING"
      BY <2>2, SMT DEF Pending
    <3>2. s.state = "SEGMENT_PENDING" =>
            MessageSent(s, m) \in {AwaitResponse(s, "SEGMENT_WAITING"),
                                   ScheduleImageDistributionProcessNextTask(b, FALSE)}
      BY <2>2, SMT DEF MessageSent, b, c
    <3>3. s.state # "SEGMENT_PENDING" => MessageSent(s, m) = Quietly(s)
      BY <2>2, SMT DEF MessageSent
    <3> QED
      BY <3>1, <3>2, <3>3, ZenonT(60)
  <2>3. CASE m.command = "BOOTLOAD"
    <3>1. Pending(m.command) = "BOOTLOAD_PENDING"
      BY <2>3, SMT DEF Pending
    <3>2. s.state = "BOOTLOAD_PENDING" =>
            MessageSent(s, m) \in {AwaitResponse(s, "BOOTLOAD_WAITING"),
                                   ScheduleBootloadRequestProcessNextTask(c, "none")}
      BY <2>3, SMT DEF MessageSent, c
    <3>3. s.state # "BOOTLOAD_PENDING" => MessageSent(s, m) = Quietly(s)
      BY <2>3, SMT DEF MessageSent
    <3> QED
      BY <3>1, <3>2, <3>3, ZenonT(60)
  <2> QED
    BY <2>0, <2>1, <2>2, <2>3, ZenonT(60)
<1>8. /\ Wakes(s, AwaitResponse(s, "HANDSHAKE_WAITING"))
      /\ Wakes(s, AwaitResponse(s, "SEGMENT_WAITING"))
      /\ Wakes(s, AwaitResponse(s, "BOOTLOAD_WAITING"))
  BY <1>5
<1>9. ASSUME s.state \in {"HANDSHAKE_PENDING", "SEGMENT_PENDING", "BOOTLOAD_PENDING"}
      PROVE  s.state # "IDLE"
  BY <1>9, SMT
<1> QED
  BY <1>3, <1>4, <1>7, <1>8, <1>9, ZenonT(60)

(* So does a response to the segment that the server has come to, but one  *)
(* by which the target gives up: it halts a server that waits for the      *)
(* report, and leaves the others.                                          *)
LEMMA IncomingWakes ==
  ASSUME NEW s \in Globals, NEW m \in Response, NEW tag \in Nat, TxIntervalMs < 1000,
         s.state \in ImageDistributionStates => ~(s.nextSegment >= TotalSegments)
  PROVE  \/ Leaves(s, IncomingMessage(s, m, tag))
         \/ /\ s.state # "IDLE"
            /\ Wakes(s, IncomingMessage(s, m, tag)) \/ Halts(s, IncomingMessage(s, m, tag))
<1> DEFINE w == TakenAsSent(s, m)
<1>1. /\ w \in Globals /\ w.state = "SEGMENT_WAITING" /\ w.timerFd = s.timerFd
      /\ w.nextSegment = s.nextSegment /\ w.active = s.active
      /\ w.givenUp = (s.givenUp \/ (s.state = "SEGMENT_PENDING" /\ GivesUp(m)))
  BY TakenType, Zenon DEF SameRest
<1> HIDE DEF w
<1>2. ASSUME s.state \in {"SEGMENT_PENDING", "SEGMENT_WAITING"}, m.command = "SEGMENT",
             ~GivesUp(m)
      PROVE  Wakes(s, HandleSegmentResponse(w, m))
  <2> DEFINE f == [w EXCEPT !.targetErrors = 0]
  <2> DEFINE g == [f EXCEPT !.active = FALSE]
  <2>1. /\ f \in Globals /\ f.state = w.state /\ f.timerFd = w.timerFd
        /\ f.nextSegment = w.nextSegment
    <3>1. f \in Globals
      BY <1>1, SetField, ZenonT(60)
    <3>2. f.state = w.state /\ f.timerFd = w.timerFd
      BY <1>1, FieldSet
    <3>3. f.nextSegment = w.nextSegment
      BY <1>1, SMT DEF Globals
    <3> QED
      BY <3>1, <3>2, <3>3
  <2>2. /\ g \in Globals /\ g.state = w.state /\ g.timerFd = w.timerFd
        /\ g.nextSegment = w.nextSegment
    <3> HIDE DEF f
    <3>1. g \in Globals
      BY <2>1, SetField, ZenonT(60)
    <3>2. g.state = f.state /\ g.timerFd = f.timerFd
      BY <2>1, FieldSet
    <3>3. g.nextSegment = f.nextSegment
      BY <2>1, SMT DEF Globals
    <3> QED
      BY <2>1, <3>1, <3>2, <3>3
  <2>3. m.status \in {"ONGOING", "COMPLETED", "REFUSED", "OUT_OF_SEQ"}
    BY <1>2, SMT DEF Response, Statuses, GivesUp
  <2>4. HandleSegmentResponse(w, m) \in
          {ScheduleImageDistributionProcessNextTask(g, TRUE), Finished(w, "image", "FAILED"),
           Finished(w, "image", "REFUSED"), Finished(w, "image", "SUCCESS")}
    <3> DEFINE h == [w EXCEPT !.targetErrors = 0, !.active = FALSE]
    <3>1. HandleSegmentResponse(w, m) \in
            {ScheduleImageDistributionProcessNextTask(h, TRUE), Finished(w, "image", "FAILED"),
             Finished(w, "image", "REFUSED"), Finished(w, "image", "SUCCESS")}
      <4> HIDE DEF f, g
      <4>1. CASE m.status = "ONGOING"
        BY <4>1, SMT DEF HandleSegmentResponse, ImageDistributionProcessFinished
      <4>2. CASE m.status = "COMPLETED"
        BY <4>2, SMT DEF HandleSegmentResponse, ImageDistributionProcessFinished
      <4>3. CASE m.status = "REFUSED"
        BY <4>3, SMT DEF HandleSegmentResponse, ImageDistributionProcessFinished
      <4>4. CASE m.status = "OUT_OF_SEQ"
        BY <4>4, SMT DEF HandleSegmentResponse, ImageDistributionProcessFinished
      <4> QED
        BY <2>3, <4>1, <4>2, <4>3, <4>4, ZenonT(60)
    <3> QED
      BY <3>1, ZenonT(60)
  <2> HIDE DEF f, g
  <2>5. Wakes(g, ScheduleImageDistributionProcessNextTask(g, TRUE))
    <3>1. ~(g.nextSegment >= TotalSegments)
      BY <1>1, <1>2, <2>2, SMT DEF ImageDistributionStates
    <3>2. g.state = "SEGMENT_WAITING"
      BY <1>1, <2>2
    <3> QED
      BY <2>2, <3>1, <3>2, ScheduleImageWakes, ZenonT(60)
  <2>6. \A status : Wakes(w, Finished(w, "image", status))
    BY <1>1, FinishedWakes
  <2>7. \A r : Wakes(w, r) \/ Wakes(g, r) => Wakes(s, r)
    BY <1>1, <2>2, ZenonT(60) DEF Wakes
  <2> QED
    BY <2>4, <2>5, <2>6, <2>7, ZenonT(60)
<1>3. Wakes(s, HandleHandshakeResponse(s, m))
  <2> DEFINE e == [s EXCEPT !.nextSegment = m.segment]
  <2> DEFINE f == [e EXCEPT !.targetErrors = 0]
  <2> DEFINE g == [f EXCEPT !.state = "SEGMENT_INTERVAL"]
  <2>0. m.segment \in Nat
    BY DEF Response
  <2>1. e \in Globals /\ e.timerFd = s.timerFd
    BY <2>0, SetField, FieldSet, ZenonT(60)
  <2>2. f \in Globals /\ f.timerFd = s.timerFd
    <3> HIDE DEF e
    <3>1. f \in Globals
      BY <2>1, SetField, ZenonT(60)
    <3>2. f.timerFd = e.timerFd
      BY <2>1, FieldSet
    <3> QED
      BY <2>1, <3>1, <3>2
  <2>3. g \in Globals /\ g.timerFd = s.timerFd /\ g.state = "SEGMENT_INTERVAL"
    <3> HIDE DEF e, f
    <3> QED
      BY <2>2, SetField, FieldSet, States, ZenonT(60)
  <2>4. HandleHandshakeResponse(s, m) \in
          {ScheduleImageDistributionProcessNextTask(g, TRUE), Finished(s, "image", "FAILED"),
           Finished(s, "image", "REFUSED")}
    <3> DEFINE h == [s EXCEPT !.nextSegment = m.segment, !.targetErrors = 0,
                              !.state = "SEGMENT_INTERVAL"]
    <3>1. HandleHandshakeResponse(s, m) \in
            {ScheduleImageDistributionProcessNextTask(h, TRUE), Finished(s, "image", "FAILED"),
             Finished(s, "image", "REFUSED")}
      <4> HIDE DEF e, f, g
      <4> QED
        BY SMT DEF HandleHandshakeResponse, ImageDistributionProcessFinished
    <3> QED
      BY <3>1, ZenonT(60)
  <2> HIDE DEF e, f, g
  <2>5. Wakes(g, ScheduleImageDistributionProcessNextTask(g, TRUE))
    <3>1. g.state # "SEGMENT_WAITING"
      BY <2>3, SMT
    <3> QED
      BY <2>3, <3>1, ScheduleImageWakes, ZenonT(60)
  <2>6. \A status : Wakes(s, Finished(s, "image", status))
    BY FinishedWakes
  <2>7. \A r : Wakes(g, r) => Wakes(s, r)
    BY <2>3, ZenonT(60) DEF Wakes
  <2> QED
    BY <2>4, <2>5, <2>6, <2>7, ZenonT(60)
<1>4. s.state = "BOOTLOAD_WAITING" =>
        Wakes(s, ScheduleBootloadRequestProcessNextTask(s, m.status))
  BY ScheduleBootloadWakes DEF BootloadRequestStates
<1>5. \/ IncomingMessage(s, m, tag) = Quietly(s)
      \/ /\ s.state \in {"SEGMENT_PENDING", "SEGMENT_WAITING"} /\ m.command = "SEGMENT"
         /\ IncomingMessage(s, m, tag) = HandleSegmentResponse(w, m)
      \/ /\ s.state = "HANDSHAKE_WAITING"
         /\ IncomingMessage(s, m, tag) = HandleHandshakeResponse(s, m)
      \/ /\ s.state = "BOOTLOAD_WAITING"
         /\ IncomingMessage(s, m, tag) = ScheduleBootloadRequestProcessNextTask(s, m.status)
  BY SMT DEF IncomingMessage, w
<1>6. s.state \in {"SEGMENT_PENDING", "SEGMENT_WAITING", "HANDSHAKE_WAITING", "BOOTLOAD_WAITING"}
        => s.state # "IDLE"
  BY SMT
<1>7. ASSUME s.state \in {"SEGMENT_PENDING", "SEGMENT_WAITING"}, GivesUp(m)
      PROVE  \/ Leaves(s, HandleSegmentResponse(w, m))
             \/ Halts(s, HandleSegmentResponse(w, m))
  <2>1. HandleSegmentResponse(w, m) = Quietly(w)
    <3>1. CASE m.status = "FAILED"
      BY <3>1, SMT DEF HandleSegmentResponse
    <3>2. CASE m.status = "ABORTED"
      BY <3>2, SMT DEF HandleSegmentResponse
    <3> QED
      BY <1>7, <3>1, <3>2, Zenon DEF GivesUp
  <2>2. Quietly(w).globals = w /\ Quietly(w).outcome # "armed"
    BY SMT DEF Quietly
  <2>3. CASE s.state = "SEGMENT_WAITING"
    BY <1>1, <2>1, <2>2, <2>3, Zenon DEF Leaves
  <2>4. CASE s.state = "SEGMENT_PENDING"
    BY <1>1, <1>7, <2>1, <2>2, <2>4, Zenon DEF Halts
  <2> QED
    BY <1>7, <2>3, <2>4, Zenon
<1>8. Leaves(s, Quietly(s))
  BY SMT DEF Leaves, Quietly
<1>9. CASE /\ s.state \in {"SEGMENT_PENDING", "SEGMENT_WAITING"} /\ m.command = "SEGMENT"
           /\ IncomingMessage(s, m, tag) = HandleSegmentResponse(w, m)
  BY <1>2, <1>6, <1>7, <1>9, ZenonT(60)
<1> QED
  BY <1>3, <1>4, <1>5, <1>6, <1>8, <1>9, ZenonT(60)

-----------------------------------------------------------------------------
(* What a step does to the globals and the timers.                         *)

(* It leaves the process as it is ...                                      *)
Rests ==
  /\ server'.timerFd = server.timerFd /\ server'.state = server.state
  /\ server'.active = server.active /\ timers' = timers
  /\ server.givenUp => server'.givenUp

(* ... or ends it or wakes its thread again ...                            *)
Woken ==
  /\ server'.timerFd = server.timerFd
  /\ \/ server'.state = "IDLE"
     \/ /\ server'.active /\ server'.state \in EventStates
        /\ timers' = [timers EXCEPT ![server.timerFd] = "armed"]

(* ... or lets it stand still.                                             *)
Halted == server'.timerFd = server.timerFd /\ Stalled'

LEMMA AppliedWoken ==
  ASSUME NEW r \in Results, Wakes(server, r), Apply(r)
  PROVE  Woken
<1>1. r.globals \in Globals
  BY Zenon DEF Results
<1>2. server' = [r.globals EXCEPT !.asserted = r.outcome = "asserted"]
  BY Zenon DEF Apply
<1>3. /\ server'.state = r.globals.state /\ server'.timerFd = r.globals.timerFd
      /\ server'.active = r.globals.active
  BY <1>1, <1>2, Zenon DEF Globals
<1>4. r.outcome = "armed" => timers' = [timers EXCEPT ![server.timerFd] = "armed"]
  BY Zenon DEF Apply
<1> QED
  BY <1>3, <1>4, Zenon DEF Wakes, Woken

LEMMA AppliedRests ==
  ASSUME NEW r \in Results, Leaves(server, r), Apply(r)
  PROVE  Rests
<1>1. r.globals \in Globals
  BY Zenon DEF Results
<1>2. server' = [r.globals EXCEPT !.asserted = r.outcome = "asserted"]
  BY Zenon DEF Apply
<1>3. /\ server'.state = r.globals.state /\ server'.timerFd = r.globals.timerFd
      /\ server'.active = r.globals.active /\ server'.givenUp = r.globals.givenUp
  BY <1>1, <1>2, Zenon DEF Globals
<1>4. timers' = timers
  BY Zenon DEF Apply, Leaves
<1> QED
  BY <1>3, <1>4, Zenon DEF Leaves, Rests

LEMMA AppliedHalted ==
  ASSUME NEW r \in Results, Halts(server, r), Apply(r)
  PROVE  Halted
<1>1. r.globals \in Globals
  BY Zenon DEF Results
<1>2. server' = [r.globals EXCEPT !.asserted = r.outcome = "asserted"]
  BY Zenon DEF Apply
<1>3. /\ server'.state = r.globals.state /\ server'.timerFd = r.globals.timerFd
      /\ server'.givenUp = r.globals.givenUp
  BY <1>1, <1>2, Zenon DEF Globals
<1> QED
  BY <1>3, Zenon DEF Halts, Halted, Stalled

(* The abort.                                                              *)
LEMMA AbortWakes ==
  ASSUME TypeInv, AbortCurrentProcess
  PROVE  Rests \/ (server.state # "IDLE" /\ Woken)
<1>0. server \in Globals
  BY DEF TypeInv, TypeOK
<1>1. /\ ImageDistributionProcessFinished(server, "ABORTED") \in Results
      /\ BootloadRequestProcessFinished(server, "ABORTED") \in Results
  BY <1>0, BasicType DEF ProcessStatuses
<1>2. /\ Wakes(server, ImageDistributionProcessFinished(server, "ABORTED"))
      /\ Wakes(server, BootloadRequestProcessFinished(server, "ABORTED"))
  BY <1>0, FinishedWakes DEF ImageDistributionProcessFinished, BootloadRequestProcessFinished
<1>3. server.state \in ImageDistributionStates \cup BootloadRequestStates => server.state # "IDLE"
  BY SMT DEF ImageDistributionStates, BootloadRequestStates
<1>4. \/ UNCHANGED <<server, timers>>
      \/ /\ server.state \in ImageDistributionStates \cup BootloadRequestStates
         /\ \/ Apply(ImageDistributionProcessFinished(server, "ABORTED"))
            \/ Apply(BootloadRequestProcessFinished(server, "ABORTED"))
  BY Zenon DEF AbortCurrentProcess
<1>5. UNCHANGED <<server, timers>> => Rests
  BY DEF Rests
<1> QED
  BY <1>1, <1>2, <1>3, <1>4, <1>5, AppliedWoken, Zenon

(* The callbacks: the report that the server does not wait for, and the    *)
(* response that it does not expect, leave the process as it is.           *)
LEMMA SentRuns ==
  ASSUME ShortDelays, TypeInv, MessageSentCallback
  PROVE  \/ Rests /\ server.state # Pending(Head(mail).command)
         \/ server.state # "IDLE" /\ Woken
<1>0. server \in Globals /\ Head(mail) \in SentReport
  BY SMT DEF TypeInv, TypeOK, MessageSentCallback, SentReport, Response
<1>1. MessageSent(server, Head(mail)) \in Results /\ Apply(MessageSent(server, Head(mail)))
  BY <1>0, SentType DEF MessageSentCallback
<1>2. \/ /\ MessageSent(server, Head(mail)) = Quietly(server)
         /\ server.state # Pending(Head(mail).command)
      \/ server.state # "IDLE" /\ Wakes(server, MessageSent(server, Head(mail)))
  BY <1>0, SentWakes DEF ShortDelays
<1>3. Leaves(server, Quietly(server))
  BY SMT DEF Leaves, Quietly
<1> QED
  BY <1>0, <1>1, <1>2, <1>3, AppliedRests, AppliedWoken, Zenon

LEMMA IncomingRuns ==
  ASSUME ShortDelays, TypeInv, PositionInv, IncomingMessageCallback
  PROVE  Rests \/ (server.state # "IDLE" /\ (Woken \/ Halted))
<1> DEFINE m == Head(mail)
<1> DEFINE r == IncomingMessage(server, m, starts)
<1>0. server \in Globals /\ m \in Response /\ starts \in Nat /\ mail # <<>>
      /\ mail \in Seq(SentReport \cup Response)
  <2>1. starts \in Nat
    BY Constants, SMT DEF TypeInv, TypeOK
  <2>2. mail # <<>> /\ mail \in Seq(SentReport \cup Response)
    BY Zenon DEF TypeInv, IncomingMessageCallback
  <2>3. m \in Response
    BY <2>2, SMT DEF IncomingMessageCallback, SentReport, Response
  <2> QED
    BY <2>1, <2>2, <2>3 DEF TypeInv, TypeOK
<1>1. r \in Results /\ Apply(r)
  BY <1>0, IncomingType DEF IncomingMessageCallback
<1>2. server.state \in ImageDistributionStates => ~(server.nextSegment >= TotalSegments)
  BY <1>0, Constants, SMT DEF PositionInv, Globals
<1>3. Leaves(server, r) \/ (server.state # "IDLE" /\ (Wakes(server, r) \/ Halts(server, r)))
  <2> HIDE DEF m
  <2> QED
    BY <1>0, <1>2, IncomingWakes DEF ShortDelays
<1> QED
  BY <1>1, <1>3, AppliedRests, AppliedWoken, AppliedHalted, Zenon

(* The event thread that counts an error, or has no data to send, ends the *)
(* process or has set its timer again.                                     *)
LEMMA ThreadWakes ==
  ASSUME ShortDelays, TypeInv, ThreadsInv, NEW n \in EventThreads,
         DataUnderflow(n) \/ CountAndSchedule(n)
  PROVE  Woken /\ pc[n] \in Engaged /\ Goto(n, "loop")
<1>0. server \in Globals
  BY DEF TypeInv, TypeOK
<1>1. CASE DataUnderflow(n)
  <2>1. /\ pc[n] = "sendSegment" /\ Goto(n, "loop")
        /\ Apply(ImageDistributionProcessFinished(server, "DATA_UNDERFLOW"))
    BY <1>1, Zenon DEF DataUnderflow
  <2>2. /\ ImageDistributionProcessFinished(server, "DATA_UNDERFLOW") \in Results
        /\ Wakes(server, ImageDistributionProcessFinished(server, "DATA_UNDERFLOW"))
    BY <1>0, BasicType, FinishedWakes DEF ProcessStatuses, ImageDistributionProcessFinished
  <2>3. pc[n] \in Engaged
    BY <2>1, SMT DEF Engaged, Labels
  <2> QED
    BY <2>1, <2>2, <2>3, AppliedWoken
<1>2. CASE CountAndSchedule(n)
  <2> DEFINE a == StackErrorCounted(server)
  <2> DEFINE b == TargetErrorCounted(server)
  <2>1. /\ Goto(n, "loop")
        /\ pc[n] \in {"imageSendFailed", "imageTimeout", "bootloadSendFailed", "bootloadTimeout"}
    BY <1>2, Zenon DEF CountAndSchedule
  <2>2. pc[n] \in Engaged /\ server.state \in StatesAt(pc[n])
    <3>1. pc[n] \in Engaged
      BY <2>1, SMT DEF Engaged, Labels
    <3> QED
      BY <3>1, Zenon DEF ThreadsInv
  <2>3. /\ a \in Globals /\ a.state = server.state /\ a.timerFd = server.timerFd
        /\ b \in Globals /\ b.state = server.state /\ b.timerFd = server.timerFd
    BY <1>0, CountedWakes
  <2> HIDE DEF a, b
  <2>4. ASSUME NEW r \in Results, Apply(r), Wakes(a, r) \/ Wakes(b, r)
        PROVE  Woken
    <3>1. Wakes(server, r)
      BY <2>3, <2>4, Zenon DEF Wakes
    <3> QED
      BY <2>4, <3>1, AppliedWoken
  <2>5. ASSUME pc[n] = "imageSendFailed" PROVE Woken
    <3>1. a.state \in {"HANDSHAKE_INTERVAL", "SEGMENT_INTERVAL"}
      BY <2>2, <2>3, <2>5, SMT DEF StatesAt
    <3>2. Apply(ScheduleImageDistributionProcessNextTask(a, FALSE))
      BY <1>2, <2>5, Zenon DEF CountAndSchedule, a
    <3>3. Wakes(a, ScheduleImageDistributionProcessNextTask(a, FALSE))
      BY <2>3, <3>1, ScheduleImageWakes, ZenonT(60) DEF ShortDelays
    <3>4. ScheduleImageDistributionProcessNextTask(a, FALSE) \in Results
      BY <2>3, ScheduleImageType
    <3> QED
      BY <2>4, <3>2, <3>3, <3>4
  <2>6. ASSUME pc[n] = "imageTimeout" PROVE Woken
    <3>1. b.state \in {"HANDSHAKE_WAITING", "SEGMENT_WAITING"}
      BY <2>2, <2>3, <2>6, SMT DEF StatesAt
    <3>2. Apply(ScheduleImageDistributionProcessNextTask(b, FALSE))
      BY <1>2, <2>6, Zenon DEF CountAndSchedule, b
    <3>3. Wakes(b, ScheduleImageDistributionProcessNextTask(b, FALSE))
      BY <2>3, <3>1, ScheduleImageWakes, ZenonT(60) DEF ShortDelays
    <3>4. ScheduleImageDistributionProcessNextTask(b, FALSE) \in Results
      BY <2>3, ScheduleImageType
    <3> QED
      BY <2>4, <3>2, <3>3, <3>4
  <2>7. ASSUME pc[n] = "bootloadSendFailed" PROVE Woken
    <3>1. a.state \in BootloadRequestStates
      BY <2>2, <2>3, <2>7, SMT DEF StatesAt, BootloadRequestStates
    <3>2. Apply(ScheduleBootloadRequestProcessNextTask(a, "none"))
      BY <1>2, <2>7, Zenon DEF CountAndSchedule, a
    <3>3. Wakes(a, ScheduleBootloadRequestProcessNextTask(a, "none"))
      BY <2>3, <3>1, ScheduleBootloadWakes DEF ShortDelays
    <3>4. ScheduleBootloadRequestProcessNextTask(a, "none") \in Results
      BY <2>3, ScheduleBootloadType
    <3> QED
      BY <2>4, <3>2, <3>3, <3>4
  <2>8. ASSUME pc[n] = "bootloadTimeout" PROVE Woken
    <3>1. b.state \in BootloadRequestStates
      BY <2>2, <2>3, <2>8, SMT DEF StatesAt, BootloadRequestStates
    <3>2. Apply(ScheduleBootloadRequestProcessNextTask(b, "none"))
      BY <1>2, <2>8, Zenon DEF CountAndSchedule, b
    <3>3. Wakes(b, ScheduleBootloadRequestProcessNextTask(b, "none"))
      BY <2>3, <3>1, ScheduleBootloadWakes DEF ShortDelays
    <3>4. ScheduleBootloadRequestProcessNextTask(b, "none") \in Results
      BY <2>3, ScheduleBootloadType
    <3> QED
      BY <2>4, <3>2, <3>3, <3>4
  <2>9. Woken
    BY <2>1, <2>5, <2>6, <2>7, <2>8, Zenon
  <2> QED
    BY <2>1, <2>2, <2>9
<1> QED
  BY <1>1, <1>2

-----------------------------------------------------------------------------
(* The thread that owns the process.                                       *)

LEMMA OwnerKept ==
  ASSUME OwnerInv, pc' = pc, starts' = starts, server'.timerFd = server.timerFd,
         server.state = "IDLE" => server'.state = "IDLE"
  PROVE  OwnerInv'
BY Zenon DEF OwnerInv

LEMMA OwnerMoves ==
  ASSUME TypeInv, OwnerInv, NEW n \in EventThreads, NEW label \in Labels, Goto(n, label),
         pc[n] # "create", label \notin {"none", "create"},
         label = "done" => server'.state = "IDLE",
         starts' = starts, server'.timerFd = server.timerFd,
         server.state = "IDLE" => server'.state = "IDLE"
  PROVE  OwnerInv'
<1>1. /\ pc'[n] = label
      /\ \A m \in EventThreads : m # n => pc'[m] = pc[m]
  BY SMT DEF TypeInv, TypeOK, Goto
<1>2. label # "none" /\ label # "create"
  BY SMT
<1>3. \A m \in EventThreads : pc'[m] = "create" => m = starts'
  BY <1>1, <1>2, Zenon DEF OwnerInv
<1>4. ASSUME server'.state # "IDLE"
      PROVE  /\ starts' \in EventThreads /\ pc'[starts'] \notin {"none", "done"}
             /\ pc'[starts'] # "create" => server'.timerFd = starts'
  <2>1. /\ starts \in EventThreads /\ pc[starts] \notin {"none", "done"}
        /\ pc[starts] # "create" => server.timerFd = starts
    BY <1>4, Zenon DEF OwnerInv
  <2>2. CASE starts = n
    <3>1. label # "done" /\ server.timerFd = starts
      BY <1>4, <2>1, <2>2
    <3> QED
      BY <1>1, <1>2, <2>1, <2>2, <3>1, SMT
  <2>3. CASE starts # n
    <3>1. pc'[starts] = pc[starts]
      BY <1>1, <2>1, <2>3, Zenon
    <3> QED
      BY <2>1, <3>1, Zenon
  <2> QED
    BY <2>2, <2>3
<1> QED
  BY <1>3, <1>4 DEF OwnerInv

(* A step of an event thread.                                              *)
LEMMA OwnerThread ==
  ASSUME ShortDelays, TypeInv, ThreadsInv, OwnerInv, NEW n \in EventThreads, EventThreadStep(n),
         server.state = "IDLE" => server'.state = "IDLE"
  PROVE  OwnerInv'
<1>s. server \in Globals /\ n \in 0..MaxStarts /\ pc \in [EventThreads -> Labels]
  BY Constants, SMT DEF TypeInv, TypeOK, EventThreads
<1>1. CASE CreateTimer(n)
  <2> DEFINE a == [server EXCEPT !.timerFd = n]
  <2> DEFINE b == [a EXCEPT !.active = TRUE]
  <2>1. a \in Globals /\ a.timerFd = n /\ a.state = server.state
    <3>1. a \in Globals
      BY <1>s, SetField
    <3> QED
      BY <1>s, <3>1, Zenon DEF Globals
  <2>2. b.timerFd = n /\ b.state = server.state
    <3> HIDE DEF a
    <3> QED
      BY <2>1, FieldSet
  <2>3. server' = b /\ pc[n] = "create" /\ Goto(n, "check") /\ starts' = starts
    BY <1>1, Zenon DEF CreateTimer
  <2> HIDE DEF a, b
  <2>4. n = starts
    BY <2>3, Zenon DEF OwnerInv
  <2>5. pc'[n] = "check" /\ \A m \in EventThreads : m # n => pc'[m] = pc[m]
    BY <1>s, <2>3, SMT DEF Goto
  <2>6. \A m \in EventThreads : pc'[m] = "create" => m = starts'
    <3>1. \A m \in EventThreads : m # n => pc[m] # "create"
      BY <2>4, Zenon DEF OwnerInv
    <3> QED
      BY <2>3, <2>5, <3>1, SMT
  <2>7. starts' \in EventThreads /\ pc'[starts'] \notin {"none", "done"} /\ server'.timerFd = starts'
    BY <2>2, <2>3, <2>4, <2>5, SMT
  <2> QED
    BY <2>6, <2>7 DEF OwnerInv
<1>2. ASSUME NEW label \in Labels, Goto(n, label), pc[n] # "create",
             label \notin {"none", "create"}, label = "done" => server'.state = "IDLE",
             starts' = starts, server'.timerFd = server.timerFd
      PROVE  OwnerInv'
  BY <1>2, OwnerMoves
<1>3. CASE CheckIdle(n) \/ PollTimer(n) \/ ReadTimer(n)
  <2>1. /\ UNCHANGED <<server, starts>> /\ pc[n] \in {"check", "poll", "read"}
        /\ \/ Goto(n, "done") /\ server.state = "IDLE"
           \/ \E label \in {"poll", "read", "loop"} : Goto(n, label)
    BY <1>3, Zenon DEF CheckIdle, PollTimer, ReadTimer
  <2>2. /\ {"poll", "read", "loop", "done"} \subseteq Labels
        /\ \A label \in {"poll", "read", "loop"} : label \notin {"none", "create", "done"}
        /\ "done" \notin {"none", "create"} /\ "create" \notin {"check", "poll", "read"}
    BY SMT DEF Labels
  <2> QED
    BY <1>2, <2>1, <2>2, ZenonT(60)
<1>4. CASE EventHandler(n)
  <2>1. /\ starts' = starts /\ pc[n] = "loop"
        /\ server' = server \/ server' = [server EXCEPT !.active = FALSE]
        /\ Goto(n, "check") \/ Goto(n, HandlerFor(server.state))
    BY <1>4, Zenon DEF EventHandler
  <2>2. server'.timerFd = server.timerFd
    BY <1>s, <2>1, Zenon DEF Globals
  <2>3. /\ HandlerFor(server.state) \in Labels
        /\ HandlerFor(server.state) \notin {"none", "create", "done"}
        /\ "check" \in Labels \ {"none", "create", "done"}
    BY SMT DEF HandlerFor, Labels
  <2> QED
    BY <1>2, <2>1, <2>2, <2>3, SMT
<1>5. ASSUME NEW command, NEW segment, NEW accepted \in Labels \ {"none", "create", "done"},
             NEW refused \in Labels \ {"none", "create", "done"},
             Send(n, command, segment, accepted, refused), pc[n] # "create"
      PROVE  OwnerInv'
  <2>1. UNCHANGED <<server, starts>> /\ (Goto(n, accepted) \/ Goto(n, refused))
    BY <1>5, Zenon DEF Send
  <2> QED
    BY <1>2, <1>5, <2>1, SMT
<1>6. CASE UnicastHandshake(n) \/ UnicastNextSegment(n) \/ RequestTargetForBootload(n)
  <2>1. {"handshakeSent", "segmentSent", "bootloadSent", "imageSendFailed", "bootloadSendFailed"}
          \subseteq Labels \ {"none", "create", "done"}
    BY SMT DEF Labels
  <2> QED
    BY <1>5, <1>6, <2>1, SMT DEF UnicastHandshake, UnicastNextSegment, RequestTargetForBootload
<1>7. CASE DataUnderflow(n) \/ CountAndSchedule(n)
  <2>1. Woken /\ Goto(n, "loop") /\ starts' = starts /\ pc[n] # "create"
    <3>1. Woken /\ Goto(n, "loop")
      BY <1>7, ThreadWakes
    <3>2. /\ starts' = starts
          /\ pc[n] \in {"sendSegment", "imageSendFailed", "imageTimeout",
                       "bootloadSendFailed", "bootloadTimeout"}
      BY <1>7, Zenon DEF DataUnderflow, CountAndSchedule
    <3>3. pc[n] # "create"
      BY <3>2, SMT
    <3> QED
      BY <3>1, <3>2, <3>3
  <2>2. "loop" \in Labels \ {"none", "create", "done"}
    BY SMT DEF Labels
  <2> QED
    BY <1>2, <2>1, <2>2, SMT DEF Woken
<1>8. CASE SetPending(n)
  <2>1. /\ starts' = starts
        /\ pc[n] \in {"handshakeSent", "segmentSent", "storeSegment", "bootloadSent"}
        /\ Goto(n, "loop") \/ Goto(n, "storeSegment")
        /\ \/ \E x : server' = [server EXCEPT !.state = x]
           \/ server' = SegmentPending(server)
           \/ server' = [server EXCEPT !.sentSegment = server.nextSegment]
    BY <1>8, Zenon DEF SetPending
  <2>2. server'.timerFd = server.timerFd
    <3>1. SegmentPending(server).timerFd = server.timerFd
      BY <1>s, PendingType, Zenon DEF SameRest
    <3> QED
      BY <1>s, <2>1, <3>1, Zenon DEF Globals
  <2>3. {"loop", "storeSegment"} \subseteq Labels \ {"none", "create", "done"}
    BY SMT DEF Labels
  <2> QED
    BY <1>2, <2>1, <2>2, <2>3, SMT
<1> QED
  BY <1>1, <1>3, <1>4, <1>6, <1>7, <1>8 DEF EventThreadStep

-----------------------------------------------------------------------------
(* The event that is due.                                                  *)

(* An expired timer is not off.                                            *)
LEMMA ExpiredIsOn ==
  ASSUME NEW set \in [EventThreads -> {"off", "armed", "expired"}], NEW n \in EventThreads,
         NEW m \in EventThreads, set[m] # "off"
  PROVE  [set EXCEPT ![n] = "expired"][m] # "off"
BY SMT

LEMMA DueOver ==
  ASSUME server'.state \notin EventStates
  PROVE  DueInv'
BY Zenon DEF DueInv

LEMMA DueByStall ==
  ASSUME Stalled'
  PROVE  DueInv'
BY Zenon DEF DueInv

LEMMA DueByHandler ==
  ASSUME NEW n \in EventThreads, pc'[n] \in Engaged
  PROVE  DueInv'
BY Zenon DEF DueInv

LEMMA DueByLoop ==
  ASSUME NEW n \in EventThreads, pc'[n] = "loop", server'.active
  PROVE  DueInv'
BY SMT DEF DueInv, EventDue

LEMMA DueByTimer ==
  ASSUME NEW n \in EventThreads, n = server'.timerFd, server'.active, timers'[n] # "off",
         pc'[n] \in {"check", "poll", "read"}
  PROVE  DueInv'
BY Zenon DEF DueInv, EventDue

(* A step that leaves the globals and the timers, and the threads but one  *)
(* that sleeps on or comes awake.                                          *)
LEMMA DueKept ==
  ASSUME DueInv, server'.state = server.state, server'.active = server.active,
         server'.timerFd = server.timerFd, server.givenUp => server'.givenUp,
         \A m \in EventThreads : timers[m] # "off" => timers'[m] # "off",
         \A m \in EventThreads :
           \/ pc'[m] = pc[m]
           \/ pc[m] \in {"check", "poll", "read"} /\ pc'[m] \in {"check", "poll", "read", "loop"}
  PROVE  DueInv'
<1>1. CASE server.state \notin EventStates
  BY <1>1, DueOver
<1>2. ASSUME NEW m \in EventThreads, pc[m] \in Engaged PROVE DueInv'
  <2>1. pc[m] \notin {"check", "poll", "read"}
    BY <1>2, SMT DEF Engaged
  <2>2. pc'[m] = pc[m]
    BY <2>1, Zenon
  <2> QED
    BY <1>2, <2>2, DueByHandler, Zenon
<1>3. ASSUME server.active, NEW m \in EventThreads, pc[m] = "loop" PROVE DueInv'
  <2>1. pc[m] \notin {"check", "poll", "read"}
    BY <1>3, SMT
  <2>2. pc'[m] = "loop"
    BY <1>3, <2>1, Zenon
  <2> QED
    BY <1>3, <2>2, DueByLoop, Zenon
<1>4. ASSUME server.active, NEW m \in EventThreads, m = server.timerFd, timers[m] # "off",
             pc[m] \in {"check", "poll", "read"}
      PROVE  DueInv'
  <2>1. pc'[m] = "loop" \/ pc'[m] \in {"check", "poll", "read"}
    BY <1>4, Zenon
  <2>2. server'.active /\ m = server'.timerFd /\ timers'[m] # "off"
    BY <1>4, Zenon
  <2> QED
    BY <2>1, <2>2, DueByLoop, DueByTimer
<1>5. EventDue => \E m \in EventThreads : server.active /\
        (pc[m] = "loop" \/ (m = server.timerFd /\ timers[m] # "off" /\
                             pc[m] \in {"check", "poll", "read"}))
  BY SMT DEF EventDue
<1>6. CASE Stalled
  <2>1. Stalled'
    BY <1>6, Zenon DEF Stalled
  <2> QED
    BY <2>1, DueByStall
<1> QED
  BY <1>1, <1>2, <1>3, <1>4, <1>5, <1>6 DEF DueInv

(* While all threads sleep, the owner of the process will see its timer.   *)
LEMMA DueWoken ==
  ASSUME TypeInv, OwnerInv, DueInv, Quiescent, pc' = pc,
         Rests \/ (server.state # "IDLE" /\ (Woken \/ Halted))
  PROVE  DueInv'
<1>1. CASE Rests
  <2>1. /\ server'.state = server.state /\ server'.active = server.active
        /\ server'.timerFd = server.timerFd /\ timers' = timers
        /\ server.givenUp => server'.givenUp
    BY <1>1, Zenon DEF Rests
  <2> QED
    BY <2>1, DueKept, Zenon
<1>2. CASE server.state # "IDLE" /\ Woken
  <2>1. /\ starts \in EventThreads /\ pc[starts] \notin {"none", "done"}
        /\ pc[starts] # "create" => server.timerFd = starts
    BY <1>2, Zenon DEF OwnerInv
  <2>2. pc[starts] \in {"poll", "read"}
    BY <2>1, SMT DEF Quiescent
  <2>3. pc[starts] \in {"check", "poll", "read"} /\ pc[starts] # "create"
    BY <2>2, SMT
  <2>4. CASE server'.state = "IDLE"
    <3>1. server'.state \notin EventStates
      BY <2>4, SMT DEF EventStates
    <3> QED
      BY <3>1, DueOver
  <2>5. CASE server'.active /\ timers' = [timers EXCEPT ![server.timerFd] = "armed"]
    <3>1. timers'[starts] = "armed"
      BY <2>1, <2>3, <2>5, SMT DEF TypeInv, TypeOK
    <3>2. starts = server'.timerFd
      BY <1>2, <2>1, <2>3, Zenon DEF Woken
    <3>3. timers'[starts] # "off"
      BY <3>1, SMT
    <3> QED
      BY <2>1, <2>3, <2>5, <3>2, <3>3, DueByTimer, Zenon
  <2> QED
    BY <1>2, <2>4, <2>5, Zenon DEF Woken
<1>3. CASE Halted
  BY <1>3, DueByStall DEF Halted
<1> QED
  BY <1>1, <1>2, <1>3

(* A step of an event thread.                                              *)
LEMMA DueThread ==
  ASSUME ShortDelays, TypeInv, ThreadsInv, OwnerInv, DueInv, NEW n \in EventThreads,
         EventThreadStep(n)
  PROVE  DueInv'
<1>s. /\ server \in Globals /\ pc \in [EventThreads -> Labels]
      /\ timers \in [EventThreads -> {"off", "armed", "expired"}]
  BY DEF TypeInv, TypeOK
<1>p. ASSUME NEW label, Goto(n, label)
      PROVE  pc'[n] = label /\ \A m \in EventThreads : m # n => pc'[m] = pc[m]
  BY <1>s, <1>p, SMT DEF Goto
<1>1. CASE CreateTimer(n)
  <2> DEFINE a == [server EXCEPT !.timerFd = n]
  <2> DEFINE b == [a EXCEPT !.active = TRUE]
  <2>1. a \in Globals /\ a.timerFd = n
    <3>0. n \in 0..MaxStarts
      BY Constants, SMT DEF EventThreads
    <3>1. a \in Globals
      BY <1>s, <3>0, SetField
    <3> QED
      BY <1>s, <3>1, Zenon DEF Globals
  <2>2. b.timerFd = n /\ b.active
    <3> HIDE DEF a
    <3> QED
      BY <2>1, FieldSet
  <2>3. /\ server' = b /\ Goto(n, "check")
        /\ timers' = [timers EXCEPT ![n] = "armed"]
    BY <1>1, Zenon DEF CreateTimer
  <2> HIDE DEF a, b
  <2>4. timers'[n] # "off"
    BY <1>s, <2>3, SMT
  <2>5. pc'[n] \in {"check", "poll", "read"}
    BY <1>p, <2>3, Zenon
  <2> QED
    BY <2>2, <2>3, <2>4, <2>5, DueByTimer, Zenon
<1>2. CASE CheckIdle(n) \/ PollTimer(n)
  <2>1. /\ UNCHANGED <<server, timers>> /\ pc[n] \in {"check", "poll", "read"}
        /\ \/ server.state = "IDLE"
           \/ \E label \in {"poll", "read"} : Goto(n, label)
    BY <1>2, Zenon DEF CheckIdle, PollTimer
  <2>2. CASE server.state = "IDLE"
    <3>1. server'.state \notin EventStates
      BY <2>1, <2>2, SMT DEF EventStates
    <3> QED
      BY <3>1, DueOver
  <2>3. ASSUME NEW label \in {"poll", "read"}, Goto(n, label) PROVE DueInv'
    <3>1. pc'[n] \in {"check", "poll", "read", "loop"}
      BY <1>p, <2>3, SMT
    <3>2. \A m \in EventThreads :
            \/ pc'[m] = pc[m]
            \/ pc[m] \in {"check", "poll", "read"} /\ pc'[m] \in {"check", "poll", "read", "loop"}
      BY <1>p, <2>1, <2>3, <3>1, Zenon
    <3> QED
      BY <2>1, <3>2, DueKept, Zenon
  <2> QED
    BY <2>1, <2>2, <2>3
<1>3. CASE ReadTimer(n)
  <2>1. server' = server /\ Goto(n, "loop") /\ pc[n] = "read"
    BY <1>3, Zenon DEF ReadTimer
  <2>2. CASE server.active
    BY <1>p, <2>1, <2>2, DueByLoop, Zenon
  <2>3. CASE server.state \notin EventStates
    BY <2>1, <2>3, DueOver
  <2>4. CASE Stalled
    BY <2>1, <2>4, DueByStall, Zenon DEF Stalled
  <2>5. CASE ~server.active /\ ~Stalled /\ server.state \in EventStates
    <3>1. PICK m \in EventThreads : pc[m] \in Engaged
      BY <2>5, Zenon DEF DueInv, EventDue
    <3>2. m # n
      BY <2>1, <3>1, SMT DEF Engaged
    <3> QED
      BY <1>p, <2>1, <3>1, <3>2, DueByHandler, Zenon
  <2> QED
    BY <2>2, <2>3, <2>4, <2>5
<1>4. CASE EventHandler(n)
  <2>1. CASE server.active
    <3>1. /\ server' = [server EXCEPT !.active = FALSE]
          /\ Goto(n, HandlerFor(server.state))
      BY <1>4, <2>1, Zenon DEF EventHandler
    <3>2. server'.state = server.state
      BY <1>s, <3>1, FieldSet
    <3>3. server.state \in EventStates => HandlerFor(server.state) \in Engaged
      BY SMT DEF EventStates, HandlerFor, Engaged, Labels
    <3> QED
      BY <1>p, <3>1, <3>2, <3>3, DueOver, DueByHandler, Zenon
  <2>2. CASE ~server.active
    <3>1. server' = server /\ Goto(n, "check") /\ pc[n] = "loop"
      BY <1>4, <2>2, Zenon DEF EventHandler
    <3>2. CASE server.state \notin EventStates
      BY <3>1, <3>2, DueOver
    <3>3. CASE Stalled
      BY <3>1, <3>3, DueByStall, Zenon DEF Stalled
    <3>4. CASE ~Stalled /\ server.state \in EventStates
      <4>1. PICK m \in EventThreads : pc[m] \in Engaged
        BY <2>2, <3>4, Zenon DEF DueInv, EventDue
      <4>2. m # n
        BY <3>1, <4>1, SMT DEF Engaged
      <4> QED
        BY <1>p, <3>1, <4>1, <4>2, DueByHandler, Zenon
    <3> QED
      BY <3>2, <3>3, <3>4
  <2> QED
    BY <2>1, <2>2
<1>5. ASSUME NEW command, NEW segment, NEW accepted \in Engaged, NEW refused \in Engaged,
             Send(n, command, segment, accepted, refused)
      PROVE  DueInv'
  <2>1. Goto(n, accepted) \/ Goto(n, refused)
    BY <1>5, Zenon DEF Send
  <2> QED
    BY <1>p, <2>1, DueByHandler, Zenon
<1>6. CASE UnicastHandshake(n) \/ UnicastNextSegment(n) \/ RequestTargetForBootload(n)
  <2>1. {"handshakeSent", "segmentSent", "bootloadSent", "imageSendFailed", "bootloadSendFailed"}
          \subseteq Engaged
    BY SMT DEF Engaged, Labels
  <2> QED
    BY <1>5, <1>6, <2>1, SMT DEF UnicastHandshake, UnicastNextSegment, RequestTargetForBootload
<1>7. CASE DataUnderflow(n) \/ CountAndSchedule(n)
  <2>1. Woken /\ Goto(n, "loop")
    BY <1>7, ThreadWakes
  <2>2. "IDLE" \notin EventStates
    BY SMT DEF EventStates
  <2> QED
    BY <1>p, <2>1, <2>2, DueOver, DueByLoop, Zenon DEF Woken
<1>8. CASE SetPending(n)
  <2>1. server'.state \in {"HANDSHAKE_PENDING", "SEGMENT_PENDING", "BOOTLOAD_PENDING"}
    <3>1. ASSUME NEW x \in {"HANDSHAKE_PENDING", "SEGMENT_PENDING", "BOOTLOAD_PENDING"},
                 server' = [server EXCEPT !.state = x]
          PROVE  server'.state \in {"HANDSHAKE_PENDING", "SEGMENT_PENDING", "BOOTLOAD_PENDING"}
      BY <1>s, <3>1, FieldSet, ZenonT(60)
    <3>s. SegmentPending(server).state = "SEGMENT_PENDING"
      BY <1>s, PendingType
    <3>2. CASE pc[n] = "storeSegment"
      <4>1. server' = [server EXCEPT !.sentSegment = server.nextSegment]
        BY <1>8, <3>2, Zenon DEF SetPending
      <4>2. server'.state = server.state
        BY <1>s, <4>1, Zenon DEF Globals
      <4>3. pc[n] \in Engaged /\ StatesAt("storeSegment") = {"SEGMENT_PENDING"}
        BY <3>2, SMT DEF Engaged, Labels, StatesAt
      <4> QED
        BY <3>2, <4>2, <4>3, Zenon DEF ThreadsInv
    <3> QED
      BY <1>8, <3>1, <3>2, <3>s, Zenon DEF SetPending
  <2>2. server'.state \notin EventStates
    BY <2>1, SMT DEF EventStates
  <2> QED
    BY <2>2, DueOver
<1> QED
  BY <1>1, <1>2, <1>3, <1>4, <1>6, <1>7, <1>8 DEF EventThreadStep

-----------------------------------------------------------------------------
(* The reports that are still to come.                                     *)

SentLabels == {"handshakeSent", "segmentSent", "bootloadSent"}

LEMMA PendingStates ==
  /\ Pending("HANDSHAKE") = "HANDSHAKE_PENDING" /\ Pending("SEGMENT") = "SEGMENT_PENDING"
  /\ Pending("BOOTLOAD") = "BOOTLOAD_PENDING"
BY SMT DEF Pending

LEMMA CommandLabels ==
  /\ \A c \in Commands : /\ Pending(c) # "IDLE" /\ Pending(c) \notin EventStates
                         /\ Called(c) \in SentLabels
  /\ \A c, d \in Commands : Pending(c) = Pending(d) \/ Called(c) = Called(d) => c = d
  /\ SentLabels \subseteq Engaged
<1>1. /\ Pending("HANDSHAKE") = "HANDSHAKE_PENDING" /\ Called("HANDSHAKE") = "handshakeSent"
      /\ Pending("SEGMENT") = "SEGMENT_PENDING" /\ Called("SEGMENT") = "segmentSent"
      /\ Pending("BOOTLOAD") = "BOOTLOAD_PENDING" /\ Called("BOOTLOAD") = "bootloadSent"
  BY SMT DEF Pending, Called
<1>2. SentLabels \subseteq Engaged
  BY SMT DEF SentLabels, Engaged, Labels
<1>3. \A c \in Commands : /\ Pending(c) # "IDLE" /\ Pending(c) \notin EventStates
                         /\ Called(c) \in SentLabels
  BY <1>1, SMT DEF Commands, EventStates, SentLabels
<1>4. \A c, d \in Commands : Pending(c) = Pending(d) \/ Called(c) = Called(d) => c = d
  BY <1>1, SMT DEF Commands
<1> QED
  BY <1>2, <1>3, <1>4

(* The elements of the sequences that a step shortens or lengthens.        *)
LEMMA TailElements ==
  ASSUME NEW S, NEW q \in Seq(S), q # <<>>
  PROVE  /\ 1 \in DOMAIN q /\ Head(q) = q[1]
         /\ \A i \in DOMAIN q : i # 1 => i - 1 \in DOMAIN Tail(q) /\ Tail(q)[i - 1] = q[i]
         /\ \A i \in DOMAIN Tail(q) : i + 1 \in DOMAIN q /\ Tail(q)[i] = q[i + 1]
BY SMT

LEMMA AppendElements ==
  ASSUME NEW S, NEW q \in Seq(S), NEW x
  PROVE  /\ \A i \in DOMAIN q : i \in DOMAIN Append(q, x) /\ Append(q, x)[i] = q[i]
         /\ Len(q) + 1 \in DOMAIN Append(q, x) /\ Append(q, x)[Len(q) + 1] = x
         /\ \A i \in DOMAIN Append(q, x) : i \in DOMAIN q \/ i = Len(q) + 1
BY SMT

(* A step that makes the server wait for no report more ...                *)
LEMMA AwaitsNoMore ==
  ASSUME NEW c \in Commands,
         \/ server'.state = server.state
         \/ server'.state = "IDLE"
         \/ server'.state \in EventStates,
         \A m \in EventThreads : pc'[m] = pc[m] \/ pc'[m] \notin SentLabels
  PROVE  AwaitsReport(c)' => AwaitsReport(c)
BY CommandLabels, Zenon DEF AwaitsReport

(* ... and loses none of those to come.                                    *)
LEMMA StillReported ==
  ASSUME TypeInv, NEW c \in Commands,
         outbox' = outbox \/ \E x : outbox' = Append(outbox, x),
         mail' = mail \/ \E x : mail' = Append(mail, x)
  PROVE  ToBeReported(c) => ToBeReported(c)'
<1>0. outbox \in Seq(Outgoing) /\ mail \in Seq(SentReport \cup Response)
  BY DEF TypeInv
<1>1. \A i \in DOMAIN outbox : i \in DOMAIN outbox' /\ outbox'[i] = outbox[i]
  <2>1. CASE outbox' = outbox
    BY <2>1
  <2>2. ASSUME NEW x, outbox' = Append(outbox, x)
        PROVE  \A i \in DOMAIN outbox : i \in DOMAIN outbox' /\ outbox'[i] = outbox[i]
    BY <1>0, <2>2, AppendElements
  <2> QED
    BY <2>1, <2>2
<1>2. \A i \in DOMAIN mail : i \in DOMAIN mail' /\ mail'[i] = mail[i]
  <2>1. CASE mail' = mail
    BY <2>1
  <2>2. ASSUME NEW x, mail' = Append(mail, x)
        PROVE  \A i \in DOMAIN mail : i \in DOMAIN mail' /\ mail'[i] = mail[i]
    BY <1>0, <2>2, AppendElements
  <2> QED
    BY <2>1, <2>2
<1> QED
  BY <1>1, <1>2, Zenon DEF ToBeReported

LEMMA ReportsKept ==
  ASSUME ReportsInv,
         \A c \in Commands : AwaitsReport(c)' => AwaitsReport(c),
         \A c \in Commands : ToBeReported(c) => ToBeReported(c)'
  PROVE  ReportsInv'
BY Zenon DEF ReportsInv

LEMMA ReportsNone ==
  ASSUME server'.state = "IDLE" \/ server'.state \in EventStates,
         \A m \in EventThreads : pc'[m] \notin SentLabels
  PROVE  ReportsInv'
BY CommandLabels, Zenon DEF ReportsInv, AwaitsReport

(* The callbacks.                                                          *)
LEMMA ReportsCallback ==
  ASSUME ShortDelays, TypeInv, PositionInv, ReportsInv, Quiescent, Callbacks
  PROVE  ReportsInv'
<1>0. /\ mail \in Seq(SentReport \cup Response) /\ mail # <<>> /\ mail' = Tail(mail)
      /\ pc' = pc /\ outbox' = outbox
  BY Zenon DEF TypeInv, Callbacks, MessageSentCallback, IncomingMessageCallback
<1>1. \A m \in EventThreads : pc[m] \notin SentLabels
  BY QuietNobody, CommandLabels, Zenon
<1>2. CASE Woken \/ Halted
  <2>0. "SEGMENT_WAITING" \in EventStates
    BY DEF EventStates
  <2>1. server'.state = "IDLE" \/ server'.state \in EventStates
    BY <1>2, <2>0, Zenon DEF Woken, Halted, Stalled
  <2> QED
    BY <1>0, <1>1, <2>1, ReportsNone, Zenon
<1>3. CASE Rests /\ MessageSentCallback /\ server.state # Pending(Head(mail).command)
  <2> SUFFICES ASSUME NEW c \in Commands, AwaitsReport(c)' PROVE ToBeReported(c)'
    BY DEF ReportsInv
  <2>1. server'.state = server.state
    BY <1>3 DEF Rests
  <2>2. server.state = Pending(c) /\ AwaitsReport(c)
    BY <1>0, <1>1, <2>1, CommandLabels, Zenon DEF AwaitsReport
  <2>3. Head(mail).command # c
    BY <1>3, <2>2
  <2>4. ToBeReported(c)
    BY <2>2 DEF ReportsInv
  <2>5. CASE \E i \in DOMAIN outbox : outbox[i].command = c
    BY <1>0, <2>5, Zenon DEF ToBeReported
  <2>6. ASSUME NEW i \in DOMAIN mail, mail[i].type = "sent", mail[i].command = c
        PROVE  ToBeReported(c)'
    <3>1. i # 1
      BY <1>0, <2>3, <2>6, TailElements, Zenon
    <3>2. i - 1 \in DOMAIN mail' /\ mail'[i - 1] = mail[i]
      BY <1>0, <3>1, TailElements, Zenon
    <3> QED
      BY <2>6, <3>2, Zenon DEF ToBeReported
  <2> QED
    BY <2>4, <2>5, <2>6, Zenon DEF ToBeReported
<1>4. CASE Rests /\ IncomingMessageCallback
  <2>1. server'.state = server.state /\ Head(mail).type = "response"
    BY <1>4, Zenon DEF Rests, IncomingMessageCallback
  <2>2. \A c \in Commands : AwaitsReport(c)' => AwaitsReport(c)
    BY <1>0, <2>1, AwaitsNoMore, Zenon
  <2>3. ASSUME NEW i \in DOMAIN mail, mail[i].type = "sent"
        PROVE  i - 1 \in DOMAIN mail' /\ mail'[i - 1] = mail[i]
    <3>1. Head(mail).type # "sent"
      BY <2>1, SMT
    <3>2. i # 1
      BY <1>0, <2>3, <3>1, TailElements, Zenon
    <3> QED
      BY <1>0, <3>2, TailElements, Zenon
  <2>4. \A c \in Commands : ToBeReported(c) => ToBeReported(c)'
    BY <1>0, <2>3, Zenon DEF ToBeReported
  <2> QED
    BY <2>2, <2>4, ReportsKept
<1> QED
  BY <1>2, <1>3, <1>4, SentRuns, IncomingRuns, Zenon DEF Callbacks

(* A step of an event thread.                                              *)
LEMMA ReportsThread ==
  ASSUME ShortDelays, TypeInv, ThreadsInv, ReportsInv, NEW n \in EventThreads, EventThreadStep(n)
  PROVE  ReportsInv'
<1>s. server \in Globals /\ pc \in [EventThreads -> Labels] /\ outbox \in Seq(Outgoing)
  BY DEF TypeInv, TypeOK
<1>p. ASSUME NEW label, Goto(n, label)
      PROVE  pc'[n] = label /\ \A m \in EventThreads : m # n => pc'[m] = pc[m]
  BY <1>s, <1>p, SMT DEF Goto
<1>1. ASSUME NEW label, Goto(n, label), label \notin SentLabels, UNCHANGED <<outbox, mail>>,
             \/ server'.state = server.state
             \/ server'.state = "IDLE"
             \/ server'.state \in EventStates
      PROVE  ReportsInv'
  <2>1. \A m \in EventThreads : pc'[m] = pc[m] \/ pc'[m] \notin SentLabels
    BY <1>p, <1>1, Zenon
  <2>2. \A c \in Commands : AwaitsReport(c)' => AwaitsReport(c)
    BY <1>1, <2>1, AwaitsNoMore, Zenon
  <2>3. \A c \in Commands : ToBeReported(c) => ToBeReported(c)'
    BY <1>1, StillReported, Zenon
  <2> QED
    BY <2>2, <2>3, ReportsKept
<1>2. CASE CreateTimer(n) \/ CheckIdle(n) \/ PollTimer(n) \/ ReadTimer(n) \/ EventHandler(n)
  <2>1. /\ UNCHANGED <<outbox, mail>>
        /\ \/ server' = server
           \/ server' = [server EXCEPT !.active = FALSE]
           \/ server' = [server EXCEPT !.timerFd = n, !.active = TRUE]
        /\ \/ \E label \in {"check", "done", "poll", "read", "loop"} : Goto(n, label)
           \/ Goto(n, HandlerFor(server.state))
    BY <1>2, Zenon DEF CreateTimer, CheckIdle, PollTimer, ReadTimer, EventHandler, world
  <2>2. server'.state = server.state
    <3>1. server' = [server EXCEPT !.active = FALSE] => server'.state = server.state
      BY <1>s, FieldSet
    <3>2. ASSUME server' = [server EXCEPT !.timerFd = n, !.active = TRUE]
          PROVE  server'.state = server.state
      <4> DEFINE a == [server EXCEPT !.timerFd = n]
      <4>0. n \in 0..MaxStarts
        BY Constants, SMT DEF EventThreads
      <4>1. a \in Globals /\ a.state = server.state
        BY <1>s, <4>0, SetField, Zenon DEF Globals
      <4>2. server' = [a EXCEPT !.active = TRUE]
        BY <3>2
      <4> HIDE DEF a
      <4> QED
        BY <4>1, <4>2, FieldSet
    <3> QED
      BY <2>1, <3>1, <3>2
  <2>3. /\ HandlerFor(server.state) \notin SentLabels
        /\ \A label \in {"check", "done", "poll", "read", "loop"} : label \notin SentLabels
    BY SMT DEF HandlerFor, SentLabels
  <2> QED
    BY <1>1, <2>1, <2>2, <2>3, Zenon
<1>3. ASSUME NEW command \in Commands, NEW segment, NEW refused, refused \notin SentLabels,
             Send(n, command, segment, Called(command), refused)
      PROVE  ReportsInv'
  <2> DEFINE message == [command |-> command, segment |-> segment, tag |-> starts, got |-> FALSE]
  <2>0. message.command = command
    OBVIOUS
  <2>1. /\ UNCHANGED <<server, mail>>
        /\ \/ outbox' = Append(outbox, message) /\ Goto(n, Called(command))
           \/ outbox' = outbox /\ Goto(n, refused)
    BY <1>3, Zenon DEF Send
  <2> HIDE DEF message
  <2>2. CASE outbox' = outbox /\ Goto(n, refused)
    BY <1>1, <1>3, <2>1, <2>2, Zenon
  <2>3. CASE outbox' = Append(outbox, message) /\ Goto(n, Called(command))
    <3> SUFFICES ASSUME NEW c \in Commands, AwaitsReport(c)' PROVE ToBeReported(c)'
      BY DEF ReportsInv
    <3>1. CASE c = command
      <4>1. /\ Len(outbox) + 1 \in DOMAIN outbox'
            /\ outbox'[Len(outbox) + 1].command = command
        BY <1>s, <2>0, <2>3, AppendElements, ZenonT(60)
      <4> QED
        BY <3>1, <4>1, Zenon DEF ToBeReported
    <3>2. CASE c # command
      <4>1. Called(c) # Called(command)
        BY <1>3, <3>2, CommandLabels, Zenon
      <4>2. AwaitsReport(c)
        BY <1>p, <2>1, <2>3, <4>1, Zenon DEF AwaitsReport
      <4>3. ToBeReported(c)
        BY <4>2, Zenon DEF ReportsInv
      <4> QED
        BY <2>1, <2>3, <4>3, StillReported, Zenon
    <3> QED
      BY <3>1, <3>2
  <2> QED
    BY <2>1, <2>2, <2>3
<1>4. CASE UnicastHandshake(n) \/ UnicastNextSegment(n) \/ RequestTargetForBootload(n)
  <2>1. /\ Commands = {"HANDSHAKE", "SEGMENT", "BOOTLOAD"}
        /\ Called("HANDSHAKE") = "handshakeSent" /\ Called("SEGMENT") = "segmentSent"
        /\ Called("BOOTLOAD") = "bootloadSent"
        /\ "imageSendFailed" \notin SentLabels /\ "bootloadSendFailed" \notin SentLabels
    BY SMT DEF Called, Commands, SentLabels
  <2>2. \/ Send(n, "HANDSHAKE", 0, "handshakeSent", "imageSendFailed")
        \/ Send(n, "SEGMENT", server.nextSegment, "segmentSent", "imageSendFailed")
        \/ Send(n, "BOOTLOAD", 0, "bootloadSent", "bootloadSendFailed")
    BY <1>4, Zenon DEF UnicastHandshake, UnicastNextSegment, RequestTargetForBootload
  <2> QED
    BY <1>3, <2>1, <2>2, SMT
<1>5. CASE DataUnderflow(n) \/ CountAndSchedule(n)
  <2>1. Woken /\ Goto(n, "loop")
    BY <1>5, ThreadWakes
  <2>2. UNCHANGED <<outbox, mail>>
    BY <1>5, Zenon DEF DataUnderflow, CountAndSchedule, world
  <2>3. "loop" \notin SentLabels
    BY SMT DEF SentLabels
  <2> QED
    BY <1>1, <2>1, <2>2, <2>3, Zenon DEF Woken
<1>6. CASE SetPending(n)
  <2>1. /\ UNCHANGED <<outbox, mail>>
        /\ \/ pc[n] = "storeSegment" /\ Goto(n, "loop")
              /\ server' = [server EXCEPT !.sentSegment = server.nextSegment]
           \/ /\ Goto(n, "loop") \/ Goto(n, "storeSegment")
              /\ \E c \in {"HANDSHAKE", "SEGMENT", "BOOTLOAD"} :
                   /\ pc[n] = Called(c)
                   /\ \/ server' = [server EXCEPT !.state = Pending(c)]
                      \/ c = "SEGMENT" /\ server' = SegmentPending(server)
    <3>1. /\ Called("HANDSHAKE") = "handshakeSent" /\ Pending("HANDSHAKE") = "HANDSHAKE_PENDING"
          /\ Called("SEGMENT") = "segmentSent" /\ Pending("SEGMENT") = "SEGMENT_PENDING"
          /\ Called("BOOTLOAD") = "bootloadSent" /\ Pending("BOOTLOAD") = "BOOTLOAD_PENDING"
      BY SMT DEF Called, Pending
    <3> QED
      BY <1>6, <3>1, Zenon DEF SetPending, world
  <2>2. "loop" \notin SentLabels /\ "storeSegment" \notin SentLabels
    BY SMT DEF SentLabels
  <2>3. CASE server' = [server EXCEPT !.sentSegment = server.nextSegment] /\ Goto(n, "loop")
    <3>1. server'.state = server.state
      BY <1>s, <2>3, Zenon DEF Globals
    <3> QED
      BY <1>1, <2>1, <2>2, <2>3, <3>1, Zenon
  <2>4. ASSUME NEW d \in Commands, pc[n] = Called(d),
               \/ server' = [server EXCEPT !.state = Pending(d)]
               \/ d = "SEGMENT" /\ server' = SegmentPending(server),
               Goto(n, "loop") \/ Goto(n, "storeSegment")
        PROVE  ReportsInv'
    <3>1. server'.state = Pending(d)
      <4>1. CASE server' = [server EXCEPT !.state = Pending(d)]
        BY <1>s, <4>1, FieldSet
      <4>2. CASE d = "SEGMENT" /\ server' = SegmentPending(server)
        <5>1. SegmentPending(server).state = "SEGMENT_PENDING"
          BY <1>s, PendingType
        <5> QED
          BY <4>2, <5>1, PendingStates
      <4> QED
        BY <2>4, <4>1, <4>2
    <3>2. \A m \in EventThreads : pc'[m] = pc[m] \/ pc'[m] \notin SentLabels
      BY <1>p, <2>2, <2>4, Zenon
    <3>3. AwaitsReport(d)
      BY <2>4, Zenon DEF AwaitsReport
    <3>4. \A c \in Commands : AwaitsReport(c)' => AwaitsReport(c)
      BY <3>1, <3>2, <3>3, CommandLabels, Zenon DEF AwaitsReport
    <3>5. \A c \in Commands : ToBeReported(c) => ToBeReported(c)'
      BY <2>1, StillReported, Zenon
    <3> QED
      BY <3>4, <3>5, ReportsKept
  <2> QED
    BY <2>1, <2>3, <2>4, Zenon DEF Commands
<1> QED
  BY <1>2, <1>4, <1>5, <1>6 DEF EventThreadStep

(* The clock, the NCP and the target: the commands of the messages stay.   *)
LEMMA ReportsWorld ==
  ASSUME TypeInv, ReportsInv, UNCHANGED <<server, pc>>,
         \A c \in Commands : ToBeReported(c) => ToBeReported(c)'
  PROVE  ReportsInv'
<1>1. \A c \in Commands : AwaitsReport(c)' => AwaitsReport(c)
  BY Zenon DEF AwaitsReport
<1> QED
  BY <1>1, ReportsKept

LEMMA ReportsReceives ==
  ASSUME TypeInv, ReportsInv, TargetReceives
  PROVE  ReportsInv'
<1>0. /\ outbox \in Seq(Outgoing) /\ outbox # <<>> /\ outbox' = [outbox EXCEPT ![1].got = TRUE]
      /\ UNCHANGED <<server, pc, mail>>
  BY Zenon DEF TypeInv, TargetReceives
<1>1. 1 \in DOMAIN outbox /\ outbox[1] \in Outgoing
  BY <1>0, SMT
<1>2. DOMAIN outbox' = DOMAIN outbox
  BY <1>0, Zenon
<1>3. outbox'[1] = [outbox[1] EXCEPT !.got = TRUE]
  BY <1>0, <1>1, Zenon
<1>4. outbox'[1].command = outbox[1].command
  BY <1>1, <1>3, Zenon DEF Outgoing
<1>5. \A i \in DOMAIN outbox : outbox'[i].command = outbox[i].command
  BY <1>0, <1>4, Zenon
<1>6. \A c \in Commands : ToBeReported(c) => ToBeReported(c)'
  BY <1>0, <1>2, <1>5, Zenon DEF ToBeReported
<1> QED
  BY <1>0, <1>6, ReportsWorld

LEMMA ReportsReport ==
  ASSUME TypeInv, ReportsInv, Report
  PROVE  ReportsInv'
<1>0. PICK status \in {"SUCCESS", "NO_ACK", "FAILED"} : ReportSent(status)
  BY DEF Report
<1> DEFINE sent == [type |-> "sent", command |-> Head(outbox).command, status |-> status]
<1>1. /\ outbox \in Seq(Outgoing) /\ outbox # <<>> /\ outbox' = Tail(outbox)
      /\ mail \in Seq(SentReport \cup Response) /\ mail' = Append(mail, sent)
      /\ UNCHANGED <<server, pc>>
  BY <1>0, Zenon DEF TypeInv, ReportSent
<1>2. sent.type = "sent" /\ sent.command = Head(outbox).command
  OBVIOUS
<1> HIDE DEF sent
<1>3. /\ Len(mail) + 1 \in DOMAIN mail' /\ mail'[Len(mail) + 1] = sent
      /\ \A i \in DOMAIN mail : i \in DOMAIN mail' /\ mail'[i] = mail[i]
  BY <1>1, AppendElements
<1>4. ASSUME NEW c \in Commands, ToBeReported(c) PROVE ToBeReported(c)'
  <2>1. ASSUME NEW i \in DOMAIN mail, mail[i].type = "sent", mail[i].command = c
        PROVE  ToBeReported(c)'
    BY <1>3, <2>1, Zenon DEF ToBeReported
  <2>2. ASSUME NEW i \in DOMAIN outbox, outbox[i].command = c, i # 1
        PROVE  ToBeReported(c)'
    <3>1. i - 1 \in DOMAIN outbox' /\ outbox'[i - 1] = outbox[i]
      BY <1>1, <2>2, TailElements, Zenon
    <3> QED
      BY <2>2, <3>1, Zenon DEF ToBeReported
  <2>3. ASSUME outbox[1].command = c PROVE ToBeReported(c)'
    <3>1. Head(outbox) = outbox[1]
      BY <1>1, TailElements
    <3> QED
      BY <1>2, <1>3, <2>3, <3>1, Zenon DEF ToBeReported
  <2> QED
    BY <1>4, <2>1, <2>2, <2>3, Zenon DEF ToBeReported
<1> QED
  BY <1>1, <1>4, ReportsWorld

(* Every step but the initiation.                                          *)
LEMMA ReportsStep ==
  ASSUME "during handler" \notin Races, ShortDelays, TypeInv, ThreadsInv, PositionInv,
         ReportsInv, [Next]_vars
  PROVE  ReportsInv' \/ \E kind \in ProcessKinds : Initiate(kind)
<1>1. CASE AbortCurrentProcess
  <2>1. Quiescent /\ UNCHANGED <<pc, outbox, mail>>
    BY <1>1, Zenon DEF AbortCurrentProcess, MayInterrupt, world
  <2>2. \A m \in EventThreads : pc'[m] = pc[m] \/ pc'[m] \notin SentLabels
    BY <2>1
  <2>3. \/ server'.state = server.state
        \/ server'.state = "IDLE"
        \/ server'.state \in EventStates
    BY <1>1, AbortWakes, Zenon DEF Rests, Woken
  <2>4. \A c \in Commands : AwaitsReport(c)' => AwaitsReport(c)
    BY <2>2, <2>3, AwaitsNoMore, Zenon
  <2>5. \A c \in Commands : ToBeReported(c) => ToBeReported(c)'
    BY <2>1, StillReported, Zenon
  <2> QED
    BY <2>4, <2>5, ReportsKept
<1>2. CASE Callbacks
  <2>1. Quiescent
    BY <1>2, Zenon DEF Callbacks, MessageSentCallback, IncomingMessageCallback, MayInterrupt
  <2> QED
    BY <1>2, <2>1, ReportsCallback
<1>3. ASSUME NEW n \in EventThreads, EventThreadStep(n) PROVE ReportsInv'
  BY <1>3, ReportsThread
<1>4. CASE TargetAnswers \/ UNCHANGED vars \/ \E n \in EventThreads : TimerExpires(n)
  <2>1. /\ UNCHANGED <<server, pc, outbox>>
        /\ mail' = mail \/ \E x : mail' = Append(mail, x)
    BY <1>4, Zenon DEF TargetAnswers, vars, TimerExpires, world
  <2>2. \A c \in Commands : ToBeReported(c) => ToBeReported(c)'
    BY <2>1, StillReported, Zenon
  <2> QED
    BY <2>1, <2>2, ReportsWorld
<1> QED
  BY <1>1, <1>2, <1>3, <1>4, ReportsReceives, ReportsReport, Zenon DEF Next, Resting

-----------------------------------------------------------------------------
(* All of it.                                                              *)

LEMMA GoesOnInit == Init => GoesOnInv
<1> SUFFICES ASSUME Init PROVE GoesOnInv
  OBVIOUS
<1>1. /\ server.state = "IDLE" /\ mail = <<>>
      /\ pc = [n \in EventThreads |-> "none"]
  BY SMT DEF Init
<1>2. OwnerInv
  BY <1>1, SMT DEF OwnerInv
<1>3. DueInv
  BY <1>1, SMT DEF DueInv, EventStates
<1>4. ReportsInv
  <2>1. \A c \in Commands : Pending(c) # "IDLE" /\ Called(c) # "none"
    <3>1. "none" \notin SentLabels
      BY SMT DEF SentLabels
    <3> QED
      BY <3>1, CommandLabels, Zenon
  <2> QED
    BY <1>1, <2>1, Zenon DEF ReportsInv, AwaitsReport
<1> QED
  BY <1>2, <1>3, <1>4 DEF GoesOnInv

(* A new process: its thread, not yet started, owns it.                    *)
LEMMA GoesOnInitiate ==
  ASSUME TypeInv, ThreadsInv, GoesOnInv, NEW kind \in ProcessKinds, Initiate(kind)
  PROVE  OwnerInv' /\ DueInv' /\ ReportsInv'
<1> DEFINE x == IF kind = "image" THEN "HANDSHAKE_INTERVAL" ELSE "BOOTLOAD_INTERVAL"
<1> DEFINE a == [server EXCEPT !.nextSegment = 0, !.stackErrors = 0, !.targetErrors = 0]
<1> DEFINE b == [a EXCEPT !.state = x]
<1>0. /\ server' = b /\ starts' = starts + 1 /\ starts < MaxStarts /\ server.state = "IDLE"
      /\ pc' = [pc EXCEPT ![starts + 1] = "create"]
      /\ pc \in [EventThreads -> Labels]
  BY Zenon DEF Initiate, Goto, TypeInv, TypeOK
<1>1. a \in Globals
  <2>1. server \in Globals
    BY DEF TypeInv, TypeOK
  <2> QED
    BY <2>1, ResetType
<1>2. b.state = x
  <2> HIDE DEF a, x
  <2> QED
    BY <1>1, FieldSet
<1>3. x \in EventStates
  BY SMT DEF EventStates
<1> HIDE DEF a, b, x
<1>4. starts' \in EventThreads
  <2>1. starts \in Nat
    BY Constants, SMT DEF TypeInv, TypeOK
  <2> QED
    BY <1>0, <2>1, Constants, SMT DEF EventThreads
<1>5. pc'[starts'] = "create" /\ \A m \in EventThreads : m # starts' => pc'[m] = pc[m]
  BY <1>0, <1>4, SMT
<1>6. \A m \in EventThreads : pc[m] \notin Engaged
  BY <1>0, EngagedRuns, Zenon DEF ThreadsInv
<1>7. "create" \in Engaged /\ "create" \notin {"none", "done"} /\ "create" \notin SentLabels
  BY SMT DEF Engaged, Labels, SentLabels
<1>8. OwnerInv'
  <2>1. \A m \in EventThreads : pc'[m] = "create" => m = starts'
    BY <1>5, <1>6, <1>7, Zenon
  <2> QED
    BY <1>4, <1>5, <1>7, <2>1, Zenon DEF OwnerInv
<1>9. DueInv'
  BY <1>4, <1>5, <1>7, DueByHandler, Zenon
<1>10. ReportsInv'
  <2>1. \A m \in EventThreads : pc'[m] \notin SentLabels
    BY <1>5, <1>6, <1>7, CommandLabels, Zenon
  <2> QED
    BY <1>0, <1>2, <1>3, <2>1, ReportsNone, Zenon
<1> QED
  BY <1>8, <1>9, <1>10

(* Every step keeps what keeps a process going.                            *)
LEMMA GoesOnWithin ==
  ASSUME "during handler" \notin Races, ShortDelays, TypeInv, ThreadsInv, PositionInv, GoesOnInv,
         [Next]_vars, starts' = starts, server.state = "IDLE" => server'.state = "IDLE",
         ~\E kind \in ProcessKinds : Initiate(kind)
  PROVE  OwnerInv' /\ DueInv'
<1>g. OwnerInv /\ DueInv
  BY DEF GoesOnInv
<1>1. CASE AbortCurrentProcess \/ Callbacks
  <2>1. Quiescent /\ pc' = pc
    BY <1>1, Zenon DEF AbortCurrentProcess, Callbacks, MessageSentCallback,
                       IncomingMessageCallback, MayInterrupt
  <2>2. Rests \/ (server.state # "IDLE" /\ (Woken \/ Halted))
    BY <1>1, AbortWakes, SentRuns, IncomingRuns, Zenon DEF Callbacks
  <2>3. server'.timerFd = server.timerFd
    BY <2>2, Zenon DEF Rests, Woken, Halted
  <2> QED
    BY <1>g, <2>1, <2>2, <2>3, OwnerKept, DueWoken
<1>2. ASSUME NEW n \in EventThreads, EventThreadStep(n) PROVE OwnerInv' /\ DueInv'
  BY <1>2, <1>g, OwnerThread, DueThread
<1>3. CASE \/ TargetReceives \/ Report \/ TargetAnswers \/ UNCHANGED vars
           \/ \E n \in EventThreads : TimerExpires(n)
  <2>1. /\ UNCHANGED <<server, pc>>
        /\ timers' = timers \/ \E n \in EventThreads : timers' = [timers EXCEPT ![n] = "expired"]
    BY <1>3, Zenon DEF TargetReceives, Report, ReportSent, TargetAnswers, vars, TimerExpires
  <2>2. timers \in [EventThreads -> {"off", "armed", "expired"}]
    BY DEF TypeInv, TypeOK
  <2>3. \A m \in EventThreads : timers[m] # "off" => timers'[m] # "off"
    BY <2>1, <2>2, ExpiredIsOn, Zenon
  <2>4. DueInv'
    BY <1>g, <2>1, <2>3, DueKept, Zenon
  <2>5. OwnerInv'
    BY <1>g, <2>1, OwnerKept, Zenon
  <2> QED
    BY <2>4, <2>5
<1> QED
  BY <1>1, <1>2, <1>3, Zenon DEF Next, Resting

LEMMA GoesOnStep ==
  ASSUME "during handler" \notin Races, ConformingTarget, ShortDelays, IInv, GoesOnInv, [Next]_vars
  PROVE  GoesOnInv'
<1>0. TypeInv /\ ThreadsInv /\ PositionInv /\ ReportsInv
  BY Zenon DEF IInv, ControlInv, PlaceInv, GoesOnInv
<1>1. ASSUME NEW kind \in ProcessKinds, Initiate(kind) PROVE GoesOnInv'
  BY <1>0, <1>1, GoesOnInitiate, Zenon DEF GoesOnInv
<1>2. ASSUME ~\E kind \in ProcessKinds : Initiate(kind) PROVE GoesOnInv'
  <2>1. starts' = starts /\ (server.state = "IDLE" => server'.state = "IDLE")
    BY <1>2, StaysInProcess, Zenon
  <2>2. OwnerInv' /\ DueInv'
    BY <1>0, <1>2, <2>1, GoesOnWithin, Zenon
  <2>3. ReportsInv'
    BY <1>0, <1>2, ReportsStep, Zenon
  <2> QED
    BY <2>2, <2>3, Zenon DEF GoesOnInv
<1> QED
  BY <1>1, <1>2, Zenon

(* There is no place in an empty queue. *)
LEMMA NothingWaits == \A i : i \notin DOMAIN <<>>
  BY SMT

(* A process that runs is never forgotten: whenever all event threads      *)
(* sleep, the timer of a thread that waits for it is set or expired and    *)
(* its event due, or the NCP has yet to report a message, whatever was     *)
(* lost, late or refused before.  There is one exception, which            *)
(* NeverForgotten names: a target that answers a segment with FAILED or    *)
(* ABORTED before the message is reported as sent.  Assumed are a target   *)
(* that says ONGOING to no last segment (ConformingTarget: that answer     *)
(* leaves the process with nothing due), delays below a second (the        *)
(* timespec does not take a whole one), and that no callback and no abort  *)
(* comes while an event thread is between two polls                        *)
(* (ota-unicast-bootloader-server.c:68-180, 217-227, 363-415, 505-582,     *)
(* 627-740).                                                               *)
THEOREM NeverForgottenHolds ==
  "during handler" \notin Races /\ ConformingTarget /\ ShortDelays => (Spec => []NeverForgotten)
<1> SUFFICES ASSUME "during handler" \notin Races, ConformingTarget, ShortDelays
             PROVE  Spec => []NeverForgotten
  OBVIOUS
<1>1. Spec => []IInv
  BY IInvHolds
<1>2. IInv /\ GoesOnInv /\ [Next]_vars => GoesOnInv'
  BY GoesOnStep
<1>3. IInv /\ GoesOnInv => NeverForgotten
  <2> SUFFICES ASSUME IInv, GoesOnInv, Quiescent PROVE NeverForgotten
    BY Zenon DEF NeverForgotten
  <2>1. \A n \in EventThreads : pc[n] \notin Engaged
    BY QuietNobody
  <2>2. server.state \in EventStates => EventDue \/ Stalled
    BY <2>1, Zenon DEF GoesOnInv, DueInv
  <2>3. ASSUME NEW c \in Commands, server.state = Pending(c)
        PROVE  outbox # <<>> \/ \E i \in DOMAIN mail : mail[i].type = "sent"
    <3>1. ToBeReported(c)
      BY <2>3, Zenon DEF GoesOnInv, ReportsInv, AwaitsReport
    <3> QED
      BY <3>1, NothingWaits, Zenon DEF ToBeReported
  <2> QED
    BY <2>2, <2>3, PendingStates, Zenon DEF NeverForgotten, Commands, EventStates
<1> QED
  BY <1>1, <1>2, <1>3, GoesOnInit, PTL DEF Spec
=============================================================================
