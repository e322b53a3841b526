--------------------------- MODULE OtaServerSafety ---------------------------
(***************************************************************************)
(* The OTA server skips no segment and implements the contract of its      *)
(* header, for every value of the constants.                               *)
(***************************************************************************)
EXTENDS OtaServerControl

-----------------------------------------------------------------------------
(* The server stands at the same segment of the same process.              *)
SamePlace(s, t) ==
  /\ ProcessOf(t.state) = ProcessOf(s.state)
  /\ t.state \in ImageDistributionStates <=> s.state \in ImageDistributionStates
  /\ t.state \in SentStates => s.state \in SentStates
  /\ t.nextSegment = s.nextSegment /\ t.sentSegment = s.sentSegment

(* What a function makes of the place of the server: it keeps it, ...      *)
Keeps(s, r) == r.outcome \notin ProcessKinds /\ SamePlace(s, r.globals)

(* ... ends the process without success, ...                               *)
Ends(s, r) ==
  /\ s.state # "IDLE" /\ r.globals.state = "IDLE" /\ r.outcome = ProcessOf(s.state)
  /\ r.outcome = "image" => r.status # "SUCCESS"

(* ... ends a distribution with its last segment, ...                      *)
Succeeds(s, r) ==
  s.state \in SentStates /\ r.globals.state = "IDLE" /\ r.outcome = "image"

(* ... takes the segment the target wants to start with, ...               *)
Agrees(s, r, segment) ==
  /\ s.state \in HandshakeStates /\ r.globals.state = "SEGMENT_INTERVAL"
  /\ r.globals.nextSegment = segment /\ r.outcome \notin ProcessKinds

(* ... or moves on to the next segment.                                    *)
Moves(s, r) ==
  /\ s.state \in SentStates /\ r.globals.state = "SEGMENT_INTERVAL"
  /\ r.globals.nextSegment = s.nextSegment + 1 /\ r.outcome \notin ProcessKinds

(* Which process the server is in, by its state.                           *)
LEMMA Kinds ==
  /\ \A x \in ServerStates : ProcessOf(x) = "none" <=> x = "IDLE"
  /\ \A x \in ServerStates : ProcessOf(x) = "image" <=>
        x \in ImageDistributionStates \/ x \in HandshakeStates
  /\ \A x \in ServerStates : ProcessOf(x) = "bootload" <=> x \in BootloadRequestStates
  /\ \A x \in ServerStates : ProcessOf(x) \in {"none", "image", "bootload"}
  /\ \A x \in ServerStates : ~(x \in ImageDistributionStates /\ x \in HandshakeStates)
BY SMT DEF ProcessOf, ServerStates, ImageDistributionStates, HandshakeStates,
           BootloadRequestStates

(* The states of a distribution, one by one.                               *)
LEMMA Places ==
  /\ \A x \in {"HANDSHAKE_INTERVAL", "HANDSHAKE_PENDING", "HANDSHAKE_WAITING"} :
       /\ x \in ServerStates /\ x # "IDLE" /\ ProcessOf(x) = "image"
       /\ x \in HandshakeStates /\ x \notin ImageDistributionStates /\ x \notin SentStates
  /\ \A x \in {"SEGMENT_INTERVAL", "SEGMENT_PENDING", "SEGMENT_WAITING"} :
       /\ x \in ServerStates /\ x # "IDLE" /\ ProcessOf(x) = "image"
       /\ x \in ImageDistributionStates /\ x \notin HandshakeStates
       /\ x \in SentStates <=> x # "SEGMENT_INTERVAL"
<1>1. ASSUME NEW x \in {"HANDSHAKE_INTERVAL", "HANDSHAKE_PENDING", "HANDSHAKE_WAITING"}
      PROVE  /\ x \in ServerStates /\ x # "IDLE"
             /\ x \in HandshakeStates /\ x \notin ImageDistributionStates /\ x \notin SentStates
  BY SMT DEF ServerStates, HandshakeStates, ImageDistributionStates, SentStates
<1>2. ASSUME NEW x \in {"SEGMENT_INTERVAL", "SEGMENT_PENDING", "SEGMENT_WAITING"}
      PROVE  /\ x \in ServerStates /\ x # "IDLE"
             /\ x \in ImageDistributionStates /\ x \notin HandshakeStates
             /\ x \in SentStates <=> x # "SEGMENT_INTERVAL"
  BY SMT DEF ServerStates, HandshakeStates, ImageDistributionStates, SentStates
<1> QED
  BY <1>1, <1>2, Kinds, Zenon

(* A completed process has ended.                                          *)
LEMMA FinishedEnds ==
  ASSUME NEW s \in Globals, s.state # "IDLE", NEW status,
         status # "SUCCESS" \/ ProcessOf(s.state) # "image"
  PROVE  Ends(s, Finished(s, ProcessOf(s.state), status))
<1> DEFINE a == [s EXCEPT !.active = FALSE]
<1> DEFINE g == [a EXCEPT !.state = "IDLE"]
<1>1. a \in Globals
  BY SetField
<1>2. g.state = "IDLE"
  <2> HIDE DEF a
  <2> QED
    BY <1>1, SMT DEF Globals
<1>3. /\ Finished(s, ProcessOf(s.state), status).globals = g
      /\ Finished(s, ProcessOf(s.state), status).outcome = ProcessOf(s.state)
      /\ Finished(s, ProcessOf(s.state), status).status = status
  BY SMT DEF Finished
<1> HIDE DEF a, g
<1> QED
  BY <1>2, <1>3, Zenon DEF Ends

(* A distribution that does not succeed has ended.                         *)
LEMMA ImageEnds ==
  ASSUME NEW s \in Globals, s.state \in ImageDistributionStates \/ s.state \in HandshakeStates,
         NEW status, status # "SUCCESS"
  PROVE  Ends(s, ImageDistributionProcessFinished(s, status))
<1>1. s.state \in ServerStates
  BY DEF Globals
<1>2. s.state # "IDLE" /\ ProcessOf(s.state) = "image"
  BY <1>1, Kinds, Zenon
<1> QED
  BY <1>2, FinishedEnds DEF ImageDistributionProcessFinished

(* A bootload request has ended, also with success.                        *)
LEMMA BootloadEnds ==
  ASSUME NEW s \in Globals, s.state \in BootloadRequestStates, NEW status
  PROVE  Ends(s, BootloadRequestProcessFinished(s, status))
<1>1. s.state \in ServerStates
  BY DEF Globals
<1>2. s.state # "IDLE" /\ ProcessOf(s.state) = "bootload"
  BY <1>1, Kinds, Zenon
<1>3. ProcessOf(s.state) # "image"
  BY <1>2, SMT
<1> QED
  BY <1>2, <1>3, FinishedEnds, Zenon DEF BootloadRequestProcessFinished

(* Setting the timer keeps the place.                                      *)
LEMMA ScheduleKeeps ==
  ASSUME NEW s \in Globals, NEW ms \in Nat
  PROVE  Keeps(s, ScheduleNextEvent(s, ms))
<1> DEFINE g == [s EXCEPT !.active = TRUE]
<1>1. /\ g.state = s.state /\ g.nextSegment = s.nextSegment /\ g.sentSegment = s.sentSegment
  BY SMT DEF Globals
<1>2. /\ ScheduleNextEvent(s, ms).globals = g
      /\ ScheduleNextEvent(s, ms).outcome \in {"armed", "none"}
  BY SMT DEF ScheduleNextEvent
<1> HIDE DEF g
<1>3. SamePlace(s, g)
  BY <1>1, SMT DEF SamePlace
<1>4. ScheduleNextEvent(s, ms).outcome \notin ProcessKinds
  BY <1>2, SMT DEF ProcessKinds
<1> QED
  BY <1>2, <1>3, <1>4, Zenon DEF Keeps

(* So does doing nothing.                                                  *)
LEMMA QuietlyKeeps ==
  ASSUME NEW s \in Globals
  PROVE  Keeps(s, Quietly(s))
<1>1. Quietly(s).globals = s /\ Quietly(s).outcome = "none"
  BY SMT DEF Quietly
<1>2. SamePlace(s, s) /\ Quietly(s).outcome \notin ProcessKinds
  BY <1>1, SMT DEF SamePlace, ProcessKinds
<1> QED
  BY <1>1, <1>2, Zenon DEF Keeps

(* Only the place matters to what a function makes of it.                  *)
LEMMA PlaceCarries ==
  ASSUME NEW s \in Globals, NEW t \in Globals, SamePlace(s, t), NEW r
  PROVE  /\ Keeps(t, r) => Keeps(s, r)
         /\ Ends(t, r) => Ends(s, r)
<1>1. Keeps(t, r) => Keeps(s, r)
  BY Zenon DEF Keeps, SamePlace
<1>2. Ends(t, r) => Ends(s, r)
  <2>1. s.state \in ServerStates /\ t.state \in ServerStates
    BY DEF Globals
  <2>2. s.state = "IDLE" <=> t.state = "IDLE"
    BY <2>1, Kinds, Zenon DEF SamePlace
  <2> QED
    BY <2>2, Zenon DEF Ends, SamePlace
<1> QED
  BY <1>1, <1>2

(* A state of the same kind and neither sent nor answered.                 *)
LEMMA StatePlace ==
  ASSUME NEW s \in Globals, NEW x \in ServerStates, ProcessOf(x) = ProcessOf(s.state),
         x \in ImageDistributionStates <=> s.state \in ImageDistributionStates,
         x \in SentStates => s.state \in SentStates
  PROVE  SamePlace(s, [s EXCEPT !.state = x])
<1> DEFINE t == [s EXCEPT !.state = x]
<1>1. t.state = x /\ t.nextSegment = s.nextSegment /\ t.sentSegment = s.sentSegment
  BY SMT DEF Globals
<1> HIDE DEF t
<1>2. SamePlace(s, t)
  BY <1>1, Zenon DEF SamePlace
<1> QED
  BY <1>2 DEF t

(* The next task of a distribution moves only after a response.            *)
LEMMA ScheduleImagePlace ==
  ASSUME NEW s \in Globals, NEW new \in BOOLEAN,
         s.state \in {"HANDSHAKE_INTERVAL", "SEGMENT_INTERVAL", "HANDSHAKE_WAITING",
                      "SEGMENT_WAITING"},
         new /\ s.state = "SEGMENT_WAITING" => s.nextSegment < TotalSegments
  PROVE  LET r == ScheduleImageDistributionProcessNextTask(s, new)
         IN  \/ Keeps(s, r) \/ Ends(s, r)
             \/ new /\ s.state = "SEGMENT_WAITING" /\ Moves(s, r)
<1> DEFINE r == ScheduleImageDistributionProcessNextTask(s, new)
<1> DEFINE a == [s EXCEPT !.nextSegment = IF new THEN @ + 1 ELSE @]
<1> DEFINE b == [a EXCEPT !.state = "SEGMENT_INTERVAL"]
<1> DEFINE c == [s EXCEPT !.state = "HANDSHAKE_INTERVAL"]
<1>0. /\ s.nextSegment \in Nat /\ TotalSegments \in Nat
      /\ s.state \in ImageDistributionStates \/ s.state \in HandshakeStates
  BY Constants, SMT DEF Globals, ImageDistributionStates, HandshakeStates
<1>1. /\ Ends(s, ImageDistributionProcessFinished(s, "STACK_ERROR"))
      /\ Ends(s, ImageDistributionProcessFinished(s, "UNREACHABLE"))
  BY <1>0, ImageEnds
<1>2. Keeps(s, ScheduleNextEvent(s, TxIntervalMs))
  BY ScheduleKeeps, Constants
<1>3. CASE s.state \in {"HANDSHAKE_INTERVAL", "SEGMENT_INTERVAL"}
  <2>1. r \in {ImageDistributionProcessFinished(s, "STACK_ERROR"),
               ImageDistributionProcessFinished(s, "UNREACHABLE"),
               ScheduleNextEvent(s, TxIntervalMs)}
    <3> HIDE DEF a, b, c
    <3> QED
      BY <1>3, SMT DEF ScheduleImageDistributionProcessNextTask
  <2> QED
    BY <1>1, <1>2, <2>1, Zenon
<1>4. CASE s.state = "HANDSHAKE_WAITING"
  <2>1. c \in Globals
    BY SetField, States
  <2>2. SamePlace(s, c)
    <3>1. /\ "HANDSHAKE_INTERVAL" \in ServerStates
          /\ ProcessOf("HANDSHAKE_INTERVAL") = ProcessOf(s.state)
          /\ "HANDSHAKE_INTERVAL" \notin ImageDistributionStates
          /\ s.state \notin ImageDistributionStates
          /\ "HANDSHAKE_INTERVAL" \notin SentStates
      <4>1. /\ "HANDSHAKE_INTERVAL" \in ServerStates
            /\ ProcessOf("HANDSHAKE_INTERVAL") = ProcessOf("HANDSHAKE_WAITING")
            /\ "HANDSHAKE_INTERVAL" \notin ImageDistributionStates
            /\ "HANDSHAKE_WAITING" \notin ImageDistributionStates
            /\ "HANDSHAKE_INTERVAL" \notin SentStates
        BY Places, Zenon
      <4> QED
        BY <1>4, <4>1, Zenon
    <3> QED
      BY <3>1, StatePlace
  <2>3. r \in {ImageDistributionProcessFinished(s, "UNREACHABLE"),
               ScheduleNextEvent(c, TxIntervalMs)}
    <3> HIDE DEF a, b
    <3> QED
      BY <1>4, SMT DEF ScheduleImageDistributionProcessNextTask
  <2> HIDE DEF c
  <2>4. Keeps(s, ScheduleNextEvent(c, TxIntervalMs))
    BY <2>1, <2>2, ScheduleKeeps, PlaceCarries, Constants
  <2> QED
    BY <1>1, <2>3, <2>4, Zenon
<1>5. CASE s.state = "SEGMENT_WAITING"
  <2>1. a \in Globals /\ a.nextSegment = (IF new THEN s.nextSegment + 1 ELSE s.nextSegment)
                      /\ a.sentSegment = s.sentSegment
    <3>1. (IF new THEN s.nextSegment + 1 ELSE s.nextSegment) \in Nat
      BY <1>0, SMT
    <3> QED
      BY <3>1, SetField, Zenon DEF Globals
  <2>2. b \in Globals /\ b.nextSegment = a.nextSegment /\ b.state = "SEGMENT_INTERVAL"
                      /\ b.sentSegment = a.sentSegment
    <3> HIDE DEF a
    <3>1. b \in Globals
      BY <2>1, SetField, States
    <3> QED
      BY <2>1, <3>1, Zenon DEF Globals
  <2>3. r \in {ImageDistributionProcessFinished(b, "UNREACHABLE"),
               ScheduleNextEvent(b, TxIntervalMs)}
    <3> DEFINE h == [s EXCEPT !.nextSegment = IF new THEN @ + 1 ELSE @,
                              !.state = "SEGMENT_INTERVAL"]
    <3>1. r \in {ImageDistributionProcessFinished(h, "UNREACHABLE"),
                 ScheduleNextEvent(h, TxIntervalMs)}
      <4>1. ~(new /\ s.nextSegment >= TotalSegments)
        BY <1>0, <1>5, SMT
      <4> HIDE DEF a, b, c
      <4> QED
        BY <1>5, <4>1, SMT DEF ScheduleImageDistributionProcessNextTask
    <3> QED
      BY <3>1
  <2> HIDE DEF a, b, r
  <2>4. s.state # "IDLE" /\ ProcessOf(s.state) = "image" /\ ProcessOf("SEGMENT_INTERVAL") = "image"
        /\ s.state \in ImageDistributionStates /\ s.state \in SentStates
        /\ "SEGMENT_INTERVAL" \in ImageDistributionStates
    <3>1. /\ "SEGMENT_WAITING" # "IDLE" /\ ProcessOf("SEGMENT_WAITING") = "image"
          /\ ProcessOf("SEGMENT_INTERVAL") = "image"
          /\ "SEGMENT_WAITING" \in ImageDistributionStates /\ "SEGMENT_WAITING" \in SentStates
          /\ "SEGMENT_INTERVAL" \in ImageDistributionStates
      BY Places, Zenon
    <3> QED
      BY <1>5, <3>1, Zenon
  <2>5. CASE r = ImageDistributionProcessFinished(b, "UNREACHABLE")
    <3>1. Ends(b, r)
      BY <2>2, <2>4, <2>5, ImageEnds
    <3>2. Ends(s, r)
      BY <2>2, <2>4, <3>1, Zenon DEF Ends
    <3> QED
      BY <3>2 DEF r
  <2>6. CASE r = ScheduleNextEvent(b, TxIntervalMs)
    <3>1. Keeps(b, r)
      BY <2>2, <2>6, ScheduleKeeps, Constants
    <3>2. r.globals.state = "SEGMENT_INTERVAL"
      <4> DEFINE g == [b EXCEPT !.active = TRUE]
      <4>1. r.globals = g
        BY <2>6, SMT DEF ScheduleNextEvent
      <4>2. g.state = b.state
        BY <2>2, Zenon DEF Globals
      <4> QED
        BY <2>2, <4>1, <4>2, Zenon
    <3>3. r.globals.nextSegment = a.nextSegment /\ r.globals.sentSegment = s.sentSegment
          /\ r.outcome \notin ProcessKinds
      BY <2>1, <2>2, <3>1, Zenon DEF Keeps, SamePlace
    <3>4. CASE new
      <4>1. Moves(s, r)
        BY <2>1, <2>4, <3>2, <3>3, <3>4, Zenon DEF Moves
      <4> QED
        BY <1>5, <3>4, <4>1 DEF r
    <3>5. CASE ~new
      <4>1. Keeps(s, r)
        BY <2>1, <2>4, <3>2, <3>3, <3>5, Zenon DEF Keeps, SamePlace
      <4> QED
        BY <4>1 DEF r
    <3> QED
      BY <3>4, <3>5
  <2> QED
    BY <2>3, <2>5, <2>6, Zenon
<1> QED
  BY <1>3, <1>4, <1>5, SMT

(* The next task of a bootload request.                                    *)
LEMMA ScheduleBootloadPlace ==
  ASSUME NEW s \in Globals, NEW response, s.state \in BootloadRequestStates
  PROVE  LET r == ScheduleBootloadRequestProcessNextTask(s, response)
         IN  Keeps(s, r) \/ Ends(s, r)
<1> DEFINE c == [s EXCEPT !.state = "BOOTLOAD_INTERVAL"]
<1>1. c \in Globals
  BY SetField, States
<1>2. SamePlace(s, c)
  <2>1. /\ "BOOTLOAD_INTERVAL" \in ServerStates
        /\ ProcessOf("BOOTLOAD_INTERVAL") = ProcessOf(s.state)
        /\ "BOOTLOAD_INTERVAL" \notin ImageDistributionStates
        /\ s.state \notin ImageDistributionStates
        /\ "BOOTLOAD_INTERVAL" \notin SentStates
    BY SMT DEF ServerStates, ProcessOf, HandshakeStates, ImageDistributionStates, SentStates,
               BootloadRequestStates
  <2> QED
    BY <2>1, StatePlace
<1> HIDE DEF c
<1>3. Keeps(s, ScheduleNextEvent(c, TxIntervalMs))
  BY <1>1, <1>2, ScheduleKeeps, PlaceCarries, Constants
<1>4. \A status : Ends(s, BootloadRequestProcessFinished(s, status))
  BY BootloadEnds
<1>5. \/ \E status : ScheduleBootloadRequestProcessNextTask(s, response)
                       = BootloadRequestProcessFinished(s, status)
      \/ ScheduleBootloadRequestProcessNextTask(s, response) = ScheduleNextEvent(c, TxIntervalMs)
  BY SMT DEF ScheduleBootloadRequestProcessNextTask, c
<1> QED
  BY <1>3, <1>4, <1>5, Zenon

(* Counting an error keeps the place.                                      *)
LEMMA CountedPlace ==
  ASSUME NEW s \in Globals, NEW status
  PROVE  /\ SamePlace(s, CountSendError(s, status))
         /\ SamePlace(s, StackErrorCounted(s))
         /\ SamePlace(s, TargetErrorCounted(s))
<1> DEFINE a == [s EXCEPT !.stackErrors = @ + 1]
<1> DEFINE b == [s EXCEPT !.targetErrors = @ + 1]
<1> DEFINE c == [b EXCEPT !.stackErrors = 0]
<1>1. a.state = s.state /\ a.nextSegment = s.nextSegment /\ a.sentSegment = s.sentSegment
  BY Zenon DEF Globals
<1>2. b.state = s.state /\ b.nextSegment = s.nextSegment /\ b.sentSegment = s.sentSegment
  BY Zenon DEF Globals
<1>3. c.state = b.state /\ c.nextSegment = b.nextSegment /\ c.sentSegment = b.sentSegment
  <2>1. b \in Globals
    BY CountedType, Zenon DEF TargetErrorCounted
  <2> HIDE DEF b
  <2> QED
    BY <2>1, Zenon DEF Globals
<1>4. /\ CountSendError(s, status) = c \/ CountSendError(s, status) = a
      /\ StackErrorCounted(s) = a /\ TargetErrorCounted(s) = b
  BY Zenon DEF CountSendError, StackErrorCounted, TargetErrorCounted
<1> HIDE DEF a, b, c
<1> QED
  BY <1>1, <1>2, <1>3, <1>4, Zenon DEF SamePlace

(* A message that was sent, or not, does not move the server.              *)
LEMMA SentPlace ==
  ASSUME NEW s \in Globals, NEW m \in SentReport
  PROVE  Keeps(s, MessageSent(s, m)) \/ Ends(s, MessageSent(s, m))
<1> DEFINE c == CountSendError(s, m.status)
<1> DEFINE a == [c EXCEPT !.state = "HANDSHAKE_INTERVAL"]
<1> DEFINE b == [c EXCEPT !.state = "SEGMENT_INTERVAL"]
<1>1. c \in Globals /\ SamePlace(s, c) /\ c.state = s.state
  <2>1. c \in Globals /\ SamePlace(s, c)
    BY CountedType, CountedPlace
  <2>2. c.state = s.state
    <3> DEFINE d == [s EXCEPT !.targetErrors = @ + 1]
    <3> DEFINE e == [d EXCEPT !.stackErrors = 0]
    <3> DEFINE f == [s EXCEPT !.stackErrors = @ + 1]
    <3>1. d \in Globals
      BY CountedType, Zenon DEF TargetErrorCounted
    <3>2. d.state = s.state /\ f.state = s.state
      BY Zenon DEF Globals
    <3>3. e.state = d.state
      <4> HIDE DEF d
      <4> QED
        BY <3>1, Zenon DEF Globals
    <3>4. c = e \/ c = f
      BY Zenon DEF CountSendError
    <3> QED
      BY <3>2, <3>3, <3>4, Zenon
  <2> QED
    BY <2>1, <2>2
<1> HIDE DEF c
<1>2. s.state = "HANDSHAKE_PENDING" =>
        /\ a \in Globals /\ a.state = "HANDSHAKE_INTERVAL" /\ SamePlace(s, a)
  <2> SUFFICES ASSUME s.state = "HANDSHAKE_PENDING"
               PROVE  a \in Globals /\ a.state = "HANDSHAKE_INTERVAL" /\ SamePlace(s, a)
    OBVIOUS
  <2>1. a \in Globals
    BY <1>1, SetField, States
  <2>2. a.state = "HANDSHAKE_INTERVAL" /\ a.nextSegment = c.nextSegment
        /\ a.sentSegment = c.sentSegment
    BY <1>1, Zenon DEF Globals
  <2>3. SamePlace(s, a)
    <3> HIDE DEF a
    <3> QED
      BY <1>1, <2>2, Places, Zenon DEF SamePlace
  <2> QED
    BY <2>1, <2>2, <2>3
<1>3. s.state = "SEGMENT_PENDING" =>
        /\ b \in Globals /\ b.state = "SEGMENT_INTERVAL" /\ SamePlace(s, b)
  <2> SUFFICES ASSUME s.state = "SEGMENT_PENDING"
               PROVE  b \in Globals /\ b.state = "SEGMENT_INTERVAL" /\ SamePlace(s, b)
    OBVIOUS
  <2>1. b \in Globals
    BY <1>1, SetField, States
  <2>2. b.state = "SEGMENT_INTERVAL" /\ b.nextSegment = c.nextSegment
        /\ b.sentSegment = c.sentSegment
    BY <1>1, Zenon DEF Globals
  <2>3. SamePlace(s, b)
    <3> HIDE DEF b
    <3> QED
      BY <1>1, <2>2, Places, Zenon DEF SamePlace
  <2> QED
    BY <2>1, <2>2, <2>3
<1>4. ASSUME NEW t \in Globals, SamePlace(s, t), NEW x \in {"HANDSHAKE_INTERVAL", "SEGMENT_INTERVAL"},
             t.state = x
      PROVE  \/ Keeps(s, ScheduleImageDistributionProcessNextTask(t, FALSE))
             \/ Ends(s, ScheduleImageDistributionProcessNextTask(t, FALSE))
  <2>1. \/ Keeps(t, ScheduleImageDistributionProcessNextTask(t, FALSE))
        \/ Ends(t, ScheduleImageDistributionProcessNextTask(t, FALSE))
    BY <1>4, ScheduleImagePlace
  <2> QED
    BY <1>4, <2>1, PlaceCarries
<1>5. s.state = "BOOTLOAD_PENDING" =>
        \/ Keeps(s, ScheduleBootloadRequestProcessNextTask(c, "none"))
        \/ Ends(s, ScheduleBootloadRequestProcessNextTask(c, "none"))
  <2> SUFFICES ASSUME s.state = "BOOTLOAD_PENDING"
               PROVE  \/ Keeps(s, ScheduleBootloadRequestProcessNextTask(c, "none"))
                      \/ Ends(s, ScheduleBootloadRequestProcessNextTask(c, "none"))
    OBVIOUS
  <2>1. c.state \in BootloadRequestStates
    BY <1>1, SMT DEF BootloadRequestStates
  <2>2. \/ Keeps(c, ScheduleBootloadRequestProcessNextTask(c, "none"))
        \/ Ends(c, ScheduleBootloadRequestProcessNextTask(c, "none"))
    BY <1>1, <2>1, ScheduleBootloadPlace
  <2> QED
    BY <1>1, <2>2, PlaceCarries
<1>6. ASSUME NEW x \in ServerStates, NEW y \in ServerStates, s.state = x,
             ProcessOf(y) = ProcessOf(x), x \in ImageDistributionStates <=> y \in ImageDistributionStates,
             y \in SentStates => x \in SentStates
      PROVE  Keeps(s, AwaitResponse(s, y))
  <2> DEFINE d == [s EXCEPT !.stackErrors = 0]
  <2> DEFINE e == [d EXCEPT !.state = y]
  <2>1. /\ d.state = s.state /\ d.nextSegment = s.nextSegment /\ d.sentSegment = s.sentSegment
    BY Zenon DEF Globals
  <2>2. d \in Globals
    BY SetField
  <2>3. e.state = y /\ e.nextSegment = d.nextSegment /\ e.sentSegment = d.sentSegment
    <3> HIDE DEF d
    <3> QED
      BY <2>2, Zenon DEF Globals
  <2>4. e \in Globals
    <3> HIDE DEF d
    <3> QED
      BY <2>2, SetField
  <2>5. AwaitResponse(s, y) = ScheduleNextEvent(e, ResponseTimeoutMs)
    BY Zenon DEF AwaitResponse
  <2> HIDE DEF d, e
  <2>6. SamePlace(s, e)
    BY <1>6, <2>1, <2>3, Zenon DEF SamePlace
  <2> QED
    BY <2>4, <2>5, <2>6, ScheduleKeeps, PlaceCarries, Constants
<1>7. /\ s.state = "HANDSHAKE_PENDING" => Keeps(s, AwaitResponse(s, "HANDSHAKE_WAITING"))
      /\ s.state = "SEGMENT_PENDING" => Keeps(s, AwaitResponse(s, "SEGMENT_WAITING"))
      /\ s.state = "BOOTLOAD_PENDING" => Keeps(s, AwaitResponse(s, "BOOTLOAD_WAITING"))
  <2>1. /\ "BOOTLOAD_PENDING" \in ServerStates /\ "BOOTLOAD_WAITING" \in ServerStates
        /\ ProcessOf("BOOTLOAD_PENDING") = "bootload" /\ ProcessOf("BOOTLOAD_WAITING") = "bootload"
        /\ "BOOTLOAD_PENDING" \notin ImageDistributionStates
        /\ "BOOTLOAD_WAITING" \notin ImageDistributionStates
        /\ "BOOTLOAD_WAITING" \notin SentStates
    <3>1. /\ "BOOTLOAD_PENDING" \in BootloadRequestStates /\ "BOOTLOAD_WAITING" \in BootloadRequestStates
          /\ "BOOTLOAD_PENDING" \notin ImageDistributionStates
          /\ "BOOTLOAD_WAITING" \notin ImageDistributionStates
          /\ "BOOTLOAD_WAITING" \notin SentStates
      BY SMT DEF BootloadRequestStates, ImageDistributionStates, SentStates
    <3>2. "BOOTLOAD_PENDING" \in ServerStates /\ "BOOTLOAD_WAITING" \in ServerStates
      BY States
    <3> QED
      BY <3>1, <3>2, Kinds, Zenon
  <2>2. s.state = "HANDSHAKE_PENDING" => Keeps(s, AwaitResponse(s, "HANDSHAKE_WAITING"))
    BY <1>6, Places, Zenon
  <2>3. s.state = "SEGMENT_PENDING" => Keeps(s, AwaitResponse(s, "SEGMENT_WAITING"))
    BY <1>6, Places, Zenon
  <2>4. s.state = "BOOTLOAD_PENDING" => Keeps(s, AwaitResponse(s, "BOOTLOAD_WAITING"))
    BY <1>6, <2>1, Zenon
  <2> QED
    BY <2>2, <2>3, <2>4
<1>8. Keeps(s, Quietly(s))
  BY QuietlyKeeps
<1>9. s.state = "HANDSHAKE_PENDING" =>
        MessageSent(s, m) \in {Quietly(s), AwaitResponse(s, "HANDSHAKE_WAITING"),
                               ScheduleImageDistributionProcessNextTask(a, FALSE)}
  BY SMT DEF MessageSent, a, c
<1>10. s.state = "SEGMENT_PENDING" =>
         MessageSent(s, m) \in {Quietly(s), AwaitResponse(s, "SEGMENT_WAITING"),
                                ScheduleImageDistributionProcessNextTask(b, FALSE)}
  BY SMT DEF MessageSent, b, c
<1>11. s.state = "BOOTLOAD_PENDING" =>
         MessageSent(s, m) \in {Quietly(s), AwaitResponse(s, "BOOTLOAD_WAITING"),
                                ScheduleBootloadRequestProcessNextTask(c, "none")}
  BY SMT DEF MessageSent, c
<1>12. CASE s.state = "HANDSHAKE_PENDING"
  <2> HIDE DEF a, b
  <2> QED
    BY <1>2, <1>4, <1>7, <1>8, <1>9, <1>12, Zenon
<1>13. CASE s.state = "SEGMENT_PENDING"
  <2> HIDE DEF a, b
  <2> QED
    BY <1>3, <1>4, <1>7, <1>8, <1>10, <1>13, Zenon
<1>14. CASE s.state = "BOOTLOAD_PENDING"
  BY <1>5, <1>7, <1>8, <1>11, <1>14, Zenon
<1>15. CASE /\ s.state # "HANDSHAKE_PENDING" /\ s.state # "SEGMENT_PENDING"
            /\ s.state # "BOOTLOAD_PENDING"
  <2>1. MessageSent(s, m) = Quietly(s)
    BY <1>15, Zenon DEF MessageSent
  <2> QED
    BY <1>8, <2>1, Zenon
<1> QED
  BY <1>12, <1>13, <1>14, <1>15

(* What a response can do, and the response that does it.                  *)
IsAgreement(m, tag) == m.command = "HANDSHAKE" /\ m.status = "ONGOING" /\ m.tag = tag
IsProgress(s, m, tag) ==
  /\ m.command = "SEGMENT" /\ m.status = "ONGOING" /\ m.tag = tag
  /\ m.segment = s.sentSegment
IsSuccess(m, tag) == m.command = "SEGMENT" /\ m.status = "COMPLETED" /\ m.tag = tag

(* Only a response with the tag of the process moves the server, and only  *)
(* that to the last segment ends it with success.                          *)
LEMMA IncomingPlace ==
  ASSUME NEW s \in Globals, NEW m \in Response, NEW tag \in Nat,
         s.state \in ImageDistributionStates => s.nextSegment < TotalSegments
  PROVE  LET r == IncomingMessage(s, m, tag)
         IN  \/ Keeps(s, r) \/ Ends(s, r)
             \/ Agrees(s, r, m.segment) /\ IsAgreement(m, tag)
             \/ Moves(s, r) /\ IsProgress(s, m, tag)
             \/ Succeeds(s, r) /\ IsSuccess(m, tag)
<1> DEFINE r == IncomingMessage(s, m, tag)
<1>0. m.segment \in Nat /\ s.state \in ServerStates
  BY DEF Response, Globals
<1>1. CASE /\ m.command = "HANDSHAKE" /\ m.tag = tag /\ s.state = "HANDSHAKE_WAITING"
  <2>1. r = HandleHandshakeResponse(s, m)
    BY <1>1, Zenon DEF IncomingMessage
  <2> HIDE DEF r
  <2>2. /\ Ends(s, ImageDistributionProcessFinished(s, "FAILED"))
        /\ Ends(s, ImageDistributionProcessFinished(s, "REFUSED"))
    BY <1>1, Places, ImageEnds
  <2> DEFINE e == [s EXCEPT !.nextSegment = m.segment]
  <2> DEFINE f == [e EXCEPT !.targetErrors = 0]
  <2> DEFINE g == [f EXCEPT !.state = "SEGMENT_INTERVAL"]
  <2>3. /\ e \in Globals /\ e.nextSegment = m.segment
    BY <1>0, SetField, Zenon DEF Globals
  <2>4. /\ f \in Globals /\ f.nextSegment = m.segment
    <3> HIDE DEF e
    <3>1. f \in Globals
      BY <2>3, SetField
    <3> QED
      BY <2>3, <3>1, Zenon DEF Globals
  <2>5. /\ g \in Globals /\ g.nextSegment = m.segment /\ g.state = "SEGMENT_INTERVAL"
    <3> HIDE DEF e, f
    <3>1. g \in Globals
      BY <2>4, SetField, States
    <3> QED
      BY <2>4, <3>1, Zenon DEF Globals
  <2>6. \/ r = ImageDistributionProcessFinished(s, "FAILED")
        \/ r = ImageDistributionProcessFinished(s, "REFUSED")
        \/ m.status = "ONGOING" /\ r = ScheduleImageDistributionProcessNextTask(g, TRUE)
    <3> DEFINE h == [s EXCEPT !.nextSegment = m.segment, !.targetErrors = 0,
                              !.state = "SEGMENT_INTERVAL"]
    <3>1. HandleHandshakeResponse(s, m) \in
            {ImageDistributionProcessFinished(s, "FAILED"),
             ImageDistributionProcessFinished(s, "REFUSED")}
          \/ /\ m.status = "ONGOING"
             /\ HandleHandshakeResponse(s, m) = ScheduleImageDistributionProcessNextTask(h, TRUE)
      <4> HIDE DEF e, f, g
      <4>1. m.status = "ONGOING" =>
              HandleHandshakeResponse(s, m) = ScheduleImageDistributionProcessNextTask(h, TRUE)
        BY SMT DEF HandleHandshakeResponse
      <4>2. m.status = "REFUSED" =>
              HandleHandshakeResponse(s, m) = ImageDistributionProcessFinished(s, "REFUSED")
        BY Zenon DEF HandleHandshakeResponse
      <4>3. m.status # "ONGOING" /\ m.status # "REFUSED" =>
              HandleHandshakeResponse(s, m) = ImageDistributionProcessFinished(s, "FAILED")
        BY Zenon DEF HandleHandshakeResponse
      <4> HIDE DEF h
      <4> QED
        BY <4>1, <4>2, <4>3, Zenon
    <3> QED
      BY <2>1, <3>1
  <2> HIDE DEF e, f, g
  <2>7. CASE m.status = "ONGOING" /\ r = ScheduleImageDistributionProcessNextTask(g, TRUE)
    <3>1. g.state # "SEGMENT_WAITING" /\ Moves(g, r) => FALSE
      BY <2>5, Places, Zenon DEF Moves
    <3>2. Keeps(g, r) \/ Ends(g, r)
      <4>1. g.state \in {"HANDSHAKE_INTERVAL", "SEGMENT_INTERVAL", "HANDSHAKE_WAITING",
                         "SEGMENT_WAITING"} /\ g.state # "SEGMENT_WAITING"
        BY <2>5, SMT
      <4> QED
        BY <2>5, <2>7, <4>1, ScheduleImagePlace
    <3>3. CASE Keeps(g, r)
      <4>1. Agrees(s, r, m.segment)
        <5>1. r.globals.state = "SEGMENT_INTERVAL"
          <6>1. r = ImageDistributionProcessFinished(g, "STACK_ERROR")
                \/ r = ImageDistributionProcessFinished(g, "UNREACHABLE")
                \/ r = ScheduleNextEvent(g, TxIntervalMs)
            BY <2>5, <2>7, SMT DEF ScheduleImageDistributionProcessNextTask
          <6>2. ScheduleNextEvent(g, TxIntervalMs).globals.state = g.state
            <7> DEFINE k == [g EXCEPT !.active = TRUE]
            <7>1. ScheduleNextEvent(g, TxIntervalMs).globals = k
              BY SMT DEF ScheduleNextEvent
            <7>2. k.state = g.state
              BY <2>5, Zenon DEF Globals
            <7> QED
              BY <7>1, <7>2, Zenon
          <6>3. \A status : ImageDistributionProcessFinished(g, status).outcome \in ProcessKinds
            BY SMT DEF ImageDistributionProcessFinished, Finished, ProcessKinds
          <6> QED
            BY <2>5, <3>3, <6>1, <6>2, <6>3, Zenon DEF Keeps
        <5> QED
          BY <1>1, <2>5, <3>3, <5>1, Places, Zenon DEF Agrees, Keeps, SamePlace
      <4>2. IsAgreement(m, tag)
        BY <1>1, <2>7 DEF IsAgreement
      <4> QED
        BY <4>1, <4>2 DEF r
    <3>4. CASE Ends(g, r)
      <4>1. Ends(s, r)
        BY <1>1, <2>5, <3>4, Places, Zenon DEF Ends
      <4> QED
        BY <4>1 DEF r
    <3> QED
      BY <3>2, <3>3, <3>4
  <2>8. CASE r \in {ImageDistributionProcessFinished(s, "FAILED"),
                    ImageDistributionProcessFinished(s, "REFUSED")}
    <3>1. Ends(s, r)
      BY <2>2, <2>8, Zenon
    <3> QED
      BY <3>1 DEF r
  <2> QED
    BY <2>6, <2>7, <2>8, Zenon
<1>2. CASE m.command = "SEGMENT" /\ m.tag = tag /\ s.state \in SentStates
  <2> DEFINE w == TakenAsSent(s, m)
  <2>1. /\ w \in Globals /\ w.state = "SEGMENT_WAITING"
        /\ w.nextSegment = s.nextSegment /\ w.sentSegment = s.sentSegment
    BY TakenType, Zenon DEF SameRest
  <2>2. r = HandleSegmentResponse(w, m)
    <3>1. m.command # "HANDSHAKE"
      BY <1>2, SMT
    <3> QED
      BY <1>2, <3>1, Zenon DEF IncomingMessage, SentStates
  <2> HIDE DEF w, r
  <2>3. s.state \in {"SEGMENT_PENDING", "SEGMENT_WAITING"}
    BY <1>2 DEF SentStates
  <2>4. SamePlace(s, w)
    BY <1>2, <2>1, <2>3, Places, Zenon DEF SamePlace
  <2>5. /\ Ends(w, ImageDistributionProcessFinished(w, "FAILED"))
        /\ Ends(w, ImageDistributionProcessFinished(w, "REFUSED"))
        /\ Keeps(w, Quietly(w))
    BY <2>1, Places, ImageEnds, QuietlyKeeps
  <2> DEFINE f == [w EXCEPT !.targetErrors = 0]
  <2> DEFINE g == [f EXCEPT !.active = FALSE]
  <2>6. /\ f \in Globals /\ f.state = w.state
        /\ f.nextSegment = w.nextSegment /\ f.sentSegment = w.sentSegment
    BY <2>1, SetField, Zenon DEF Globals
  <2>7. /\ g \in Globals /\ g.state = w.state
        /\ g.nextSegment = w.nextSegment /\ g.sentSegment = w.sentSegment
    <3> HIDE DEF f
    <3>1. g \in Globals
      BY <2>6, SetField
    <3> QED
      BY <2>6, <3>1, Zenon DEF Globals
  <2>8. \/ r \in {ImageDistributionProcessFinished(w, "FAILED"),
                  ImageDistributionProcessFinished(w, "REFUSED"), Quietly(w)}
        \/ m.status = "COMPLETED" /\ r = ImageDistributionProcessFinished(w, "SUCCESS")
        \/ /\ m.status = "ONGOING" /\ m.segment = w.sentSegment
           /\ r = ScheduleImageDistributionProcessNextTask(g, TRUE)
    <3> DEFINE h == [w EXCEPT !.targetErrors = 0, !.active = FALSE]
    <3>1. HandleSegmentResponse(w, m) \in
            {ImageDistributionProcessFinished(w, "FAILED"),
             ImageDistributionProcessFinished(w, "REFUSED"), Quietly(w)}
          \/ /\ m.status = "COMPLETED"
             /\ HandleSegmentResponse(w, m) = ImageDistributionProcessFinished(w, "SUCCESS")
          \/ /\ m.status = "ONGOING" /\ m.segment = w.sentSegment
             /\ HandleSegmentResponse(w, m) = ScheduleImageDistributionProcessNextTask(h, TRUE)
      <4> HIDE DEF f, g
      <4>1. m.status = "OUT_OF_SEQ" =>
              HandleSegmentResponse(w, m) = ImageDistributionProcessFinished(w, "FAILED")
        BY Zenon DEF HandleSegmentResponse
      <4>2. m.status = "REFUSED" =>
              HandleSegmentResponse(w, m) = ImageDistributionProcessFinished(w, "REFUSED")
        BY SMT DEF HandleSegmentResponse
      <4>3. m.status = "COMPLETED" =>
              HandleSegmentResponse(w, m) = ImageDistributionProcessFinished(w, "SUCCESS")
        BY SMT DEF HandleSegmentResponse
      <4>4. m.status = "ONGOING" /\ m.segment = w.sentSegment =>
              HandleSegmentResponse(w, m) = ScheduleImageDistributionProcessNextTask(h, TRUE)
        BY SMT DEF HandleSegmentResponse
      <4>5. m.status = "ONGOING" /\ m.segment # w.sentSegment =>
              HandleSegmentResponse(w, m) = ImageDistributionProcessFinished(w, "FAILED")
        BY SMT DEF HandleSegmentResponse
      <4>6. m.status \notin {"OUT_OF_SEQ", "REFUSED", "COMPLETED", "ONGOING"} =>
              HandleSegmentResponse(w, m) = Quietly(w)
        <5> HIDE DEF h
        <5> QED
          BY Zenon DEF HandleSegmentResponse
      <4> HIDE DEF h
      <4> QED
        BY <4>1, <4>2, <4>3, <4>4, <4>5, <4>6, Zenon
    <3> QED
      BY <2>2, <3>1
  <2> HIDE DEF f, g
  <2>9. CASE r \in {ImageDistributionProcessFinished(w, "FAILED"),
                    ImageDistributionProcessFinished(w, "REFUSED"), Quietly(w)}
    <3>1. Ends(w, r) \/ Keeps(w, r)
      BY <2>5, <2>9, Zenon
    <3>2. Ends(s, r) \/ Keeps(s, r)
      BY <2>1, <2>4, <3>1, PlaceCarries
    <3> QED
      BY <3>2 DEF r
  <2>10. CASE m.status = "COMPLETED" /\ r = ImageDistributionProcessFinished(w, "SUCCESS")
    <3>1. r.outcome = "image"
      BY <2>10, SMT DEF ImageDistributionProcessFinished, Finished
    <3>2. r.globals.state = "IDLE"
      <4> DEFINE k == [w EXCEPT !.active = FALSE]
      <4> DEFINE l == [k EXCEPT !.state = "IDLE"]
      <4>1. k \in Globals
        BY <2>1, SetField
      <4>2. l.state = "IDLE"
        <5> HIDE DEF k
        <5> QED
          BY <4>1, Zenon DEF Globals
      <4>3. r.globals = l
        BY <2>10, SMT DEF ImageDistributionProcessFinished, Finished
      <4> QED
        BY <4>2, <4>3, Zenon
    <3>3. Succeeds(s, r) /\ IsSuccess(m, tag)
      BY <1>2, <2>10, <3>1, <3>2, Zenon DEF Succeeds, IsSuccess
    <3> QED
      BY <3>3 DEF r
  <2>11. CASE /\ m.status = "ONGOING" /\ m.segment = w.sentSegment
              /\ r = ScheduleImageDistributionProcessNextTask(g, TRUE)
    <3>1. g.nextSegment < TotalSegments
      BY <2>1, <2>3, <2>7, Places, Zenon
    <3>2. Keeps(g, r) \/ Ends(g, r) \/ Moves(g, r)
      <4>1. g.state \in {"HANDSHAKE_INTERVAL", "SEGMENT_INTERVAL", "HANDSHAKE_WAITING",
                         "SEGMENT_WAITING"}
        BY <2>1, <2>7, SMT
      <4> QED
        BY <2>7, <2>11, <3>1, <4>1, ScheduleImagePlace
    <3>3. SamePlace(s, g)
      BY <2>1, <2>4, <2>7, Zenon DEF SamePlace
    <3>4. Keeps(g, r) \/ Ends(g, r) => Keeps(s, r) \/ Ends(s, r)
      BY <2>7, <3>3, PlaceCarries
    <3>5. Moves(g, r) => Moves(s, r)
      BY <1>2, <2>1, <2>7, Zenon DEF Moves
    <3>6. IsProgress(s, m, tag)
      BY <1>2, <2>1, <2>11, Zenon DEF IsProgress
    <3> QED
      BY <3>2, <3>4, <3>5, <3>6 DEF r
  <2> QED
    BY <2>8, <2>9, <2>10, <2>11, Zenon
<1>3. CASE /\ ~(m.command = "HANDSHAKE" /\ m.tag = tag /\ s.state = "HANDSHAKE_WAITING")
           /\ ~(m.command = "SEGMENT" /\ m.tag = tag /\ s.state \in SentStates)
  <2>1. \/ r = Quietly(s)
        \/ /\ s.state = "BOOTLOAD_WAITING"
           /\ r = ScheduleBootloadRequestProcessNextTask(s, m.status)
    BY <1>3, SMT DEF IncomingMessage, SentStates
  <2> HIDE DEF r
  <2>2. s.state = "BOOTLOAD_WAITING" => s.state \in BootloadRequestStates
    BY SMT DEF BootloadRequestStates
  <2>3. Keeps(s, r) \/ Ends(s, r)
    BY <2>1, <2>2, ScheduleBootloadPlace, QuietlyKeeps
  <2> QED
    BY <2>3 DEF r
<1> QED
  BY <1>1, <1>2, <1>3

-----------------------------------------------------------------------------

(* A server that has not gone back, in the same process.                   *)
Onward(s, t) ==
  /\ t.state \in HandshakeStates => s.state \in HandshakeStates
  /\ t.state \in ImageDistributionStates =>
       \/ s.state \in HandshakeStates
       \/ s.state \in ImageDistributionStates /\ s.nextSegment <= t.nextSegment

(* Sequences over a set.                                                   *)
LEMMA SeqOf ==
  ASSUME NEW S, NEW T, NEW q \in Seq(S)
  PROVE  /\ S \subseteq T => q \in Seq(T)
         /\ \A x \in S : Append(q, x) \in Seq(S)
         /\ q # <<>> => Head(q) \in S /\ Tail(q) \in Seq(S)
BY SMT

(* What is under way stays true of a server that has gone on ...           *)
LEMMA MessagesCarry ==
  ASSUME NEW s \in Globals, NEW t \in Globals, NEW k \in Nat, Onward(s, t),
         NEW got, NEW more, got \subseteq more, NEW starting, NEW all, starting \subseteq all
  PROVE  /\ SentMessages(s, k) \subseteq SentMessages(t, k)
         /\ GotMessages(s, k, got) \subseteq GotMessages(t, k, more)
         /\ TrueAnswers(s, k, got, starting) \subseteq TrueAnswers(t, k, more, all)
<1>0. s.nextSegment \in Nat /\ t.nextSegment \in Nat
  BY DEF Globals
<1>1. \A m \in Outgoing \cup Response : SentBy(m, s, k) => SentBy(m, t, k)
  <2> SUFFICES ASSUME NEW m \in Outgoing \cup Response, SentBy(m, s, k) PROVE SentBy(m, t, k)
    OBVIOUS
  <2>1. m.segment \in Nat
    BY SMT DEF Outgoing, Response
  <2> QED
    BY <1>0, <2>1, SMT DEF SentBy, Onward
<1>2. \A m \in Outgoing \cup Response : GotBy(m, s, k, got) => GotBy(m, t, k, more)
  BY <1>1, Zenon DEF GotBy
<1>3. \A m \in Response : AnsweredBy(m, s, k, got, starting) => AnsweredBy(m, t, k, more, all)
  BY <1>2, Zenon DEF AnsweredBy
<1> QED
  BY <1>1, <1>2, <1>3, Zenon DEF SentMessages, GotMessages, TrueAnswers

(* ... and says nothing any more of the next process.                      *)
LEMMA MessagesStale ==
  ASSUME NEW s \in Globals, NEW t \in Globals, NEW k \in Nat,
         NEW got, NEW more, NEW starting, NEW all
  PROVE  /\ SentMessages(s, k) \subseteq SentMessages(t, k + 1)
         /\ GotMessages(s, k, got) \subseteq GotMessages(t, k + 1, more)
         /\ TrueAnswers(s, k, got, starting) \subseteq TrueAnswers(t, k + 1, more, all)
<1>1. \A m \in Outgoing \cup Response :
        SentBy(m, s, k) => SentBy(m, t, k + 1) /\ m.tag # k + 1
  <2> SUFFICES ASSUME NEW m \in Outgoing \cup Response, SentBy(m, s, k)
               PROVE  SentBy(m, t, k + 1) /\ m.tag # k + 1
    OBVIOUS
  <2>1. m.tag \in Nat
    BY SMT DEF Outgoing, Response
  <2> QED
    BY <2>1, SMT DEF SentBy
<1>2. \A m \in Outgoing \cup Response : GotBy(m, s, k, got) => GotBy(m, t, k + 1, more)
  BY <1>1, Zenon DEF GotBy
<1>3. \A m \in Response :
        AnsweredBy(m, s, k, got, starting) => AnsweredBy(m, t, k + 1, more, all)
  BY <1>1, <1>2, Zenon DEF AnsweredBy, GotBy
<1> QED
  BY <1>1, <1>2, <1>3, Zenon DEF SentMessages, GotMessages, TrueAnswers

(* What the steps other than Initiate make of the process.                 *)
StaysOn ==
  /\ completions' = completions
  /\ ProcessOf(server'.state) = ProcessOf(server.state)
  /\ server'.state \in ImageDistributionStates <=> server.state \in ImageDistributionStates
  /\ server'.nextSegment = server.nextSegment

HasImage ==
  /\ server.state \in ImageDistributionStates
  /\ server.nextSegment = TotalSegments - 1 /\ server.nextSegment \in received

Ended ==
  /\ server.state # "IDLE" /\ server'.state = "IDLE"
  /\ \E status \in ProcessStatuses :
       /\ completions' =
            Append(completions, [kind |-> ProcessOf(server.state), status |-> status])
       /\ ProcessOf(server.state) = "image" /\ status = "SUCCESS" => HasImage

Agreed ==
  /\ completions' = completions
  /\ server.state \in HandshakeStates /\ server'.state = "SEGMENT_INTERVAL"
  /\ server'.nextSegment < TotalSegments /\ server'.nextSegment \in asked

Moved ==
  /\ completions' = completions
  /\ server.state \in ImageDistributionStates /\ server'.state = "SEGMENT_INTERVAL"
  /\ server'.nextSegment = server.nextSegment + 1
  /\ server'.nextSegment < TotalSegments /\ server.nextSegment \in received

Progress == StaysOn \/ Ended \/ Agreed \/ Moved

(* None of these goes back.                                                *)
LEMMA ProgressOnward ==
  ASSUME server \in Globals, server' \in Globals, Progress
  PROVE  Onward(server, server')
<1>0. /\ server.state \in ServerStates /\ server'.state \in ServerStates
      /\ server.nextSegment \in Nat /\ server'.nextSegment \in Nat
  BY DEF Globals
<1>n. server.nextSegment <= server.nextSegment
  BY <1>0, SMT
<1>1. CASE StaysOn
  BY <1>0, <1>1, <1>n, Kinds, Zenon DEF StaysOn, Onward
<1>2. CASE Ended
  <2>1. "IDLE" \notin HandshakeStates /\ "IDLE" \notin ImageDistributionStates
    BY SMT DEF HandshakeStates, ImageDistributionStates
  <2> QED
    BY <1>2, <2>1, Zenon DEF Ended, Onward
<1>3. CASE Agreed
  BY <1>3, Places, Zenon DEF Agreed, Onward
<1>4. CASE Moved
  <2>1. server.nextSegment <= server'.nextSegment
    BY <1>0, <1>4, SMT DEF Moved
  <2> QED
    BY <1>4, <2>1, Places, Zenon DEF Moved, Onward
<1> QED
  BY <1>1, <1>2, <1>3, <1>4 DEF Progress

(* None of these skips a segment.                                          *)
LEMMA ProgressPosition ==
  ASSUME TypeInv, server' \in Globals, PositionInv, Progress,
         received \subseteq received', asked \subseteq asked'
  PROVE  PositionInv'
<1>0. /\ server \in Globals /\ asked \subseteq Nat
      /\ server.nextSegment \in Nat /\ server'.nextSegment \in Nat
  BY DEF TypeInv, TypeOK, Globals
<1>1. CASE StaysOn
  BY <1>0, <1>1, SMT DEF StaysOn, PositionInv, NoSegmentSkipped
<1>2. CASE Ended
  <2>1. server'.state \notin ImageDistributionStates
    BY <1>2, SMT DEF Ended, ImageDistributionStates
  <2> QED
    BY <2>1 DEF PositionInv, NoSegmentSkipped
<1>3. CASE Agreed
  <2>1. server'.nextSegment \in asked' /\ server'.nextSegment < TotalSegments
    BY <1>3 DEF Agreed
  <2>2. /\ server'.nextSegment <= server'.nextSegment
        /\ \A j \in server'.nextSegment..(server'.nextSegment - 1) : j \in received'
    BY <1>0, SMT
  <2> QED
    BY <2>1, <2>2, Zenon DEF PositionInv, NoSegmentSkipped
<1>4. CASE Moved
  <2>1. /\ server.state \in ImageDistributionStates /\ server.nextSegment \in received
        /\ server'.nextSegment = server.nextSegment + 1
        /\ server'.nextSegment < TotalSegments
    BY <1>4 DEF Moved
  <2>2. PICK first \in asked : /\ first <= server.nextSegment
                               /\ \A j \in first..(server.nextSegment - 1) : j \in received
    BY <2>1 DEF PositionInv, NoSegmentSkipped
  <2>3. /\ first \in asked' /\ first <= server'.nextSegment
        /\ \A j \in first..(server'.nextSegment - 1) : j \in received'
    BY <1>0, <2>1, <2>2, SMT
  <2> QED
    BY <2>1, <2>3, Zenon DEF PositionInv, NoSegmentSkipped
<1> QED
  BY <1>1, <1>2, <1>3, <1>4 DEF Progress

(* What applying a result does to the place.                               *)
LEMMA AppliedPlace ==
  ASSUME NEW r \in Results, Apply(r)
  PROVE  /\ server'.state = r.globals.state /\ server'.nextSegment = r.globals.nextSegment
         /\ server'.sentSegment = r.globals.sentSegment
         /\ r.outcome \notin ProcessKinds => completions' = completions
         /\ r.outcome \in ProcessKinds =>
              /\ r.status \in ProcessStatuses
              /\ completions' = Append(completions, [kind |-> r.outcome, status |-> r.status])
<1>1. r.globals \in Globals /\ (r.outcome \in ProcessKinds => r.status \in ProcessStatuses)
  BY Zenon DEF Results
<1>2. server' = [r.globals EXCEPT !.asserted = r.outcome = "asserted"]
  BY Zenon DEF Apply
<1>3. /\ server'.state = r.globals.state /\ server'.nextSegment = r.globals.nextSegment
      /\ server'.sentSegment = r.globals.sentSegment
  BY <1>1, <1>2, Zenon DEF Globals
<1> QED
  BY <1>1, <1>3, Zenon DEF Apply

(* A result that keeps the process going or ends it without success.       *)
LEMMA ApplyProgress ==
  ASSUME TypeInv, StoredInv, NEW r \in Results, Apply(r), Keeps(server, r) \/ Ends(server, r),
         \A n \in EventThreads : pc[n] = "storeSegment" => pc'[n] = "storeSegment"
  PROVE  (StaysOn \/ Ended) /\ StoredInv'
<1>0. server \in Globals /\ server.state \in ServerStates
  BY DEF TypeInv, TypeOK, Globals
<1>1. CASE Keeps(server, r)
  <2>1. StaysOn
    BY <1>1, AppliedPlace, Zenon DEF Keeps, SamePlace, StaysOn
  <2>2. StoredInv'
    BY <1>1, AppliedPlace, Zenon DEF Keeps, SamePlace, StoredInv
  <2> QED
    BY <2>1, <2>2
<1>2. CASE Ends(server, r)
  <2>1. r.outcome \in ProcessKinds
    BY <1>0, <1>2, Kinds, Zenon DEF Ends, ProcessKinds
  <2>2. r.outcome = "image" /\ r.status = "SUCCESS" => FALSE
    BY <1>2, Zenon DEF Ends
  <2>3. Ended
    BY <1>2, <2>1, <2>2, AppliedPlace, Zenon DEF Ends, Ended
  <2>4. server'.state \notin SentStates
    BY <2>3, SMT DEF Ended, SentStates
  <2> QED
    BY <2>3, <2>4, Zenon DEF StoredInv
<1> QED
  BY <1>1, <1>2

(* A callback: the message at the head of the mail is true of the process. *)
LEMMA CallbackProgress ==
  ASSUME TypeInv, MessagesInv, PositionInv, StoredInv, Quiescent, Callbacks
  PROVE  Progress /\ StoredInv'
<1>0. /\ server \in Globals /\ server.state \in ServerStates
      /\ server.nextSegment \in Nat /\ starts \in Nat /\ TotalSegments \in Nat
      /\ mail # <<>> /\ pc' = pc
      /\ mail \in Seq(SentReport \cup TrueAnswers(server, starts, received, asked))
  <2>1. starts \in Nat /\ TotalSegments \in Nat
    BY Constants, SMT DEF TypeInv, TypeOK
  <2> QED
    BY <2>1, Zenon DEF TypeInv, TypeOK, Globals, MessagesInv, Callbacks, MessageSentCallback,
                       IncomingMessageCallback
<1>1. Head(mail) \in SentReport \/ Head(mail) \in TrueAnswers(server, starts, received, asked)
  BY <1>0, SeqOf
<1>2. CASE MessageSentCallback
  <2>1. Head(mail) \in SentReport
    BY <1>1, <1>2, SMT DEF MessageSentCallback, TrueAnswers, Response
  <2>2. /\ MessageSent(server, Head(mail)) \in Results
        /\ \/ Keeps(server, MessageSent(server, Head(mail)))
           \/ Ends(server, MessageSent(server, Head(mail)))
    BY <1>0, <2>1, SentType, SentPlace
  <2>3. Apply(MessageSent(server, Head(mail)))
    BY <1>2, Zenon DEF MessageSentCallback
  <2> QED
    BY <1>0, <2>2, <2>3, ApplyProgress, Zenon DEF Progress
<1>3. CASE IncomingMessageCallback
  <2> DEFINE m == Head(mail)
  <2> DEFINE r == IncomingMessage(server, m, starts)
  <2>1. m \in TrueAnswers(server, starts, received, asked) /\ m \in Response
    BY <1>1, <1>3, SMT DEF IncomingMessageCallback, TrueAnswers, SentReport
  <2>2. AnsweredBy(m, server, starts, received, asked)
    BY <2>1, Zenon DEF TrueAnswers
  <2>3. Apply(r)
    BY <1>3, Zenon DEF IncomingMessageCallback
  <2>4. r \in Results
    BY <1>0, <2>1, IncomingType
  <2>5. server.state \in ImageDistributionStates => server.nextSegment < TotalSegments
    BY DEF PositionInv
  <2>6. \/ Keeps(server, r) \/ Ends(server, r)
        \/ Agrees(server, r, m.segment) /\ IsAgreement(m, starts)
        \/ Moves(server, r) /\ IsProgress(server, m, starts)
        \/ Succeeds(server, r) /\ IsSuccess(m, starts)
    BY <1>0, <2>1, <2>5, IncomingPlace
  <2>m. m.segment \in Nat
    BY <2>1 DEF Response
  <2> HIDE DEF m, r
  <2>7. "SEGMENT_INTERVAL" \notin SentStates /\ "IDLE" \notin SentStates
    BY SMT DEF SentStates
  <2>8. server.state \in SentStates =>
          server.state \in ImageDistributionStates /\ server.sentSegment = server.nextSegment
    <3>1. \A n \in EventThreads : pc[n] # "storeSegment"
      BY SMT DEF Quiescent
    <3>2. SentStates \subseteq ImageDistributionStates
      BY SMT DEF SentStates, ImageDistributionStates
    <3> QED
      BY <3>1, <3>2, Zenon DEF StoredInv
  <2>9. CASE Keeps(server, r) \/ Ends(server, r)
    BY <1>0, <2>3, <2>4, <2>9, ApplyProgress, Zenon DEF Progress
  <2>10. CASE Agrees(server, r, m.segment) /\ IsAgreement(m, starts)
    <3>1. m.segment < TotalSegments /\ m.segment \in asked
      BY <2>2, <2>10, Zenon DEF IsAgreement, AnsweredBy
    <3>2. Agreed /\ server'.state \notin SentStates
      BY <2>3, <2>4, <2>7, <2>10, <3>1, AppliedPlace, Zenon DEF Agrees, Agreed
    <3> QED
      BY <3>2, Zenon DEF Progress, StoredInv
  <2>11. CASE Moves(server, r) /\ IsProgress(server, m, starts)
    <3>1. m.segment \in received /\ m.segment + 1 # TotalSegments /\ m.segment < TotalSegments
      BY <2>2, <2>11, Zenon DEF IsProgress, AnsweredBy, GotBy, SentBy
    <3>2. server.state \in SentStates /\ m.segment = server.nextSegment
      BY <2>8, <2>11, Zenon DEF Moves, IsProgress
    <3>3. server.nextSegment + 1 < TotalSegments
      BY <1>0, <3>1, <3>2, SMT
    <3>4. Moved /\ server'.state \notin SentStates
      BY <2>3, <2>4, <2>7, <2>8, <2>11, <3>1, <3>2, <3>3, AppliedPlace, Zenon DEF Moves, Moved
    <3> QED
      BY <3>4, Zenon DEF Progress, StoredInv
  <2>12. CASE Succeeds(server, r) /\ IsSuccess(m, starts)
    <3>1. /\ m.segment + 1 = TotalSegments /\ m.segment \in received
          /\ m.command = "SEGMENT" /\ m.tag = starts /\ SentBy(m, server, starts)
      BY <2>2, <2>12, Zenon DEF IsSuccess, AnsweredBy, GotBy
    <3>2. server.state \in SentStates /\ server.state \in ImageDistributionStates
      BY <2>8, <2>12, Zenon DEF Succeeds
    <3>3. m.segment <= server.nextSegment
      BY <3>1, <3>2, Zenon DEF SentBy
    <3>4. server.nextSegment = TotalSegments - 1 /\ server.nextSegment = m.segment
      BY <1>0, <2>5, <2>m, <3>1, <3>2, <3>3, SMT
    <3>5. HasImage
      BY <3>1, <3>2, <3>4, Zenon DEF HasImage
    <3>6. ProcessOf(server.state) = "image" /\ server.state # "IDLE" /\ "image" \in ProcessKinds
      BY <1>0, <3>2, Kinds, Zenon DEF ProcessKinds
    <3>7. Ended /\ server'.state \notin SentStates
      BY <2>3, <2>4, <2>7, <2>12, <3>5, <3>6, AppliedPlace, Zenon DEF Succeeds, Ended
    <3> QED
      BY <3>7, Zenon DEF Progress, StoredInv
  <2> QED
    BY <2>6, <2>9, <2>10, <2>11, <2>12
<1> QED
  BY <1>2, <1>3 DEF Callbacks

(* An abort ends the process or does nothing.                              *)
LEMMA AbortProgress ==
  ASSUME TypeInv, StoredInv, AbortCurrentProcess
  PROVE  Progress /\ StoredInv'
<1>0. server \in Globals /\ pc' = pc
  BY Zenon DEF TypeInv, TypeOK, AbortCurrentProcess
<1>1. CASE UNCHANGED <<server, completions>>
  BY <1>0, <1>1, Zenon DEF Progress, StaysOn, StoredInv
<1>2. ASSUME NEW r \in Results, Apply(r), Ends(server, r)
      PROVE  Progress /\ StoredInv'
  BY <1>0, <1>2, ApplyProgress, Zenon DEF Progress
<1>3. server.state \in ImageDistributionStates =>
        Ends(server, ImageDistributionProcessFinished(server, "ABORTED"))
  BY <1>0, ImageEnds
<1>4. server.state \in BootloadRequestStates =>
        Ends(server, BootloadRequestProcessFinished(server, "ABORTED"))
  BY <1>0, BootloadEnds
<1>5. /\ ImageDistributionProcessFinished(server, "ABORTED") \in Results
      /\ BootloadRequestProcessFinished(server, "ABORTED") \in Results
  BY <1>0, BasicType DEF ProcessStatuses
<1> QED
  BY <1>1, <1>2, <1>3, <1>4, <1>5, Zenon DEF AbortCurrentProcess

(* A step that leaves the place alone.                                     *)
LEMMA SameProgress ==
  ASSUME StoredInv, completions' = completions, server'.state = server.state,
         server'.nextSegment = server.nextSegment, server'.sentSegment = server.sentSegment,
         \A n \in EventThreads : pc[n] = "storeSegment" => pc'[n] = "storeSegment"
  PROVE  Progress /\ StoredInv'
BY Zenon DEF Progress, StaysOn, StoredInv

(* A thread does not disturb another one that is to store its segment.     *)
LEMMA OthersStore ==
  ASSUME TypeInv, NEW n \in EventThreads, pc[n] # "storeSegment", NEW label, Goto(n, label)
  PROVE  \A m \in EventThreads : pc[m] = "storeSegment" => pc'[m] = "storeSegment"
BY SMT DEF TypeInv, TypeOK, Goto

(* A step of an event thread, branch by branch.                            *)
LEMMA ThreadProgress ==
  ASSUME TypeInv, ControlInv, StoredInv, NEW n \in EventThreads, EventThreadStep(n)
  PROVE  Progress /\ StoredInv'
<1>s. /\ server \in Globals /\ server.state \in ServerStates
      /\ pc \in [EventThreads -> Labels] /\ ErrorsInv(server)
  BY Zenon DEF TypeInv, TypeOK, Globals, ControlInv, Counters
<1>e. pc[n] \in Engaged =>
        server.state \in StatesAt(pc[n]) /\ server.state # "IDLE"
  BY EngagedRuns, Zenon DEF ControlInv, ThreadsInv
<1>1. CASE CreateTimer(n)
  <2> DEFINE a == [server EXCEPT !.timerFd = n]
  <2> DEFINE b == [a EXCEPT !.active = TRUE]
  <2>1. n \in 0..MaxStarts
    BY Constants, SMT DEF EventThreads
  <2>2. a \in Globals
    BY <1>s, <2>1, SetField
  <2>3. /\ a.state = server.state /\ a.nextSegment = server.nextSegment
        /\ a.sentSegment = server.sentSegment
    BY <1>s, Zenon DEF Globals
  <2>4. b.state = a.state /\ b.nextSegment = a.nextSegment /\ b.sentSegment = a.sentSegment
    <3> HIDE DEF a
    <3> QED
      BY <2>2, Zenon DEF Globals
  <2>5. /\ server' = b /\ completions' = completions
        /\ pc[n] = "create" /\ Goto(n, "check")
    BY <1>1, Zenon DEF CreateTimer
  <2> HIDE DEF a, b
  <2>6. pc[n] # "storeSegment"
    BY <2>5, SMT
  <2> QED
    BY <2>3, <2>4, <2>5, <2>6, OthersStore, SameProgress
<1>2. CASE CheckIdle(n) \/ PollTimer(n) \/ ReadTimer(n)
  <2>1. /\ UNCHANGED <<server, completions>> /\ pc[n] \in {"check", "poll", "read"}
        /\ \E label : Goto(n, label)
    BY <1>2, Zenon DEF CheckIdle, PollTimer, ReadTimer
  <2>2. pc[n] # "storeSegment"
    BY <2>1, SMT
  <2> QED
    BY <2>1, <2>2, OthersStore, SameProgress, Zenon
<1>3. CASE EventHandler(n)
  <2> DEFINE a == [server EXCEPT !.active = FALSE]
  <2>1. /\ a.state = server.state /\ a.nextSegment = server.nextSegment
        /\ a.sentSegment = server.sentSegment
    BY <1>s, Zenon DEF Globals
  <2>2. /\ server' = a \/ server' = server
        /\ completions' = completions /\ pc[n] = "loop" /\ \E label : Goto(n, label)
    BY <1>3, Zenon DEF EventHandler
  <2> HIDE DEF a
  <2>3. pc[n] # "storeSegment"
    BY <2>2, SMT
  <2>4. \A m \in EventThreads : pc[m] = "storeSegment" => pc'[m] = "storeSegment"
    BY <2>2, <2>3, OthersStore
  <2>5. /\ server'.state = server.state /\ server'.nextSegment = server.nextSegment
        /\ server'.sentSegment = server.sentSegment
    BY <2>1, <2>2, Zenon
  <2> QED
    BY <2>2, <2>4, <2>5, SameProgress
<1>4. CASE UnicastHandshake(n) \/ UnicastNextSegment(n) \/ RequestTargetForBootload(n)
  <2>1. /\ UNCHANGED <<server, completions>>
        /\ pc[n] \in {"sendHandshake", "sendSegment", "sendBootload"}
        /\ \E label : Goto(n, label)
    BY <1>4, Zenon DEF UnicastHandshake, UnicastNextSegment, RequestTargetForBootload, Send
  <2>2. pc[n] # "storeSegment"
    BY <2>1, SMT
  <2> QED
    BY <2>1, <2>2, OthersStore, SameProgress, Zenon
<1>5. ASSUME NEW r \in Results, Apply(r), Keeps(server, r) \/ Ends(server, r),
             pc[n] # "storeSegment", Goto(n, "loop")
      PROVE  Progress /\ StoredInv'
  BY <1>5, OthersStore, ApplyProgress DEF Progress
<1>6. CASE DataUnderflow(n)
  <2>1. /\ pc[n] = "sendSegment" /\ Goto(n, "loop")
        /\ Apply(ImageDistributionProcessFinished(server, "DATA_UNDERFLOW"))
    BY <1>6, Zenon DEF DataUnderflow
  <2>2. pc[n] \in Engaged /\ pc[n] # "storeSegment" /\ StatesAt("sendSegment") = {"SEGMENT_INTERVAL"}
    BY <2>1, SMT DEF Engaged, Labels, StatesAt
  <2>3. server.state \in ImageDistributionStates
    BY <1>e, <2>1, <2>2, Places, Zenon
  <2>4. Ends(server, ImageDistributionProcessFinished(server, "DATA_UNDERFLOW"))
    BY <1>s, <2>3, ImageEnds
  <2>5. ImageDistributionProcessFinished(server, "DATA_UNDERFLOW") \in Results
    BY <1>s, BasicType DEF ProcessStatuses
  <2> QED
    BY <1>5, <2>1, <2>2, <2>4, <2>5
<1>7. CASE SetPending(n)
  <2>1. ASSUME NEW x \in ServerStates, NEW y \in ServerStates, server.state = y,
               server' = [server EXCEPT !.state = x],
               ProcessOf(x) = ProcessOf(y),
               x \in ImageDistributionStates <=> y \in ImageDistributionStates
        PROVE  Progress /\ server'.state = x
    <3> DEFINE a == [server EXCEPT !.state = x]
    <3>1. /\ a.state = x /\ a.nextSegment = server.nextSegment
      BY <1>s, <2>1, Zenon DEF Globals
    <3>2. server' = a /\ completions' = completions
      BY <1>7, <2>1, Zenon DEF SetPending
    <3> HIDE DEF a
    <3> QED
      BY <2>1, <3>1, <3>2, Zenon DEF Progress, StaysOn
  <2>2. /\ {"handshakeSent", "segmentSent", "bootloadSent"} \subseteq Engaged
        /\ StatesAt("handshakeSent") = {"HANDSHAKE_INTERVAL"}
        /\ StatesAt("segmentSent") = {"SEGMENT_INTERVAL"}
        /\ StatesAt("bootloadSent") = {"BOOTLOAD_INTERVAL"}
        /\ "HANDSHAKE_PENDING" \notin SentStates /\ "BOOTLOAD_PENDING" \notin SentStates
    BY SMT DEF Engaged, Labels, StatesAt, SentStates
  <2>3. CASE pc[n] = "storeSegment"
    <3> DEFINE a == [server EXCEPT !.sentSegment = server.nextSegment]
    <3>1. /\ a.state = server.state /\ a.nextSegment = server.nextSegment
          /\ a.sentSegment = server.nextSegment
      BY <1>s, Zenon DEF Globals
    <3>2. server' = a /\ completions' = completions
      BY <1>7, <2>3, Zenon DEF SetPending
    <3> HIDE DEF a
    <3> QED
      BY <3>1, <3>2, Zenon DEF Progress, StaysOn, StoredInv
  <2>4. CASE pc[n] = "handshakeSent"
    <3>1. server' = [server EXCEPT !.state = "HANDSHAKE_PENDING"]
      BY <1>7, <2>4, Zenon DEF SetPending
    <3>2. server.state = "HANDSHAKE_INTERVAL"
      BY <1>e, <2>2, <2>4, Zenon
    <3>3. Progress /\ server'.state = "HANDSHAKE_PENDING"
      BY <2>1, <3>1, <3>2, Places, Zenon
    <3> QED
      BY <2>2, <3>3, Zenon DEF StoredInv
  <2>5. CASE pc[n] = "segmentSent"
    <3>1. server' = SegmentPending(server) /\ Goto(n, "storeSegment")
      BY <1>7, <2>5, Zenon DEF SetPending
    <3>2. server.state = "SEGMENT_INTERVAL"
      BY <1>e, <2>2, <2>5, Zenon
    <3>3. Progress
      <4>1. /\ server'.state = "SEGMENT_PENDING"
            /\ server'.nextSegment = server.nextSegment /\ server'.sentSegment = server.sentSegment
        BY <1>s, <3>1, PendingType, Zenon DEF SameRest
      <4>2. completions' = completions
        BY <1>7, Zenon DEF SetPending
      <4> QED
        BY <3>2, <4>1, <4>2, Places, Zenon DEF Progress, StaysOn
    <3>4. pc'[n] = "storeSegment"
      BY <1>s, <3>1, Zenon DEF Goto
    <3> QED
      BY <3>3, <3>4, Zenon DEF StoredInv
  <2>6. CASE pc[n] = "bootloadSent"
    <3>1. server' = [server EXCEPT !.state = "BOOTLOAD_PENDING"]
      BY <1>7, <2>6, Zenon DEF SetPending
    <3>2. server.state = "BOOTLOAD_INTERVAL"
      BY <1>e, <2>2, <2>6, Zenon
    <3>3. /\ "BOOTLOAD_PENDING" \in BootloadRequestStates /\ "BOOTLOAD_PENDING" \in ServerStates
          /\ "BOOTLOAD_INTERVAL" \in BootloadRequestStates /\ "BOOTLOAD_INTERVAL" \in ServerStates
          /\ "BOOTLOAD_PENDING" \notin ImageDistributionStates
          /\ "BOOTLOAD_INTERVAL" \notin ImageDistributionStates
      BY States, SMT DEF BootloadRequestStates, ImageDistributionStates
    <3>4. ProcessOf("BOOTLOAD_PENDING") = "bootload" /\ ProcessOf("BOOTLOAD_INTERVAL") = "bootload"
      BY <3>3, Kinds, Zenon
    <3>5. Progress /\ server'.state = "BOOTLOAD_PENDING"
      BY <2>1, <3>1, <3>2, <3>3, <3>4, Zenon
    <3> QED
      BY <2>2, <3>5, Zenon DEF StoredInv
  <2> QED
    BY <1>7, <2>3, <2>4, <2>5, <2>6, Zenon DEF SetPending
<1>8. CASE CountAndSchedule(n)
  <2> DEFINE a == StackErrorCounted(server)
  <2> DEFINE b == TargetErrorCounted(server)
  <2>1. /\ Goto(n, "loop")
        /\ pc[n] \in {"imageSendFailed", "imageTimeout", "bootloadSendFailed", "bootloadTimeout"}
    BY <1>8, Zenon DEF CountAndSchedule
  <2>2. pc[n] \in Engaged /\ pc[n] # "storeSegment"
    BY <2>1, SMT DEF Engaged, Labels
  <2>3. /\ a \in Globals /\ a.state = server.state /\ SamePlace(server, a)
        /\ b \in Globals /\ b.state = server.state /\ SamePlace(server, b)
    BY <1>s, <1>e, <2>2, CountedFields, CountedPlace, Zenon
  <2> HIDE DEF a, b
  <2>4. ASSUME NEW t \in Globals, SamePlace(server, t),
               t.state \in {"HANDSHAKE_INTERVAL", "SEGMENT_INTERVAL", "HANDSHAKE_WAITING",
                            "SEGMENT_WAITING"},
               Apply(ScheduleImageDistributionProcessNextTask(t, FALSE))
        PROVE  Progress /\ StoredInv'
    <3>1. \/ Keeps(t, ScheduleImageDistributionProcessNextTask(t, FALSE))
          \/ Ends(t, ScheduleImageDistributionProcessNextTask(t, FALSE))
      BY <2>4, ScheduleImagePlace
    <3>2. \/ Keeps(server, ScheduleImageDistributionProcessNextTask(t, FALSE))
          \/ Ends(server, ScheduleImageDistributionProcessNextTask(t, FALSE))
      BY <1>s, <2>4, <3>1, PlaceCarries
    <3>3. ScheduleImageDistributionProcessNextTask(t, FALSE) \in Results
      BY <2>4, ScheduleImageType
    <3> QED
      BY <1>5, <2>1, <2>2, <2>4, <3>2, <3>3
  <2>5. ASSUME NEW t \in Globals, SamePlace(server, t), t.state \in BootloadRequestStates,
               Apply(ScheduleBootloadRequestProcessNextTask(t, "none"))
        PROVE  Progress /\ StoredInv'
    <3>1. \/ Keeps(t, ScheduleBootloadRequestProcessNextTask(t, "none"))
          \/ Ends(t, ScheduleBootloadRequestProcessNextTask(t, "none"))
      BY <2>5, ScheduleBootloadPlace
    <3>2. \/ Keeps(server, ScheduleBootloadRequestProcessNextTask(t, "none"))
          \/ Ends(server, ScheduleBootloadRequestProcessNextTask(t, "none"))
      BY <1>s, <2>5, <3>1, PlaceCarries
    <3>3. ScheduleBootloadRequestProcessNextTask(t, "none") \in Results
      BY <2>5, ScheduleBootloadType
    <3> QED
      BY <1>5, <2>1, <2>2, <2>5, <3>2, <3>3
  <2>6. CASE pc[n] = "imageSendFailed"
    <3>1. a.state \in {"HANDSHAKE_INTERVAL", "SEGMENT_INTERVAL", "HANDSHAKE_WAITING",
                       "SEGMENT_WAITING"}
      BY <1>e, <2>2, <2>3, <2>6, SMT DEF StatesAt
    <3>2. Apply(ScheduleImageDistributionProcessNextTask(a, FALSE))
      BY <1>8, <2>6, Zenon DEF CountAndSchedule, a
    <3> QED
      BY <2>3, <2>4, <3>1, <3>2
  <2>7. CASE pc[n] = "imageTimeout"
    <3>1. b.state \in {"HANDSHAKE_INTERVAL", "SEGMENT_INTERVAL", "HANDSHAKE_WAITING",
                       "SEGMENT_WAITING"}
      BY <1>e, <2>2, <2>3, <2>7, SMT DEF StatesAt
    <3>2. Apply(ScheduleImageDistributionProcessNextTask(b, FALSE))
      BY <1>8, <2>7, Zenon DEF CountAndSchedule, b
    <3> QED
      BY <2>3, <2>4, <3>1, <3>2
  <2>8. CASE pc[n] = "bootloadSendFailed"
    <3>1. a.state \in BootloadRequestStates
      BY <1>e, <2>2, <2>3, <2>8, SMT DEF StatesAt, BootloadRequestStates
    <3>2. Apply(ScheduleBootloadRequestProcessNextTask(a, "none"))
      BY <1>8, <2>8, Zenon DEF CountAndSchedule, a
    <3> QED
      BY <2>3, <2>5, <3>1, <3>2
  <2>9. CASE pc[n] = "bootloadTimeout"
    <3>1. b.state \in BootloadRequestStates
      BY <1>e, <2>2, <2>3, <2>9, SMT DEF StatesAt, BootloadRequestStates
    <3>2. Apply(ScheduleBootloadRequestProcessNextTask(b, "none"))
      BY <1>8, <2>9, Zenon DEF CountAndSchedule, b
    <3> QED
      BY <2>3, <2>5, <3>1, <3>2
  <2> QED
    BY <2>1, <2>6, <2>7, <2>8, <2>9, Zenon
<1> QED
  BY <1>1, <1>2, <1>3, <1>4, <1>6, <1>7, <1>8 DEF EventThreadStep

(* The messages stay true as the process goes on.                          *)
LEMMA MessagesOn ==
  ASSUME TypeInv, server' \in Globals, MessagesInv, Onward(server, server'), starts' = starts,
         received \subseteq received', asked \subseteq asked'
  PROVE  /\ outbox \in Seq(SentMessages(server', starts'))
         /\ targetBox \in Seq(GotMessages(server', starts', received'))
         /\ mail \in Seq(SentReport \cup TrueAnswers(server', starts', received', asked'))
<1>1. server \in Globals /\ starts \in Nat
  BY Constants, SMT DEF TypeInv, TypeOK
<1>2. /\ SentMessages(server, starts) \subseteq SentMessages(server', starts')
      /\ GotMessages(server, starts, received) \subseteq GotMessages(server', starts', received')
      /\ TrueAnswers(server, starts, received, asked)
           \subseteq TrueAnswers(server', starts', received', asked')
  BY <1>1, MessagesCarry
<1>3. /\ outbox \in Seq(SentMessages(server, starts))
      /\ targetBox \in Seq(GotMessages(server, starts, received))
      /\ mail \in Seq(SentReport \cup TrueAnswers(server, starts, received, asked))
  BY DEF MessagesInv
<1>4. SentReport \cup TrueAnswers(server, starts, received, asked)
        \subseteq SentReport \cup TrueAnswers(server', starts', received', asked')
  BY <1>2, Zenon
<1> QED
  BY <1>2, <1>3, <1>4, SeqOf

(* A server that stays where it is has not gone back.                      *)
LEMMA OnwardStill ==
  ASSUME server \in Globals
  PROVE  Onward(server, server)
<1>1. server.nextSegment <= server.nextSegment
  BY SMT DEF Globals
<1> QED
  BY <1>1, Zenon DEF Onward

(* The place part holds at first.                                          *)
LEMMA PlaceInit == Init => PlaceInv
<1> SUFFICES ASSUME Init PROVE PlaceInv
  OBVIOUS
<1>1. server.state = "IDLE" /\ outbox = <<>> /\ targetBox = <<>> /\ mail = <<>>
  BY SMT DEF Init
<1>2. MessagesInv
  BY <1>1, SMT DEF MessagesInv
<1>3. "IDLE" \notin ImageDistributionStates /\ "IDLE" \notin SentStates
  BY SMT DEF ImageDistributionStates, SentStates
<1> QED
  BY <1>1, <1>2, <1>3, Zenon DEF PlaceInv, PositionInv, NoSegmentSkipped, StoredInv

(* A new process makes every message under way stale.                      *)
LEMMA PlaceInitiate ==
  ASSUME TypeInv, TypeInv', PlaceInv, NEW kind \in ProcessKinds, Initiate(kind)
  PROVE  PlaceInv'
<1> DEFINE x == IF kind = "image" THEN "HANDSHAKE_INTERVAL" ELSE "BOOTLOAD_INTERVAL"
<1> DEFINE a == [server EXCEPT !.nextSegment = 0, !.stackErrors = 0, !.targetErrors = 0]
<1> DEFINE b == [a EXCEPT !.state = x]
<1>0. server \in Globals /\ server' \in Globals /\ starts \in Nat
  BY Constants, SMT DEF TypeInv, TypeOK
<1>1. server' = b /\ starts' = starts + 1 /\ UNCHANGED <<outbox, targetBox, mail>>
  BY Zenon DEF Initiate
<1>2. a \in Globals
  BY <1>0, ResetType
<1>3. b.state = x
  <2> HIDE DEF a, x
  <2> QED
    BY <1>2, Zenon DEF Globals
<1>4. x \notin ImageDistributionStates /\ x \notin SentStates
  BY SMT DEF ImageDistributionStates, SentStates
<1> HIDE DEF a, b, x
<1>5. PositionInv' /\ StoredInv'
  BY <1>1, <1>3, <1>4, Zenon DEF PositionInv, NoSegmentSkipped, StoredInv
<1>6. MessagesInv'
  <2>1. /\ SentMessages(server, starts) \subseteq SentMessages(server', starts')
        /\ GotMessages(server, starts, received) \subseteq GotMessages(server', starts', received')
        /\ SentReport \cup TrueAnswers(server, starts, received, asked)
             \subseteq SentReport \cup TrueAnswers(server', starts', received', asked')
    BY <1>0, <1>1, MessagesStale, Zenon
  <2>2. /\ outbox' \in Seq(SentMessages(server, starts))
        /\ targetBox' \in Seq(GotMessages(server, starts, received))
        /\ mail' \in Seq(SentReport \cup TrueAnswers(server, starts, received, asked))
    BY <1>1, Zenon DEF PlaceInv, MessagesInv
  <2>3. /\ outbox' \in Seq(SentMessages(server', starts'))
        /\ targetBox' \in Seq(GotMessages(server', starts', received'))
        /\ mail' \in Seq(SentReport \cup TrueAnswers(server', starts', received', asked'))
    BY <2>1, <2>2, SeqOf
  <2> QED
    BY <2>3 DEF MessagesInv
<1> QED
  BY <1>5, <1>6 DEF PlaceInv

(* The segment that is sent is the one the server has come to.             *)
LEMMA ThreadMessages ==
  ASSUME TypeInv, server' \in Globals, ControlInv, PlaceInv, Onward(server, server'),
         NEW n \in EventThreads, EventThreadStep(n)
  PROVE  MessagesInv'
<1>0. starts' = starts /\ UNCHANGED <<targetBox, mail, received, asked>>
  BY Zenon DEF EventThreadStep, CreateTimer, CheckIdle, PollTimer, ReadTimer, EventHandler,
               UnicastHandshake, UnicastNextSegment, RequestTargetForBootload, Send,
               DataUnderflow, SetPending, CountAndSchedule, world
<1>1. /\ outbox \in Seq(SentMessages(server', starts'))
      /\ targetBox' \in Seq(GotMessages(server', starts', received'))
      /\ mail' \in Seq(SentReport \cup TrueAnswers(server', starts', received', asked'))
  BY <1>0, MessagesOn, Zenon DEF PlaceInv
<1>2. CASE outbox' = outbox
  BY <1>1, <1>2, Zenon DEF MessagesInv
<1>3. ASSUME NEW command \in Commands, NEW segment \in Nat, server' = server,
             outbox' = Append(outbox, [command |-> command, segment |-> segment,
                                       tag |-> starts, got |-> FALSE]),
             command = "SEGMENT" =>
               server.state = "SEGMENT_INTERVAL" /\ segment = server.nextSegment
      PROVE  MessagesInv'
  <2> DEFINE m == [command |-> command, segment |-> segment, tag |-> starts, got |-> FALSE]
  <2>0. starts \in Nat /\ server.nextSegment \in Nat
    BY Constants, SMT DEF TypeInv, TypeOK, Globals
  <2>1. m \in Outgoing
    BY <2>0, SMT DEF Outgoing
  <2>2. m.command = command /\ m.segment = segment /\ m.tag = starts
    BY SMT
  <2> HIDE DEF m
  <2>3. command = "SEGMENT" =>
          /\ segment < TotalSegments /\ segment <= server.nextSegment
          /\ server.state \notin HandshakeStates
    <3>1. command = "SEGMENT" => segment < TotalSegments /\ server.state \notin HandshakeStates
      BY <1>3, Places, Zenon DEF PlaceInv, PositionInv
    <3>2. command = "SEGMENT" => segment <= server.nextSegment
      BY <1>3, <2>0, SMT
    <3> QED
      BY <3>1, <3>2
  <2>4. m.tag <= starts
    BY <2>0, <2>2, SMT
  <2>5. m \in SentMessages(server', starts')
    BY <1>0, <1>3, <2>1, <2>2, <2>3, <2>4, Zenon DEF SentMessages, SentBy
  <2>6. outbox' = Append(outbox, m)
    BY <1>3 DEF m
  <2>7. outbox' \in Seq(SentMessages(server', starts'))
    BY <1>1, <2>5, <2>6, SeqOf
  <2> QED
    BY <1>1, <2>7, Zenon DEF MessagesInv
<1>4. CASE UnicastHandshake(n) \/ RequestTargetForBootload(n)
  <2>1. /\ server' = server
        /\ \/ outbox' = outbox
           \/ \E command \in {"HANDSHAKE", "BOOTLOAD"} :
                outbox' = Append(outbox, [command |-> command, segment |-> 0,
                                          tag |-> starts, got |-> FALSE])
    BY <1>4, Zenon DEF UnicastHandshake, RequestTargetForBootload, Send
  <2>2. \A command \in {"HANDSHAKE", "BOOTLOAD"} : command \in Commands /\ command # "SEGMENT"
    BY SMT DEF Commands
  <2>3. 0 \in Nat
    BY SMT
  <2> QED
    BY <1>2, <1>3, <2>1, <2>2, <2>3, Zenon
<1>5. CASE UnicastNextSegment(n)
  <2>1. /\ server' = server /\ pc[n] = "sendSegment"
        /\ \/ outbox' = outbox
           \/ outbox' = Append(outbox, [command |-> "SEGMENT", segment |-> server.nextSegment,
                                        tag |-> starts, got |-> FALSE])
    BY <1>5, Zenon DEF UnicastNextSegment, Send
  <2>2. /\ pc[n] \in Engaged /\ StatesAt("sendSegment") = {"SEGMENT_INTERVAL"}
        /\ "SEGMENT" \in Commands
    BY <2>1, SMT DEF Engaged, Labels, StatesAt, Commands
  <2>3. server.state = "SEGMENT_INTERVAL"
    BY <2>1, <2>2, Zenon DEF ControlInv, ThreadsInv
  <2>4. server.nextSegment \in Nat
    BY SMT DEF TypeInv, TypeOK, Globals
  <2> QED
    BY <1>2, <1>3, <2>1, <2>2, <2>3, <2>4, Zenon
<1>6. CASE ~(UnicastHandshake(n) \/ UnicastNextSegment(n) \/ RequestTargetForBootload(n))
  <2>1. outbox' = outbox
    BY <1>6, Zenon DEF EventThreadStep, CreateTimer, CheckIdle, PollTimer, ReadTimer,
                       EventHandler, DataUnderflow, SetPending, CountAndSchedule, world
  <2> QED
    BY <1>2, <2>1
<1> QED
  BY <1>4, <1>5, <1>6

(* A callback takes a message from the mail.                               *)
LEMMA CallbackMessages ==
  ASSUME TypeInv, server' \in Globals, MessagesInv, Onward(server, server'),
         Callbacks \/ AbortCurrentProcess
  PROVE  MessagesInv'
<1>1. /\ starts' = starts /\ UNCHANGED <<outbox, targetBox, received, asked>>
      /\ mail' = mail \/ (mail # <<>> /\ mail' = Tail(mail))
  BY Zenon DEF Callbacks, MessageSentCallback, IncomingMessageCallback, AbortCurrentProcess,
               world
<1>2. /\ outbox' \in Seq(SentMessages(server', starts'))
      /\ targetBox' \in Seq(GotMessages(server', starts', received'))
      /\ mail \in Seq(SentReport \cup TrueAnswers(server', starts', received', asked'))
  BY <1>1, MessagesOn, Zenon
<1>3. mail' \in Seq(SentReport \cup TrueAnswers(server', starts', received', asked'))
  <2> DEFINE S == SentReport \cup TrueAnswers(server', starts', received', asked')
  <2> HIDE DEF S
  <2>1. mail \in Seq(S)
    BY <1>2 DEF S
  <2>2. mail # <<>> => Tail(mail) \in Seq(S)
    BY <2>1, SeqOf
  <2>3. mail' \in Seq(S)
    BY <1>1, <2>1, <2>2, Zenon
  <2> QED
    BY <2>3 DEF S
<1> QED
  BY <1>2, <1>3 DEF MessagesInv

(* Steps that leave the server where it is.                                *)
Idles == UNCHANGED <<server, pc, starts, completions>>
                 /\ received \subseteq received' /\ asked \subseteq asked'

(* They keep the place.                                                    *)
LEMMA IdlesProgress ==
  ASSUME TypeInv, PlaceInv, Idles
  PROVE  Progress /\ StoredInv' /\ PositionInv' /\ Onward(server, server')
<1>1. server \in Globals /\ server' = server
  BY Zenon DEF TypeInv, TypeOK, Idles
<1>2. Progress /\ StoredInv'
  BY Zenon DEF Idles, PlaceInv, Progress, StaysOn, StoredInv
<1>3. PositionInv'
  BY <1>1, <1>2, ProgressPosition, Zenon DEF Idles, PlaceInv
<1> QED
  BY <1>1, <1>2, <1>3, OnwardStill, Zenon

(* The target has what it receives.                                        *)
LEMMA ReceivesMessages ==
  ASSUME TypeInv, PlaceInv, TargetReceives
  PROVE  Idles /\ MessagesInv'
<1>1. Idles
  BY Zenon DEF Idles, TargetReceives
<1>2. /\ outbox \in Seq(SentMessages(server', starts'))
      /\ targetBox \in Seq(GotMessages(server', starts', received'))
      /\ mail' \in Seq(SentReport \cup TrueAnswers(server', starts', received', asked'))
  <2>1. /\ server' \in Globals /\ Onward(server, server') /\ starts' = starts /\ mail' = mail
    BY <1>1, IdlesProgress, Zenon DEF Idles, TypeInv, TypeOK, TargetReceives
  <2> QED
    BY <1>1, <2>1, MessagesOn, Zenon DEF Idles, PlaceInv
<1>3. outbox # <<>> /\ outbox' = [outbox EXCEPT ![1].got = TRUE]
      /\ targetBox' = Append(targetBox, Head(outbox))
  BY Zenon DEF TargetReceives
<1> DEFINE S == SentMessages(server', starts')
<1> DEFINE m == [outbox[1] EXCEPT !.got = TRUE]
<1>4. Head(outbox) \in S /\ outbox[1] \in S
  <2> HIDE DEF S
  <2>1. outbox \in Seq(S)
    BY <1>2 DEF S
  <2> QED
    BY <1>3, <2>1, SMT
<1>5. m \in S
  <2>1. outbox[1] \in Outgoing /\ SentBy(outbox[1], server', starts')
    BY <1>4, Zenon DEF SentMessages
  <2>2. /\ m \in Outgoing /\ m.command = outbox[1].command /\ m.segment = outbox[1].segment
        /\ m.tag = outbox[1].tag
    BY <2>1, Zenon DEF Outgoing
  <2> HIDE DEF m
  <2>3. SentBy(m, server', starts')
    BY <2>1, <2>2, Zenon DEF SentBy
  <2> QED
    BY <2>2, <2>3, Zenon DEF SentMessages
<1>6. outbox' \in Seq(S)
  <2> HIDE DEF S
  <2>1. outbox \in Seq(S)
    BY <1>2 DEF S
  <2>2. \A x \in S : [outbox EXCEPT ![1] = x] \in Seq(S)
    BY <1>3, <2>1, SMT
  <2>3. [outbox EXCEPT ![1] = m] \in Seq(S)
    BY <1>5, <2>2, Zenon
  <2> QED
    BY <1>3, <2>3, Zenon
<1>7. targetBox' \in Seq(GotMessages(server', starts', received'))
  <2>1. Head(outbox) \in Outgoing /\ SentBy(Head(outbox), server', starts')
    BY <1>4, Zenon DEF SentMessages
  <2>2. Head(outbox).command = "SEGMENT" /\ Head(outbox).tag = starts' =>
          Head(outbox).segment \in received'
    BY Zenon DEF TargetReceives
  <2>3. Head(outbox) \in GotMessages(server', starts', received')
    BY <2>1, <2>2, Zenon DEF GotMessages, GotBy
  <2> QED
    BY <1>2, <1>3, <2>3, SeqOf
<1> QED
  BY <1>1, <1>2, <1>6, <1>7 DEF MessagesInv

(* A report says nothing of the segment.                                   *)
LEMMA ReportMessages ==
  ASSUME TypeInv, PlaceInv, Report
  PROVE  Idles /\ MessagesInv'
<1>0. PICK status \in {"SUCCESS", "NO_ACK", "FAILED"} : ReportSent(status)
  BY DEF Report
<1>1. /\ Idles
      /\ outbox # <<>> /\ outbox' = Tail(outbox) /\ targetBox' = targetBox
      /\ mail' = Append(mail, [type |-> "sent", command |-> Head(outbox).command,
                               status |-> status])
  BY <1>0, Zenon DEF Idles, ReportSent
<1>2. /\ outbox \in Seq(SentMessages(server', starts'))
      /\ targetBox' \in Seq(GotMessages(server', starts', received'))
      /\ mail \in Seq(SentReport \cup TrueAnswers(server', starts', received', asked'))
  <2>1. /\ server' \in Globals /\ Onward(server, server') /\ starts' = starts
    BY <1>1, IdlesProgress, Zenon DEF Idles, TypeInv, TypeOK
  <2> QED
    BY <1>1, <2>1, MessagesOn, Zenon DEF Idles, PlaceInv
<1>3. outbox' \in Seq(SentMessages(server', starts')) /\ Head(outbox) \in Outgoing
  <2>1. outbox' \in Seq(SentMessages(server', starts'))
        /\ Head(outbox) \in SentMessages(server', starts')
    BY <1>1, <1>2, SeqOf
  <2> QED
    BY <2>1, Zenon DEF SentMessages
<1>4. [type |-> "sent", command |-> Head(outbox).command, status |-> status] \in SentReport
  <2>1. Head(outbox).command \in Commands
    BY <1>3, SMT DEF Outgoing
  <2> QED
    BY <2>1, SMT DEF SentReport
<1>5. mail' \in Seq(SentReport \cup TrueAnswers(server', starts', received', asked'))
  BY <1>1, <1>2, <1>4, SeqOf
<1> QED
  BY <1>1, <1>2, <1>3, <1>5 DEF MessagesInv

(* A target that answers the segment it was sent.                          *)
LEMMA AnswersMessages ==
  ASSUME ConformingTarget, TypeInv, PlaceInv, TargetAnswers
  PROVE  Idles /\ MessagesInv'
<1> DEFINE h == Head(targetBox)
<1> DEFINE reply(a) == [type |-> "response", command |-> h.command,
                        status |-> a[1], segment |-> a[2], tag |-> h.tag]
<1>1. /\ UNCHANGED <<server, pc, starts, completions, outbox, received>>
      /\ targetBox # <<>> /\ targetBox' = Tail(targetBox)
      /\ \/ UNCHANGED <<mail, asked>>
         \/ \E a \in Answers(h) :
              /\ mail' = Append(mail, reply(a))
              /\ asked \subseteq asked'
              /\ h.command = "HANDSHAKE" /\ a[1] = "ONGOING" /\ h.tag = starts =>
                   a[2] \in asked'
  BY Zenon DEF TargetAnswers
<1>2. Idles
  BY <1>1, Zenon DEF Idles
<1>3. /\ outbox' \in Seq(SentMessages(server', starts'))
      /\ targetBox \in Seq(GotMessages(server', starts', received'))
      /\ mail \in Seq(SentReport \cup TrueAnswers(server', starts', received', asked'))
  <2>1. /\ server' \in Globals /\ Onward(server, server') /\ starts' = starts /\ outbox' = outbox
    BY <1>1, <1>2, IdlesProgress, Zenon DEF TypeInv, TypeOK
  <2> QED
    BY <1>2, <2>1, MessagesOn, Zenon DEF Idles, PlaceInv
<1>4. /\ targetBox' \in Seq(GotMessages(server', starts', received'))
      /\ h \in Outgoing /\ GotBy(h, server', starts', received')
  <2>1. /\ targetBox' \in Seq(GotMessages(server', starts', received'))
        /\ h \in GotMessages(server', starts', received')
    BY <1>1, <1>3, SeqOf
  <2> QED
    BY <2>1, Zenon DEF GotMessages
<1>5. ASSUME NEW a \in Answers(h),
             h.command = "HANDSHAKE" /\ a[1] = "ONGOING" /\ h.tag = starts => a[2] \in asked'
      PROVE  reply(a) \in TrueAnswers(server', starts', received', asked')
  <2>0. h.command \in Commands /\ h.segment \in Nat /\ h.tag \in Nat /\ TotalSegments \in Nat \ {0}
    BY <1>4, Constants, SMT DEF Outgoing
  <2>1. a[1] \in Statuses /\ a[2] \in Nat
    BY <2>0, AnswerForms, SMT
  <2>2. h.command = "HANDSHAKE" /\ a[1] = "ONGOING" => a[2] < TotalSegments
    BY <2>0, AnswerForms, SMT
  <2>3. h.command = "SEGMENT" =>
          /\ a[2] = h.segment
          /\ a[1] = "COMPLETED" => h.segment + 1 = TotalSegments
          /\ a[1] = "ONGOING" => h.segment + 1 # TotalSegments
    BY <2>0, AnswerForms, SMT DEF SegmentStatuses, Statuses
  <2>4. /\ reply(a) \in Response
        /\ reply(a).command = h.command /\ reply(a).status = a[1] /\ reply(a).segment = a[2]
        /\ reply(a).tag = h.tag
    BY <2>0, <2>1, SMT DEF Response
  <2> HIDE DEF reply
  <2>5. SentBy(reply(a), server', starts') /\ GotBy(reply(a), server', starts', received')
    BY <1>4, <2>3, <2>4, Zenon DEF GotBy, SentBy
  <2>6. reply(a).command = "SEGMENT" =>
          /\ reply(a).status = "COMPLETED" => reply(a).segment + 1 = TotalSegments
          /\ reply(a).status = "ONGOING" => reply(a).segment + 1 # TotalSegments
    BY <2>3, <2>4, Zenon
  <2>7. starts' = starts
    BY <1>1
  <2>8. reply(a).command = "HANDSHAKE" /\ reply(a).status = "ONGOING" =>
          /\ reply(a).segment < TotalSegments
          /\ reply(a).tag = starts' => reply(a).segment \in asked'
    BY <1>5, <2>2, <2>4, <2>7, Zenon
  <2> QED
    BY <2>4, <2>5, <2>6, <2>8, Zenon DEF TrueAnswers, AnsweredBy
<1> HIDE DEF reply
<1>6. mail' \in Seq(SentReport \cup TrueAnswers(server', starts', received', asked'))
  <2>1. CASE UNCHANGED <<mail, asked>>
    BY <1>3, <2>1, Zenon
  <2>2. ASSUME NEW a \in Answers(h), mail' = Append(mail, reply(a)),
               h.command = "HANDSHAKE" /\ a[1] = "ONGOING" /\ h.tag = starts => a[2] \in asked'
        PROVE  mail' \in Seq(SentReport \cup TrueAnswers(server', starts', received', asked'))
    <3>1. reply(a) \in TrueAnswers(server', starts', received', asked')
      BY <1>5, <2>2
    <3> QED
      BY <1>3, <2>2, <3>1, SeqOf
  <2> QED
    BY <1>1, <2>1, <2>2, Zenon
<1> QED
  BY <1>2, <1>3, <1>4, <1>6 DEF MessagesInv

(* Every step keeps the place part and is progress or a new process.       *)
LEMMA PlaceStep ==
  ASSUME "during handler" \notin Races, ConformingTarget, TypeInv, TypeInv', ControlInv, PlaceInv,
         [Next]_vars
  PROVE  PlaceInv' /\ (Progress \/ \E kind \in ProcessKinds : Initiate(kind))
<1>0. server \in Globals /\ server' \in Globals
  BY DEF TypeInv, TypeOK
<1>1. ASSUME NEW kind \in ProcessKinds, Initiate(kind) PROVE PlaceInv'
  BY <1>1, PlaceInitiate
<1>2. ASSUME Progress, StoredInv', received' = received, asked' = asked,
             Onward(server, server') => MessagesInv'
      PROVE  PlaceInv'
  <2>1. Onward(server, server')
    BY <1>0, <1>2, ProgressOnward
  <2>2. PositionInv'
    BY <1>0, <1>2, ProgressPosition DEF PlaceInv
  <2> QED
    BY <1>2, <2>1, <2>2 DEF PlaceInv
<1>3. CASE AbortCurrentProcess \/ Callbacks
  <2>1. /\ received' = received /\ asked' = asked /\ Quiescent
    BY <1>3, Zenon DEF AbortCurrentProcess, Callbacks, MessageSentCallback,
                       IncomingMessageCallback, MayInterrupt, world
  <2>2. Progress /\ StoredInv'
    BY <1>3, <2>1, AbortProgress, CallbackProgress DEF PlaceInv
  <2>3. Onward(server, server') => MessagesInv'
    BY <1>0, <1>3, CallbackMessages DEF PlaceInv
  <2> QED
    BY <1>2, <2>1, <2>2, <2>3
<1>4. ASSUME NEW n \in EventThreads, EventThreadStep(n) PROVE PlaceInv' /\ Progress
  <2>1. received' = received /\ asked' = asked
    BY <1>4, Zenon DEF EventThreadStep, CreateTimer, CheckIdle, PollTimer, ReadTimer,
                EventHandler, UnicastHandshake, UnicastNextSegment, RequestTargetForBootload,
                Send, DataUnderflow, SetPending, CountAndSchedule, world
  <2>2. Progress /\ StoredInv'
    BY <1>4, ThreadProgress DEF PlaceInv
  <2>3. Onward(server, server') => MessagesInv'
    BY <1>0, <1>4, ThreadMessages
  <2> QED
    BY <1>2, <2>1, <2>2, <2>3
<1>5. ASSUME Idles, MessagesInv' PROVE PlaceInv' /\ Progress
  BY <1>5, IdlesProgress DEF PlaceInv
<1>6. CASE TargetReceives \/ Report \/ TargetAnswers
  BY <1>5, <1>6, ReceivesMessages, ReportMessages, AnswersMessages
<1>7. CASE UNCHANGED vars \/ \E n \in EventThreads : TimerExpires(n)
  <2>1. UNCHANGED <<server, pc, starts, completions, world, asked>>
    BY <1>7, Zenon DEF vars, TimerExpires
  <2>2. Idles /\ MessagesInv'
    BY <2>1, Zenon DEF Idles, PlaceInv, MessagesInv, world
  <2> QED
    BY <1>5, <2>2
<1>8. CASE AbortCurrentProcess \/ Callbacks
  <2>1. Quiescent
    BY <1>8, Zenon DEF AbortCurrentProcess, Callbacks, MessageSentCallback,
                       IncomingMessageCallback, MayInterrupt
  <2> QED
    BY <1>3, <1>8, <2>1, AbortProgress, CallbackProgress DEF PlaceInv
<1> QED
  BY <1>1, <1>4, <1>6, <1>7, <1>8, Zenon DEF Next, Resting

(* The elements of a sequence.                                             *)
LEMMA SeqElement ==
  ASSUME NEW S, NEW q \in Seq(S), NEW i \in DOMAIN q
  PROVE  q[i] \in S
BY SMT

(* The inductive invariant: every step needs all of it and keeps it.       *)
LEMMA IInvInit == Init => IInv
BY TypeInit, ControlInit, PlaceInit DEF IInv

LEMMA IInvStep ==
  ASSUME "during handler" \notin Races, ConformingTarget, IInv, [Next]_vars
  PROVE  IInv' /\ (Progress \/ \E kind \in ProcessKinds : Initiate(kind))
<1>1. TypeInv /\ ControlInv /\ PlaceInv
  BY DEF IInv
<1>2. TypeInv' /\ ControlInv'
  BY <1>1, TypeStep, ControlStep
<1>3. PlaceInv' /\ (Progress \/ \E kind \in ProcessKinds : Initiate(kind))
  BY <1>1, <1>2, PlaceStep
<1> QED
  BY <1>2, <1>3 DEF IInv

(* A new process runs, and has a number of its own.                        *)
LEMMA InitiateRuns ==
  ASSUME TypeOK, NEW kind \in ProcessKinds, Initiate(kind)
  PROVE  server'.state # "IDLE" /\ starts' # starts
<1> DEFINE x == IF kind = "image" THEN "HANDSHAKE_INTERVAL" ELSE "BOOTLOAD_INTERVAL"
<1> DEFINE a == [server EXCEPT !.nextSegment = 0, !.stackErrors = 0, !.targetErrors = 0]
<1> DEFINE b == [a EXCEPT !.state = x]
<1>1. server' = b /\ starts' = starts + 1
  BY Zenon DEF Initiate
<1>2. starts \in Nat
  BY Constants, SMT DEF TypeOK
<1>3. a \in Globals
  <2>1. server \in Globals
    BY DEF TypeOK
  <2> QED
    BY <2>1, ResetType
<1>4. b.state = x
  <2> HIDE DEF a, x
  <2> QED
    BY <1>3, Zenon DEF Globals
<1>5. x # "IDLE" /\ starts + 1 # starts
  <2> HIDE DEF a, b
  <2> QED
    BY <1>2, SMT
<1> HIDE DEF a, b, x
<1> QED
  BY <1>1, <1>4, <1>5, Zenon

(* No process runs in an idle server.                                      *)
LEMMA IdleIsOutside == "IDLE" \notin HandshakeStates /\ "IDLE" \notin ImageDistributionStates
BY SMT DEF HandshakeStates, ImageDistributionStates

(* What a step within a process leaves: the segments the target has and    *)
(* was asked for, and an idle server.                                      *)
LEMMA StaysInProcess ==
  ASSUME "during handler" \notin Races, ConformingTarget, IInv, [Next]_vars,
         ~\E kind \in ProcessKinds : Initiate(kind)
  PROVE  /\ starts' = starts /\ received \subseteq received' /\ asked \subseteq asked'
         /\ Progress
         /\ server.state = "IDLE" => server'.state = "IDLE"
<1>1. Progress
  BY IInvStep
<1>2. server.state \in ServerStates /\ server'.state \in ServerStates
  BY IInvStep, Zenon DEF IInv, TypeInv, TypeOK, Globals
<1>3. server.state = "IDLE" => server'.state = "IDLE"
  <2>1. server.state = "IDLE" => ~Ended /\ ~Agreed /\ ~Moved
    BY IdleIsOutside, Zenon DEF Ended, Agreed, Moved
  <2> QED
    BY <1>1, <1>2, <2>1, Kinds, ZenonT(60) DEF Progress, StaysOn
<1>4. starts' = starts /\ received \subseteq received' /\ asked \subseteq asked'
  BY Zenon DEF Next, Resting, vars, world, AbortCurrentProcess, Callbacks, MessageSentCallback,
         IncomingMessageCallback, EventThreadStep, CreateTimer, CheckIdle, PollTimer, ReadTimer,
         EventHandler, UnicastHandshake, UnicastNextSegment, RequestTargetForBootload, Send,
         DataUnderflow, SetPending, CountAndSchedule, TimerExpires, Report, ReportSent,
         TargetReceives, TargetAnswers
<1> QED
  BY <1>1, <1>3, <1>4

(* At most one event thread acts on a state of the server, no process runs *)
(* at a limit of the error counters, and every message under way that can  *)
(* still move the server is true of the current process, whatever is lost, *)
(* repeated, late or left over: unless a callback or an abort comes while  *)
(* an event thread is between two polls                                    *)
(* (ota-unicast-bootloader-server.c:182-415, 505-740).                     *)
THEOREM IInvHolds == "during handler" \notin Races /\ ConformingTarget => (Spec => []IInv)
<1> SUFFICES ASSUME "during handler" \notin Races, ConformingTarget
             PROVE  Spec => []IInv
  OBVIOUS
<1>1. IInv /\ [Next]_vars => IInv'
  BY IInvStep
<1> QED
  BY <1>1, IInvInit, PTL DEF Spec

(* A distribution sends the segments from where the target asked it to     *)
(* start and goes past one only when the target has received it, for every *)
(* image size, payload length, number of processes and retries, and for    *)
(* messages lost, repeated, late or left over from earlier processes       *)
(* (ota-unicast-bootloader-server.c:182-240, 363-415, 505-558).            *)
THEOREM NoSegmentSkippedHolds ==
  "during handler" \notin Races /\ ConformingTarget => (Spec => []NoSegmentSkipped)
<1> SUFFICES ASSUME "during handler" \notin Races, ConformingTarget
             PROVE  Spec => []NoSegmentSkipped
  OBVIOUS
<1>1. Spec => []IInv
  BY IInvHolds
<1>2. IInv => NoSegmentSkipped
  BY DEF IInv, PlaceInv, PositionInv
<1> QED
  BY <1>1, <1>2, PTL

(* With a target that answers the segment it was sent, the server sends no *)
(* segment past the end of the image: the segment number it increments is  *)
(* below the number of segments whenever it is used                        *)
(* (ota-unicast-bootloader-server.c:452-503, 523-535).                     *)
THEOREM OnlySegmentsOfTheImageHolds ==
  "during handler" \notin Races /\ ConformingTarget => (Spec => []OnlySegmentsOfTheImage)
<1> SUFFICES ASSUME "during handler" \notin Races, ConformingTarget
             PROVE  Spec => []OnlySegmentsOfTheImage
  OBVIOUS
<1>1. Spec => []IInv
  BY IInvHolds
<1>2. IInv => OnlySegmentsOfTheImage
  <2> SUFFICES ASSUME IInv, NEW i \in DOMAIN outbox, outbox[i].command = "SEGMENT"
               PROVE  outbox[i].segment < TotalSegments
    BY DEF OnlySegmentsOfTheImage
  <2> DEFINE S == SentMessages(server, starts)
  <2>1. outbox[i] \in S
    <3> HIDE DEF S
    <3>1. outbox \in Seq(S)
      BY DEF IInv, PlaceInv, MessagesInv, S
    <3> QED
      BY <3>1, SeqElement
  <2> QED
    BY <2>1, Zenon DEF SentMessages, SentBy
<1> QED
  BY <1>1, <1>2, PTL

(* The contract.                                                           *)
LEMMA ContractInit == Init => Contract!Init
<1> SUFFICES ASSUME Init PROVE Contract!Init
  OBVIOUS
<1>1. server.state = "IDLE" /\ received = {} /\ completions = <<>>
  BY SMT DEF Init
<1>2. "IDLE" \in ServerStates /\ "IDLE" \notin ImageDistributionStates
  BY States, SMT DEF ImageDistributionStates
<1>3. ProcessOf(server.state) = "none"
  BY <1>1, <1>2, Kinds, Zenon
<1> QED
  BY <1>1, <1>2, <1>3, Zenon DEF Contract!Init, Contract!NotAgreed

(* Progress is a step of the contract, or none.                            *)
LEMMA ContractProgress ==
  ASSUME TypeInv, TypeInv', PlaceInv, Progress, received' = received
  PROVE  [Contract!Next]_(Contract!contract)
<1> DEFINE next == IF server.state \in ImageDistributionStates THEN server.nextSegment ELSE -1
<1>0. /\ server.state \in ServerStates /\ server'.state \in ServerStates
      /\ server.nextSegment \in Nat /\ server'.nextSegment \in Nat
      /\ TotalSegments \in Nat \ {0}
  BY Constants, Zenon DEF TypeInv, TypeOK, Globals
<1>1. CASE StaysOn
  <2>1. next' = next
    BY <1>1, Zenon DEF StaysOn
  <2>2. UNCHANGED Contract!contract
    BY <1>1, <2>1, Zenon DEF StaysOn, Contract!contract
  <2> QED
    BY <2>2
<1>2. CASE Ended
  <2>1. PICK status \in ProcessStatuses :
          /\ completions' =
               Append(completions, [kind |-> ProcessOf(server.state), status |-> status])
          /\ ProcessOf(server.state) = "image" /\ status = "SUCCESS" => HasImage
    BY <1>2 DEF Ended
  <2>2. "IDLE" \notin ImageDistributionStates
    BY SMT DEF ImageDistributionStates
  <2>3. /\ ProcessOf(server.state) # "none" /\ ProcessOf(server'.state) = "none" /\ next' = -1
    BY <1>0, <1>2, <2>2, Kinds, Zenon DEF Ended
  <2>4. HasImage => Contract!FullImageReceived
    BY Zenon DEF HasImage, Contract!FullImageReceived
  <2>5. Contract!Complete(status)
    BY <2>1, <2>3, <2>4, Zenon DEF Contract!Complete, Contract!NotAgreed
  <2>6. status \in Contract!Statuses
    BY DEF ProcessStatuses, Contract!Statuses
  <2> QED
    BY <2>5, <2>6 DEF Contract!Next
<1>3. CASE Agreed
  <2>1. /\ server.state \notin ImageDistributionStates
        /\ server'.state \in ImageDistributionStates
        /\ ProcessOf(server.state) = "image" /\ ProcessOf(server'.state) = "image"
    BY <1>0, <1>3, Places, Kinds, Zenon DEF Agreed
  <2>2. server'.nextSegment \in 0..(TotalSegments - 1)
    BY <1>0, <1>3, SMT DEF Agreed
  <2>3. Contract!AgreeOnStart
    BY <1>3, <2>1, <2>2, Zenon DEF Agreed, Contract!AgreeOnStart, Contract!NotAgreed
  <2> QED
    BY <2>3 DEF Contract!Next
<1>4. CASE Moved
  <2>1. /\ server.state \in ImageDistributionStates
        /\ server'.state \in ImageDistributionStates
        /\ ProcessOf(server.state) = "image" /\ ProcessOf(server'.state) = "image"
    BY <1>0, <1>4, Places, Kinds, Zenon DEF Moved
  <2>2. /\ server.nextSegment \in received /\ server.nextSegment + 1 < TotalSegments
        /\ server'.nextSegment = server.nextSegment + 1
    BY <1>4, Zenon DEF Moved
  <2>3. Contract!MoveOn
    BY <1>4, <2>1, <2>2, Zenon DEF Moved, Contract!MoveOn
  <2> QED
    BY <2>3 DEF Contract!Next
<1> QED
  BY <1>1, <1>2, <1>3, <1>4 DEF Progress

(* A process is initiated in the contract too.                             *)
LEMMA ContractInitiate ==
  ASSUME TypeInv, NEW kind \in ProcessKinds, Initiate(kind)
  PROVE  Contract!Next
<1> DEFINE x == IF kind = "image" THEN "HANDSHAKE_INTERVAL" ELSE "BOOTLOAD_INTERVAL"
<1> DEFINE a == [server EXCEPT !.nextSegment = 0, !.stackErrors = 0, !.targetErrors = 0]
<1> DEFINE b == [a EXCEPT !.state = x]
<1>1. /\ server' = b /\ server.state = "IDLE" /\ received' = {}
      /\ completions' = completions
  BY Zenon DEF Initiate
<1>2. a \in Globals
  BY ResetType DEF TypeInv, TypeOK
<1>3. b.state = x
  <2> HIDE DEF a, x
  <2> QED
    BY <1>2, Zenon DEF Globals
<1>4. /\ "IDLE" \in ServerStates /\ "IDLE" \notin ImageDistributionStates
      /\ x \in ServerStates /\ x \notin ImageDistributionStates
      /\ kind = "image" => x \in HandshakeStates
      /\ kind = "bootload" => x \in BootloadRequestStates
  BY States, SMT DEF ImageDistributionStates, HandshakeStates, BootloadRequestStates
<1>5. kind = "image" \/ kind = "bootload"
  BY DEF ProcessKinds
<1> HIDE DEF a, b, x
<1>6. ProcessOf("IDLE") = "none" /\ ProcessOf(x) = kind
  BY <1>4, <1>5, Kinds, Zenon
<1>7. Contract!Initiate(kind)
  BY <1>1, <1>3, <1>4, <1>6, Zenon DEF Contract!Initiate, Contract!NotAgreed
<1>8. kind \in {"image", "bootload"}
  BY DEF ProcessKinds
<1> QED
  BY <1>7, <1>8, Zenon DEF Contract!Next

(* The target gets a segment of the image.                                 *)
LEMMA ContractReceives ==
  ASSUME TypeInv, PlaceInv, TargetReceives
  PROVE  [Contract!Next]_(Contract!contract)
<1>1. UNCHANGED <<server, completions>>
  BY Zenon DEF TargetReceives
<1>2. CASE received' = received
  <2>1. UNCHANGED Contract!contract
    BY <1>1, <1>2, Zenon DEF Contract!contract
  <2> QED
    BY <2>1
<1>3. CASE received' # received
  <2>1. /\ outbox # <<>> /\ Head(outbox).command = "SEGMENT"
        /\ received' = received \cup {Head(outbox).segment}
    BY <1>3, Zenon DEF TargetReceives
  <2>2. Head(outbox) \in SentMessages(server, starts)
    BY <2>1, SeqOf DEF PlaceInv, MessagesInv
  <2>3. Head(outbox).segment \in Nat /\ Head(outbox).segment < TotalSegments
    BY <2>1, <2>2, Zenon DEF SentMessages, SentBy, Outgoing
  <2>4. Head(outbox).segment \in 0..(TotalSegments - 1)
    BY <2>3, Constants, SMT
  <2>5. Contract!Deliver(Head(outbox).segment)
    BY <1>1, <2>1, Zenon DEF Contract!Deliver
  <2> QED
    BY <2>4, <2>5 DEF Contract!Next
<1> QED
  BY <1>2, <1>3

(* Every step is a step of the contract, or none.                          *)
LEMMA ContractStep ==
  ASSUME "during handler" \notin Races, ConformingTarget, TypeInv, TypeInv', ControlInv, PlaceInv,
         [Next]_vars
  PROVE  [Contract!Next]_(Contract!contract)
<1>1. CASE \E kind \in ProcessKinds : Initiate(kind)
  BY <1>1, ContractInitiate
<1>2. CASE TargetReceives
  BY <1>2, ContractReceives
<1>3. CASE Progress /\ received' = received
  BY <1>3, ContractProgress
<1>4. \/ \E kind \in ProcessKinds : Initiate(kind)
      \/ TargetReceives
      \/ received' = received
  BY Zenon DEF Next, Resting, vars, world, AbortCurrentProcess, Callbacks, MessageSentCallback,
         IncomingMessageCallback, EventThreadStep, CreateTimer, CheckIdle, PollTimer, ReadTimer,
         EventHandler, UnicastHandshake, UnicastNextSegment, RequestTargetForBootload, Send,
         DataUnderflow, SetPending, CountAndSchedule, TimerExpires, Report, ReportSent,
         TargetAnswers
<1>5. Progress \/ \E kind \in ProcessKinds : Initiate(kind)
  BY PlaceStep
<1> QED
  BY <1>1, <1>2, <1>3, <1>4, <1>5

(* The server implements the contract of its header: a process runs only   *)
(* while no other does and is completed once, segments go out in order from *)
(* the one agreed on, each only when the one before has arrived, and a     *)
(* distribution reports SUCCESS only when the target has the last segment  *)
(* (ota-unicast-bootloader-server.h:40-218).                               *)
THEOREM ImplementsOtaProcessHolds ==
  "during handler" \notin Races /\ ConformingTarget => (Spec => ImplementsOtaProcess)
<1> SUFFICES ASSUME "during handler" \notin Races, ConformingTarget
             PROVE  Spec => ImplementsOtaProcess
  OBVIOUS
<1>1. Spec => []IInv
  BY IInvHolds
<1>2. IInv /\ IInv' /\ [Next]_vars => [Contract!Next]_(Contract!contract)
  BY ContractStep DEF IInv
<1>3. Init => Contract!Init
  BY ContractInit
<1> QED
  BY <1>1, <1>2, <1>3, PTL DEF Spec, ImplementsOtaProcess, Contract!Spec
=============================================================================
