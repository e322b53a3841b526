--------------------------- MODULE OtaServerControl ---------------------------
(***************************************************************************)
(* The OTA server: its types, its error counters, its completions and its  *)
(* event threads, for every value of the constants.                        *)
(***************************************************************************)
EXTENDS OtaServerInvariant, TLAPS

-----------------------------------------------------------------------------
(* The segments of an image, for every image size and payload length.      *)

(* Division with remainder, by a divisor that is not a literal.            *)
LEMMA DivMod ==
  ASSUME NEW a \in Nat, NEW b \in Nat \ {0}
  PROVE  /\ a \div b \in Nat
         /\ a % b \in 0..(b - 1)
         /\ a = b * (a \div b) + (a % b)
BY SMT

(* There are as many segments as it takes to hold the image, the last one  *)
(* holding a byte at least.                                                *)
LEMMA TotalSegmentsHold ==
  ASSUME NEW size \in Nat \ {0}
  PROVE  /\ GetTotalSegmentsCount(size) \in Nat \ {0}
         /\ size <= PayloadLength * GetTotalSegmentsCount(size)
         /\ PayloadLength * (GetTotalSegmentsCount(size) - 1) < size
<1> DEFINE q == size \div PayloadLength
<1> DEFINE r == size % PayloadLength
<1>1. /\ PayloadLength \in Nat \ {0} /\ q \in Nat /\ r \in 0..(PayloadLength - 1)
      /\ size = PayloadLength * q + r
  BY DivMod, OtaAssumption, Zenon
<1>2. GetTotalSegmentsCount(size) = q + (IF r > 0 THEN 1 ELSE 0)
  BY DEF GetTotalSegmentsCount
<1> HIDE DEF q, r
<1>3. PayloadLength * (q + 1) = PayloadLength * q + PayloadLength
      /\ PayloadLength * (q - 1) = PayloadLength * q - PayloadLength
  BY <1>1, SMT
<1>4. CASE r > 0
  <2>1. GetTotalSegmentsCount(size) = q + 1 /\ (q + 1) - 1 = q
    BY <1>1, <1>2, <1>4, SMT
  <2> QED
    BY <1>1, <1>3, <1>4, <2>1, SMT
<1>5. CASE r = 0
  <2>1. GetTotalSegmentsCount(size) = q
    BY <1>1, <1>2, <1>5, SMT
  <2>2. q # 0
    BY <1>1, <1>5, SMT
  <2> QED
    BY <1>1, <1>3, <1>5, <2>1, <2>2, SMT
<1> QED
  BY <1>1, <1>4, <1>5, SMT

LEMMA Monotone ==
  ASSUME NEW p \in Nat, NEW a \in Nat, NEW b \in Nat, a <= b
  PROVE  /\ p * a \in Nat /\ p * b \in Nat
         /\ p * a <= p * b
<1>1. b - a \in Nat /\ b = a + (b - a)
  BY SMT
<1> DEFINE d == b - a
<1> HIDE DEF d
<1>2. d \in Nat /\ b = a + d
  BY <1>1 DEF d
<1>3. p * (a + d) = p * a + p * d /\ p * a \in Nat /\ p * d \in Nat
  BY <1>2, SMT
<1> QED
  BY <1>2, <1>3, SMT

(* The byte ranges that unicastNextSegment sends tile the image: each is   *)
(* non-empty and fits in a message, they follow one another from the first *)
(* byte to the last without gap or overlap, and no range reaches past the  *)
(* image.                                                                  *)
THEOREM SegmentsTile ==
  ASSUME NEW size \in Nat \ {0}, NEW n \in Nat, n < GetTotalSegmentsCount(size)
  PROVE  /\ SegmentStart(0) = 0
         /\ SegmentStart(n) <= SegmentEnd(n, size)
         /\ SegmentEnd(n, size) - SegmentStart(n) < PayloadLength
         /\ n + 1 < GetTotalSegmentsCount(size)
              => SegmentEnd(n, size) + 1 = SegmentStart(n + 1)
         /\ n + 1 = GetTotalSegmentsCount(size) => SegmentEnd(n, size) = size - 1
<1> DEFINE total == GetTotalSegmentsCount(size)
<1>1. /\ PayloadLength \in Nat \ {0}
      /\ total \in Nat \ {0}
      /\ size <= PayloadLength * total
      /\ PayloadLength * (total - 1) < size
  BY TotalSegmentsHold, OtaAssumption
<1> HIDE DEF total
<1>2. n < total
  BY DEF total
<1> DEFINE start == PayloadLength * n
<1>3. /\ SegmentStart(n) = start /\ start \in Nat
      /\ SegmentStart(n + 1) = start + PayloadLength
      /\ SegmentStart(0) = 0
  BY <1>1, SMT DEF SegmentStart
<1>4. SegmentEnd(n, size) = IF start + PayloadLength - 1 >= size
                            THEN size - 1 ELSE start + PayloadLength - 1
  BY <1>3 DEF SegmentEnd
<1>5. start < size
  <2>1. n <= total - 1 /\ total - 1 \in Nat
    BY <1>1, <1>2, SMT
  <2>2. PayloadLength * n <= PayloadLength * (total - 1) /\ PayloadLength * (total - 1) \in Nat
    BY <1>1, <2>1, Monotone
  <2> QED
    BY <1>1, <1>3, <2>2, SMT
<1>6. ASSUME n + 1 < total
      PROVE  start + PayloadLength - 1 < size
  <2>1. n + 1 <= total - 1 /\ total - 1 \in Nat /\ n + 1 \in Nat
    BY <1>1, <1>6, SMT
  <2>2. PayloadLength * (n + 1) <= PayloadLength * (total - 1)
    BY <1>1, <2>1, Monotone
  <2>3. PayloadLength * (n + 1) = start + PayloadLength
    BY <1>1, SMT
  <2> HIDE DEF start
  <2> QED
    BY <1>1, <1>3, <2>2, <2>3, SMT
<1>7. ASSUME n + 1 = total
      PROVE  size <= start + PayloadLength
  <2>1. PayloadLength * (n + 1) = start + PayloadLength
    BY <1>1, SMT
  <2> QED
    BY <1>1, <1>7, <2>1
<1> HIDE DEF start
<1>8. SegmentStart(n) <= SegmentEnd(n, size)
        /\ SegmentEnd(n, size) - SegmentStart(n) < PayloadLength
  BY <1>1, <1>3, <1>4, <1>5, SMT
<1>9. n + 1 < total => SegmentEnd(n, size) + 1 = SegmentStart(n + 1)
  BY <1>1, <1>3, <1>4, <1>6, SMT
<1>10. n + 1 = total => SegmentEnd(n, size) = size - 1
  <2>1. CASE n + 1 = total /\ start + PayloadLength - 1 >= size
    BY <1>4, <2>1
  <2>2. CASE n + 1 = total /\ ~(start + PayloadLength - 1 >= size)
    BY <1>1, <1>3, <1>4, <1>7, <2>2, SMT
  <2> QED
    BY <2>1, <2>2
<1> QED
  BY <1>3, <1>8, <1>9, <1>10 DEF total

-----------------------------------------------------------------------------
(* What the functions that update the globals return.                      *)
Results ==
  {r \in [globals : Globals,
          outcome : {"none", "armed", "asserted", "image", "bootload"},
          status  : ProcessStatuses \cup {"none"}] :
     r.outcome \in ProcessKinds => r.status \in ProcessStatuses}

(* The states by name.                                                     *)
LEMMA States ==
  /\ {"IDLE", "HANDSHAKE_INTERVAL", "HANDSHAKE_PENDING", "HANDSHAKE_WAITING",
      "SEGMENT_INTERVAL", "SEGMENT_PENDING", "SEGMENT_WAITING",
      "BOOTLOAD_INTERVAL", "BOOTLOAD_PENDING", "BOOTLOAD_WAITING"} = ServerStates
BY SMT DEF ServerStates, ImageDistributionStates, BootloadRequestStates, HandshakeStates

(* What the assumptions on the constants give.                             *)
LEMMA Constants ==
  /\ TxIntervalMs \in Nat /\ ResponseTimeoutMs \in Nat
  /\ TotalSegments \in Nat \ {0}
  /\ MaxStarts \in Nat /\ MaxAborts \in Nat
  /\ MaxStackErrors \in Nat \ {0} /\ MaxUnicastErrors \in Nat \ {0}
<1>1. TotalSegments \in Nat \ {0}
  BY OtaAssumption, TotalSegmentsHold DEF TotalSegments
<1> QED
  BY <1>1, OtaAssumption, SMT

-----------------------------------------------------------------------------
(* The updates of the globals, one field after another.                    *)
LEMMA SetField ==
  ASSUME NEW s \in Globals
  PROVE  /\ \A x \in ServerStates : [s EXCEPT !.state = x] \in Globals
         /\ \A k \in Nat : /\ [s EXCEPT !.stackErrors = k] \in Globals
                           /\ [s EXCEPT !.targetErrors = k] \in Globals
                           /\ [s EXCEPT !.nextSegment = k] \in Globals
                           /\ [s EXCEPT !.sentSegment = k] \in Globals
         /\ \A t \in 0..MaxStarts : [s EXCEPT !.timerFd = t] \in Globals
         /\ [s EXCEPT !.active = TRUE] \in Globals
         /\ [s EXCEPT !.active = FALSE] \in Globals
         /\ \A b \in BOOLEAN : /\ [s EXCEPT !.asserted = b] \in Globals
                               /\ [s EXCEPT !.givenUp = b] \in Globals
BY Zenon DEF Globals

(* What the update of the state and the history givenUp leaves.            *)
SameRest(s, t) ==
  /\ t.stackErrors = s.stackErrors /\ t.targetErrors = s.targetErrors
  /\ t.nextSegment = s.nextSegment /\ t.sentSegment = s.sentSegment
  /\ t.active = s.active /\ t.timerFd = s.timerFd /\ t.asserted = s.asserted

LEMMA StateAndHistory ==
  ASSUME NEW s \in Globals, NEW x \in ServerStates, NEW b \in BOOLEAN
  PROVE  \E t \in Globals : /\ t = [s EXCEPT !.state = x, !.givenUp = b]
                           /\ t.givenUp = b /\ SameRest(s, t)
<1> DEFINE a == [s EXCEPT !.state = x]
<1> DEFINE t == [s EXCEPT !.state = x, !.givenUp = b]
<1>1. a \in Globals
  BY SetField
<1>2. t = [a EXCEPT !.givenUp = b]
  BY Zenon
<1>3. /\ a.state = x /\ SameRest(s, a)
  BY Zenon DEF Globals, SameRest
<1> HIDE DEF a, t
<1>4. t \in Globals
  BY <1>1, <1>2, SetField
<1>5. t.state = a.state /\ t.givenUp = b /\ SameRest(a, t)
  BY <1>1, <1>2, Zenon DEF Globals, SameRest
<1>6. SameRest(s, t)
  BY <1>3, <1>5, SMT DEF SameRest
<1>7. t = [s EXCEPT !.state = x, !.givenUp = b]
  BY DEF t
<1> QED
  BY <1>4, <1>5, <1>6, <1>7, Zenon

LEMMA TakenType ==
  ASSUME NEW s \in Globals, NEW m
  PROVE  /\ TakenAsSent(s, m) \in Globals
         /\ TakenAsSent(s, m).state = "SEGMENT_WAITING"
         /\ TakenAsSent(s, m).givenUp
              = (s.givenUp \/ (s.state = "SEGMENT_PENDING" /\ GivesUp(m)))
         /\ SameRest(s, TakenAsSent(s, m))
<1> DEFINE b == s.givenUp \/ (s.state = "SEGMENT_PENDING" /\ GivesUp(m))
<1> DEFINE x == "SEGMENT_WAITING"
<1> DEFINE t == TakenAsSent(s, m)
<1>1. b \in BOOLEAN /\ x \in ServerStates
  BY States
<1>2. t = [s EXCEPT !.state = x, !.givenUp = b]
  BY DEF TakenAsSent
<1>3. t \in Globals /\ t.state = x /\ t.givenUp = b /\ SameRest(s, t)
  <2> HIDE DEF b, x, t
  <2>1. \E u \in Globals : /\ u = [s EXCEPT !.state = x, !.givenUp = b]
                           /\ u.givenUp = b /\ SameRest(s, u)
    BY <1>1, StateAndHistory, Zenon
  <2>2. t.state = x
    BY <1>2, Zenon DEF Globals
  <2> QED
    BY <1>2, <2>1, <2>2, Zenon
<1> QED
  BY <1>3

LEMMA PendingType ==
  ASSUME NEW s \in Globals
  PROVE  /\ SegmentPending(s) \in Globals
         /\ SegmentPending(s).state = "SEGMENT_PENDING"
         /\ SegmentPending(s).givenUp = FALSE
         /\ SameRest(s, SegmentPending(s))
<1> DEFINE b == FALSE
<1> DEFINE x == "SEGMENT_PENDING"
<1> DEFINE t == SegmentPending(s)
<1>1. b \in BOOLEAN /\ x \in ServerStates
  BY States
<1>2. t = [s EXCEPT !.state = x, !.givenUp = b]
  BY DEF SegmentPending
<1>3. t \in Globals /\ t.state = x /\ t.givenUp = b /\ SameRest(s, t)
  <2> HIDE DEF b, x, t
  <2>1. \E u \in Globals : /\ u = [s EXCEPT !.state = x, !.givenUp = b]
                           /\ u.givenUp = b /\ SameRest(s, u)
    BY <1>1, StateAndHistory, Zenon
  <2>2. t.state = x
    BY <1>2, Zenon DEF Globals
  <2> QED
    BY <1>2, <2>1, <2>2, Zenon
<1> QED
  BY <1>3

LEMMA ResetType ==
  ASSUME NEW s \in Globals
  PROVE  [s EXCEPT !.nextSegment = 0, !.stackErrors = 0, !.targetErrors = 0] \in Globals
<1> DEFINE a == [s EXCEPT !.nextSegment = 0]
<1> DEFINE b == [a EXCEPT !.stackErrors = 0]
<1>1. a \in Globals
  BY SetField
<1>2. b \in Globals
  <2> HIDE DEF a
  <2> QED
    BY <1>1, SetField
<1>3. [b EXCEPT !.targetErrors = 0] \in Globals
  <2> HIDE DEF b
  <2> QED
    BY <1>2, SetField
<1> QED
  BY <1>3

LEMMA InitiatedType ==
  ASSUME NEW s \in Globals, NEW x \in ServerStates
  PROVE  [s EXCEPT !.nextSegment = 0, !.stackErrors = 0, !.targetErrors = 0,
                   !.state = x] \in Globals
<1> DEFINE a == [s EXCEPT !.nextSegment = 0, !.stackErrors = 0, !.targetErrors = 0]
<1>1. a \in Globals
  BY ResetType
<1>2. [a EXCEPT !.state = x] \in Globals
  <2> HIDE DEF a
  <2> QED
    BY <1>1, SetField
<1> QED
  BY <1>2

LEMMA MovedType ==
  ASSUME NEW s \in Globals, NEW k \in Nat, NEW x \in ServerStates
  PROVE  [s EXCEPT !.nextSegment = k, !.state = x] \in Globals
<1> DEFINE a == [s EXCEPT !.nextSegment = k]
<1>1. a \in Globals
  BY SetField
<1>2. [a EXCEPT !.state = x] \in Globals
  <2> HIDE DEF a
  <2> QED
    BY <1>1, SetField
<1> QED
  BY <1>2

LEMMA AgreedType ==
  ASSUME NEW s \in Globals, NEW k \in Nat, NEW x \in ServerStates
  PROVE  [s EXCEPT !.nextSegment = k, !.targetErrors = 0, !.state = x] \in Globals
<1> DEFINE a == [s EXCEPT !.nextSegment = k]
<1> DEFINE b == [a EXCEPT !.targetErrors = 0]
<1>1. a \in Globals
  BY SetField
<1>2. b \in Globals
  <2> HIDE DEF a
  <2> QED
    BY <1>1, SetField
<1>3. [b EXCEPT !.state = x] \in Globals
  <2> HIDE DEF b
  <2> QED
    BY <1>2, SetField
<1> QED
  BY <1>3

LEMMA RespondedType ==
  ASSUME NEW s \in Globals
  PROVE  [s EXCEPT !.targetErrors = 0, !.active = FALSE] \in Globals
<1> DEFINE a == [s EXCEPT !.targetErrors = 0]
<1>1. a \in Globals
  BY SetField
<1>2. [a EXCEPT !.active = FALSE] \in Globals
  <2> HIDE DEF a
  <2> QED
    BY <1>1, SetField
<1> QED
  BY <1>2

LEMMA IdleType ==
  ASSUME NEW s \in Globals
  PROVE  [s EXCEPT !.active = FALSE, !.state = "IDLE"] \in Globals
<1> DEFINE a == [s EXCEPT !.active = FALSE]
<1>1. a \in Globals
  BY SetField
<1>2. [a EXCEPT !.state = "IDLE"] \in Globals
  <2> HIDE DEF a
  <2> QED
    BY <1>1, SetField, States
<1> QED
  BY <1>2

LEMMA WaitingType ==
  ASSUME NEW s \in Globals, NEW x \in ServerStates
  PROVE  [s EXCEPT !.stackErrors = 0, !.state = x] \in Globals
<1> DEFINE a == [s EXCEPT !.stackErrors = 0]
<1>1. a \in Globals
  BY SetField
<1>2. [a EXCEPT !.state = x] \in Globals
  <2> HIDE DEF a
  <2> QED
    BY <1>1, SetField
<1> QED
  BY <1>2

(* Counting an error keeps the globals well typed.                         *)
LEMMA CountedType ==
  ASSUME NEW s \in Globals, NEW status
  PROVE  /\ CountSendError(s, status) \in Globals
         /\ \A x \in ServerStates : [CountSendError(s, status) EXCEPT !.state = x] \in Globals
         /\ StackErrorCounted(s) \in Globals
         /\ TargetErrorCounted(s) \in Globals
<1>0. s.stackErrors + 1 \in Nat /\ s.targetErrors + 1 \in Nat
  BY SMT DEF Globals
<1>1. [s EXCEPT !.stackErrors = @ + 1] \in Globals /\ [s EXCEPT !.targetErrors = @ + 1] \in Globals
  BY <1>0, SetField
<1>2. [s EXCEPT !.targetErrors = @ + 1, !.stackErrors = 0] \in Globals
  <2> DEFINE a == [s EXCEPT !.targetErrors = @ + 1]
  <2>1. a \in Globals
    BY <1>1
  <2>2. [a EXCEPT !.stackErrors = 0] \in Globals
    <3> HIDE DEF a
    <3> QED
      BY <2>1, SetField
  <2> QED
    BY <2>2
<1>3. CountSendError(s, status) \in Globals
  BY <1>1, <1>2, SMT DEF CountSendError
<1>4. \A x \in ServerStates : [CountSendError(s, status) EXCEPT !.state = x] \in Globals
  BY <1>3, SetField
<1> QED
  BY <1>1, <1>3, <1>4, SMT DEF StackErrorCounted, TargetErrorCounted

-----------------------------------------------------------------------------
(* What a response says.                                                   *)
LEMMA AnswerForms ==
  ASSUME NEW m, NEW a \in Answers(m)
  PROVE  /\ a[1] \in Statuses
         /\ \/ m.command # "HANDSHAKE" /\ a[2] \in {0, m.segment}
            \/ a[1] # "ONGOING" /\ a[2] = 0
            \/ /\ m.command = "HANDSHAKE"
               /\ a[2] \in 0..(IF ConformingTarget THEN TotalSegments - 1 ELSE TotalSegments + 1)
         /\ m.command = "SEGMENT" => a[1] \in SegmentStatuses(m.segment) /\ a[2] = m.segment
<1>1. \A k : SegmentStatuses(k) \subseteq Statuses
  BY SMT DEF SegmentStatuses
<1> DEFINE starting == 0..(IF ConformingTarget THEN TotalSegments - 1 ELSE TotalSegments + 1)
<1>2. "ONGOING" \in Statuses
  BY DEF Statuses
<1>3. CASE m.command = "HANDSHAKE"
  <2>1. a \in {"ONGOING"} \X starting \cup (Statuses \ {"ONGOING"}) \X {0}
    BY <1>3, Zenon DEF Answers
  <2>2. m.command # "SEGMENT"
    BY <1>3
  <2> HIDE DEF starting
  <2>3. \/ a[1] = "ONGOING" /\ a[2] \in starting
        \/ a[1] \in Statuses \ {"ONGOING"} /\ a[2] = 0
    BY <2>1, SMT
  <2> QED
    BY <1>2, <1>3, <2>2, <2>3, Zenon DEF starting
<1>4. CASE m.command = "SEGMENT"
  <2>1. a \in SegmentStatuses(m.segment) \X {m.segment}
    BY <1>4, SMT DEF Answers
  <2>2. a[1] \in SegmentStatuses(m.segment) /\ a[2] = m.segment
    BY <2>1, SMT
  <2> QED
    BY <1>1, <1>4, <2>2
<1>5. CASE m.command # "HANDSHAKE" /\ m.command # "SEGMENT"
  <2>1. a \in Statuses \X {0}
    BY <1>5, SMT DEF Answers
  <2>2. a[1] \in Statuses /\ a[2] = 0
    BY <2>1, SMT
  <2> QED
    BY <1>5, <2>2
<1> QED
  BY <1>3, <1>4, <1>5

-----------------------------------------------------------------------------
(* The results of the functions.                                           *)
LEMMA BasicType ==
  ASSUME NEW s \in Globals
  PROVE  /\ Quietly(s) \in Results
         /\ AssertFails(s) \in Results
         /\ \A ms \in Nat : ScheduleNextEvent(s, ms) \in Results
         /\ \A status \in ProcessStatuses :
              /\ Finished(s, "image", status) \in Results
              /\ Finished(s, "bootload", status) \in Results
              /\ ImageDistributionProcessFinished(s, status) \in Results
              /\ BootloadRequestProcessFinished(s, status) \in Results
<1>1. Quietly(s) \in Results /\ AssertFails(s) \in Results
  BY SMT DEF Quietly, AssertFails, Results, ProcessKinds
<1>2. ASSUME NEW ms \in Nat PROVE ScheduleNextEvent(s, ms) \in Results
  <2>1. [s EXCEPT !.active = TRUE] \in Globals
    BY SetField
  <2> QED
    BY <2>1, SMT DEF ScheduleNextEvent, Results, ProcessKinds
<1>3. ASSUME NEW status \in ProcessStatuses
      PROVE  Finished(s, "image", status) \in Results /\ Finished(s, "bootload", status) \in Results
  <2>1. [s EXCEPT !.active = FALSE, !.state = "IDLE"] \in Globals
    BY IdleType
  <2> QED
    BY <2>1, SMT DEF Finished, Results, ProcessKinds
<1> QED
  BY <1>1, <1>2, <1>3 DEF ImageDistributionProcessFinished, BootloadRequestProcessFinished

(* Whatever the state, the next task of a distribution gives a result.     *)
LEMMA ScheduleImageType ==
  ASSUME NEW s \in Globals, NEW new \in BOOLEAN
  PROVE  ScheduleImageDistributionProcessNextTask(s, new) \in Results
<1> DEFINE a == [s EXCEPT !.nextSegment = 0, !.stackErrors = 0, !.targetErrors = 0]
<1> DEFINE b == [s EXCEPT !.nextSegment = IF new THEN @ + 1 ELSE @,
                          !.state = "SEGMENT_INTERVAL"]
<1> DEFINE c == [s EXCEPT !.state = "HANDSHAKE_INTERVAL"]
<1>1. a \in Globals
  BY ResetType
<1>2. b \in Globals
  <2>1. (IF new THEN s.nextSegment + 1 ELSE s.nextSegment) \in Nat
    BY SMT DEF Globals
  <2> QED
    BY <2>1, MovedType, States
<1>3. c \in Globals
  BY SetField, States
<1>4. \A t \in Globals : /\ Finished(t, "image", "STACK_ERROR") \in Results
                         /\ Finished(t, "image", "UNREACHABLE") \in Results
                         /\ ScheduleNextEvent(t, TxIntervalMs) \in Results
  BY BasicType, Constants, SMT DEF ProcessStatuses
<1>5. Quietly(a) \in Results /\ AssertFails(s) \in Results
  BY <1>1, BasicType
<1>6. ScheduleImageDistributionProcessNextTask(s, new) =
        CASE s.state \in {"HANDSHAKE_INTERVAL", "SEGMENT_INTERVAL"} ->
               IF StackExhausted(s) THEN Finished(s, "image", "STACK_ERROR")
               ELSE IF TargetUnreachable(s) THEN Finished(s, "image", "UNREACHABLE")
               ELSE ScheduleNextEvent(s, TxIntervalMs)
          [] s.state = "SEGMENT_WAITING" ->
               IF new /\ s.nextSegment >= TotalSegments THEN Quietly(a)
               ELSE IF TargetUnreachable(b) THEN Finished(b, "image", "UNREACHABLE")
               ELSE ScheduleNextEvent(b, TxIntervalMs)
          [] s.state = "HANDSHAKE_WAITING" ->
               IF TargetUnreachable(s) THEN Finished(s, "image", "UNREACHABLE")
               ELSE ScheduleNextEvent(c, TxIntervalMs)
          [] OTHER -> AssertFails(s)
  BY SMT DEF ScheduleImageDistributionProcessNextTask, ImageDistributionProcessFinished
<1> HIDE DEF a, b, c
<1> QED
  BY <1>1, <1>2, <1>3, <1>4, <1>5, <1>6, SMT

(* So does that of a bootload request, ...                                 *)
LEMMA ScheduleBootloadType ==
  ASSUME NEW s \in Globals, NEW response
  PROVE  ScheduleBootloadRequestProcessNextTask(s, response) \in Results
<1> DEFINE c == [s EXCEPT !.state = "BOOTLOAD_INTERVAL"]
<1>1. c \in Globals
  BY SetField, States
<1>2. ScheduleNextEvent(c, TxIntervalMs) \in Results
  BY <1>1, BasicType, Constants
<1>3. /\ AssertFails(s) \in Results
      /\ \A status \in ProcessStatuses : BootloadRequestProcessFinished(s, status) \in Results
  BY BasicType
<1> HIDE DEF c
<1>4. ScheduleBootloadRequestProcessNextTask(s, response) \in
        {AssertFails(s), ScheduleNextEvent(c, TxIntervalMs)}
          \cup {BootloadRequestProcessFinished(s, status) : status \in ProcessStatuses}
  BY SMT DEF ScheduleBootloadRequestProcessNextTask, ProcessStatuses, c
<1> QED
  BY <1>2, <1>3, <1>4, SMT

(* ... the callback of a sent message, ...                                 *)
LEMMA SentType ==
  ASSUME NEW s \in Globals, NEW m \in SentReport
  PROVE  MessageSent(s, m) \in Results
<1>1. ASSUME NEW x \in ServerStates PROVE AwaitResponse(s, x) \in Results
  <2>1. [s EXCEPT !.stackErrors = 0, !.state = x] \in Globals
    BY WaitingType
  <2> QED
    BY <2>1, BasicType, Constants DEF AwaitResponse
<1>2. /\ CountSendError(s, m.status) \in Globals
      /\ \A x \in ServerStates : [CountSendError(s, m.status) EXCEPT !.state = x] \in Globals
  BY CountedType
<1> DEFINE a == [CountSendError(s, m.status) EXCEPT !.state = "HANDSHAKE_INTERVAL"]
<1> DEFINE b == [CountSendError(s, m.status) EXCEPT !.state = "SEGMENT_INTERVAL"]
<1>3. a \in Globals /\ b \in Globals
  BY <1>2, States
<1> HIDE DEF a, b
<1>4. /\ ScheduleImageDistributionProcessNextTask(a, FALSE) \in Results
      /\ ScheduleImageDistributionProcessNextTask(b, FALSE) \in Results
      /\ ScheduleBootloadRequestProcessNextTask(CountSendError(s, m.status), "none") \in Results
  BY <1>2, <1>3, ScheduleImageType, ScheduleBootloadType
<1>5. Quietly(s) \in Results
  BY BasicType
<1>6. /\ AwaitResponse(s, "HANDSHAKE_WAITING") \in Results
      /\ AwaitResponse(s, "SEGMENT_WAITING") \in Results
      /\ AwaitResponse(s, "BOOTLOAD_WAITING") \in Results
  BY <1>1, States
<1>7. MessageSent(s, m) \in
        {AwaitResponse(s, "HANDSHAKE_WAITING"), AwaitResponse(s, "SEGMENT_WAITING"),
         AwaitResponse(s, "BOOTLOAD_WAITING"), Quietly(s),
         ScheduleImageDistributionProcessNextTask(a, FALSE),
         ScheduleImageDistributionProcessNextTask(b, FALSE),
         ScheduleBootloadRequestProcessNextTask(CountSendError(s, m.status), "none")}
  BY SMT DEF MessageSent, a, b
<1> QED
  BY <1>4, <1>5, <1>6, <1>7, Zenon

(* ... and a response of the target.                                       *)
LEMMA IncomingType ==
  ASSUME NEW s \in Globals, NEW m \in Response, NEW tag \in Nat
  PROVE  IncomingMessage(s, m, tag) \in Results
<1> DEFINE w == TakenAsSent(s, m)
<1>1. w \in Globals
  BY TakenType
<1> HIDE DEF w
<1>2. HandleSegmentResponse(w, m) \in Results
  <2> DEFINE g == [w EXCEPT !.targetErrors = 0, !.active = FALSE]
  <2>1. g \in Globals
    BY <1>1, RespondedType
  <2> HIDE DEF g
  <2>2. ScheduleImageDistributionProcessNextTask(g, TRUE) \in Results
    BY <2>1, ScheduleImageType
  <2>3. /\ Quietly(w) \in Results
        /\ ImageDistributionProcessFinished(w, "FAILED") \in Results
        /\ ImageDistributionProcessFinished(w, "REFUSED") \in Results
        /\ ImageDistributionProcessFinished(w, "SUCCESS") \in Results
    BY <1>1, BasicType DEF ProcessStatuses
  <2>4. HandleSegmentResponse(w, m) \in
          {Quietly(w), ScheduleImageDistributionProcessNextTask(g, TRUE),
           ImageDistributionProcessFinished(w, "FAILED"),
           ImageDistributionProcessFinished(w, "REFUSED"),
           ImageDistributionProcessFinished(w, "SUCCESS")}
    BY SMT DEF HandleSegmentResponse, g
  <2> QED
    BY <2>2, <2>3, <2>4, Zenon
<1>3. HandleHandshakeResponse(s, m) \in Results
  <2> DEFINE g == [s EXCEPT !.nextSegment = m.segment, !.targetErrors = 0,
                            !.state = "SEGMENT_INTERVAL"]
  <2>1. g \in Globals
    <3>1. m.segment \in Nat
      BY DEF Response
    <3> QED
      BY <3>1, AgreedType, States
  <2> HIDE DEF g
  <2>2. ScheduleImageDistributionProcessNextTask(g, TRUE) \in Results
    BY <2>1, ScheduleImageType
  <2>3. /\ ImageDistributionProcessFinished(s, "FAILED") \in Results
        /\ ImageDistributionProcessFinished(s, "REFUSED") \in Results
    BY BasicType DEF ProcessStatuses
  <2>4. HandleHandshakeResponse(s, m) \in
          {ScheduleImageDistributionProcessNextTask(g, TRUE),
           ImageDistributionProcessFinished(s, "FAILED"),
           ImageDistributionProcessFinished(s, "REFUSED")}
    BY SMT DEF HandleHandshakeResponse, g
  <2> QED
    BY <2>2, <2>3, <2>4, Zenon
<1>4. ScheduleBootloadRequestProcessNextTask(s, m.status) \in Results /\ Quietly(s) \in Results
  BY ScheduleBootloadType, BasicType
<1> QED
  BY <1>2, <1>3, <1>4, SMT DEF IncomingMessage, w

-----------------------------------------------------------------------------
(* Types.                                                                  *)
LEMMA ArmedType ==
  ASSUME NEW f \in [EventThreads -> {"off", "armed", "expired"}], NEW t,
         NEW x \in {"off", "armed", "expired"}
  PROVE  [f EXCEPT ![t] = x] \in [EventThreads -> {"off", "armed", "expired"}]
BY Zenon

(* Applying a result keeps the types of what it touches.                   *)
LEMMA ApplyType ==
  ASSUME TypeInv, NEW r \in Results, Apply(r)
  PROVE  /\ server' \in Globals
         /\ timers' \in [EventThreads -> {"off", "armed", "expired"}]
         /\ completions' \in Seq(Completion)
<1>1. server' \in Globals
  <2>1. r.globals \in Globals /\ (r.outcome = "asserted") \in BOOLEAN
    BY Zenon DEF Results
  <2>2. [r.globals EXCEPT !.asserted = r.outcome = "asserted"] \in Globals
    BY <2>1, SetField, Zenon
  <2> QED
    BY <2>2, Zenon DEF Apply
<1>2. timers' \in [EventThreads -> {"off", "armed", "expired"}]
  <2>1. timers' = IF r.outcome = "armed"
                  THEN [timers EXCEPT ![server.timerFd] = "armed"] ELSE timers
    BY Zenon DEF Apply
  <2>2. \A t : [timers EXCEPT ![t] = "armed"] \in [EventThreads -> {"off", "armed", "expired"}]
    BY ArmedType DEF TypeInv, TypeOK
  <2> QED
    BY <2>1, <2>2, Zenon DEF TypeInv, TypeOK
<1>3. completions' \in Seq(Completion)
  <2>1. r.outcome \in ProcessKinds =>
          [kind |-> r.outcome, status |-> r.status] \in Completion
    <3>1. /\ r.outcome \in ProcessKinds => r.status \in ProcessStatuses
      BY Zenon DEF Results
    <3> QED
      BY <3>1, Zenon DEF Completion
  <2>2. completions' = IF r.outcome \in ProcessKinds
                       THEN Append(completions, [kind |-> r.outcome, status |-> r.status])
                       ELSE completions
    BY Zenon DEF Apply
  <2> QED
    BY <2>1, <2>2, SMT DEF TypeInv
<1> QED
  BY <1>1, <1>2, <1>3

(* The length of a sequence.                                               *)
LEMMA LenNat ==
  ASSUME NEW S, NEW q \in Seq(S)
  PROVE  Len(q) \in Nat
BY SMT

(* Types hold at first.                                                    *)
LEMMA TypeInit == Init => TypeInv
<1> SUFFICES ASSUME Init PROVE TypeInv
  OBVIOUS
<1>1. 0 \in 0..MaxStarts /\ 0 \in 0..MaxAborts /\ FALSE \in BOOLEAN
  BY Constants, SMT
<1>2. server \in Globals
  BY <1>1, States, SMT DEF Init, Globals
<1>3. pc \in [EventThreads -> Labels] /\ timers \in [EventThreads -> {"off", "armed", "expired"}]
  BY SMT DEF Init, Labels
<1>4. /\ outbox \in Seq(Outgoing) /\ targetBox \in Seq(Outgoing)
      /\ mail \in Seq(SentReport \cup Response)
      /\ completions \in Seq(Completion) /\ Len(completions) \in Nat
  BY SMT DEF Init
<1> QED
  BY <1>1, <1>2, <1>3, <1>4, Zenon DEF Init, TypeInv, TypeOK

(* Every step keeps them: one step of the proof per action.                *)
LEMMA TypeStep == TypeInv /\ [Next]_vars => TypeInv'
<1> SUFFICES ASSUME TypeInv, [Next]_vars PROVE TypeInv'
  OBVIOUS
<1>s. server \in Globals /\ starts \in Nat
  BY Constants, SMT DEF TypeInv, TypeOK
<1>p. \A n \in EventThreads, label \in Labels : [pc EXCEPT ![n] = label] \in [EventThreads -> Labels]
  BY SMT DEF TypeInv, TypeOK
<1>1. ASSUME NEW kind \in ProcessKinds, Initiate(kind) PROVE TypeInv'
  <2>1. server' \in Globals
    BY <1>1, <1>s, InitiatedType, States DEF Initiate
  <2>2. /\ starts < MaxStarts /\ starts' = starts + 1
        /\ pc' = [pc EXCEPT ![starts + 1] = "create"]
        /\ received' = {} /\ asked' = {}
        /\ UNCHANGED <<timers, outbox, targetBox, mail, completions, aborts>>
    BY <1>1, Zenon DEF Initiate, Goto
  <2>3. pc' \in [EventThreads -> Labels]
    <3>1. starts + 1 \in EventThreads /\ "create" \in Labels
      BY <2>2, <1>s, Constants, SMT DEF EventThreads, Labels
    <3> QED
      BY <1>p, <2>2, <3>1, Zenon
  <2>4. starts' \in 0..MaxStarts
    BY <2>2, <1>s, Constants, SMT
  <2>5. received' \subseteq Nat /\ asked' \subseteq Nat
    BY <2>2, Zenon
  <2> QED
    BY <2>1, <2>2, <2>3, <2>4, <2>5, Zenon DEF TypeInv, TypeOK
<1>2. CASE AbortCurrentProcess
  <2>1. /\ ImageDistributionProcessFinished(server, "ABORTED") \in Results
        /\ BootloadRequestProcessFinished(server, "ABORTED") \in Results
    BY <1>s, BasicType DEF ProcessStatuses
  <2>2. /\ server' \in Globals
        /\ timers' \in [EventThreads -> {"off", "armed", "expired"}]
        /\ completions' \in Seq(Completion)
    BY <1>2, <2>1, ApplyType, Zenon DEF AbortCurrentProcess, TypeInv, TypeOK
  <2>3. aborts' \in 0..MaxAborts
    BY <1>2, Constants, SMT DEF AbortCurrentProcess, TypeInv, TypeOK
  <2> QED
    BY <1>2, <2>2, <2>3, LenNat, SMT DEF AbortCurrentProcess, TypeInv, TypeOK, world
<1>3. CASE MessageSentCallback
  <2>1. Head(mail) \in SentReport /\ mail' \in Seq(SentReport \cup Response)
    BY <1>3, SMT DEF MessageSentCallback, TypeInv, SentReport, Response
  <2>2. MessageSent(server, Head(mail)) \in Results
    BY <1>s, <2>1, SentType
  <2>3. /\ server' \in Globals
        /\ timers' \in [EventThreads -> {"off", "armed", "expired"}]
        /\ completions' \in Seq(Completion)
    BY <1>3, <2>2, ApplyType, Zenon DEF MessageSentCallback
  <2> QED
    BY <1>3, <2>1, <2>3, LenNat, SMT DEF MessageSentCallback, TypeInv, TypeOK
<1>4. CASE IncomingMessageCallback
  <2>1. Head(mail) \in Response /\ mail' \in Seq(SentReport \cup Response)
    BY <1>4, SMT DEF IncomingMessageCallback, TypeInv, SentReport, Response
  <2>2. IncomingMessage(server, Head(mail), starts) \in Results
    BY <1>s, <2>1, IncomingType
  <2>3. /\ server' \in Globals
        /\ timers' \in [EventThreads -> {"off", "armed", "expired"}]
        /\ completions' \in Seq(Completion)
    BY <1>4, <2>2, ApplyType, Zenon DEF IncomingMessageCallback
  <2> QED
    BY <1>4, <2>1, <2>3, LenNat, SMT DEF IncomingMessageCallback, TypeInv, TypeOK
<1>5. ASSUME NEW n \in EventThreads, EventThreadStep(n) PROVE TypeInv'
  <2>0. n \in 0..MaxStarts /\ Len(completions) \in Nat
    BY Constants, LenNat, SMT DEF EventThreads, TypeInv
  <2>1. CASE CreateTimer(n)
    <3>1. server' \in Globals
      <4> DEFINE a == [server EXCEPT !.timerFd = n]
      <4>1. a \in Globals
        BY <1>s, <2>0, SetField
      <4>2. [a EXCEPT !.active = TRUE] \in Globals
        <5> HIDE DEF a
        <5> QED
          BY <4>1, SetField
      <4> QED
        BY <2>1, <4>2 DEF CreateTimer
    <3>2. pc' \in [EventThreads -> Labels]
      BY <2>1, <1>p, SMT DEF CreateTimer, Goto, Labels
    <3>3. timers' \in [EventThreads -> {"off", "armed", "expired"}]
      BY <2>1, SMT DEF CreateTimer, TypeInv, TypeOK
    <3> QED
      BY <2>0, <2>1, <3>1, <3>2, <3>3, Zenon DEF CreateTimer, TypeInv, TypeOK, world
  <2>2. CASE CheckIdle(n)
    <3>1. pc' \in [EventThreads -> Labels]
      BY <2>2, <1>p, SMT DEF CheckIdle, Goto, Labels
    <3> QED
      BY <2>0, <2>2, <3>1, SMT DEF CheckIdle, TypeInv, TypeOK, world
  <2>3. CASE PollTimer(n)
    <3>1. pc' \in [EventThreads -> Labels]
      BY <2>3, <1>p, SMT DEF PollTimer, Goto, Labels
    <3> QED
      BY <2>0, <2>3, <3>1, SMT DEF PollTimer, TypeInv, TypeOK, world
  <2>4. CASE ReadTimer(n)
    <3>1. pc' \in [EventThreads -> Labels]
      BY <2>4, <1>p, SMT DEF ReadTimer, Goto, Labels
    <3>2. timers' \in [EventThreads -> {"off", "armed", "expired"}]
      <4>1. [timers EXCEPT ![server.timerFd] = "off"]
              \in [EventThreads -> {"off", "armed", "expired"}]
        BY ArmedType DEF TypeInv, TypeOK
      <4> QED
        BY <2>4, <4>1, Zenon DEF ReadTimer
    <3> QED
      BY <2>0, <2>4, <3>1, <3>2, Zenon DEF ReadTimer, TypeInv, TypeOK, world
  <2>5. CASE EventHandler(n)
    <3>1. HandlerFor(server.state) \in Labels
      BY SMT DEF HandlerFor, Labels
    <3>2. pc' \in [EventThreads -> Labels]
      BY <2>5, <1>p, <3>1, SMT DEF EventHandler, Goto, Labels
    <3>3. [server EXCEPT !.active = FALSE] \in Globals
      BY <1>s, SetField
    <3>4. server' \in Globals
      BY <1>s, <2>5, <3>3, Zenon DEF EventHandler
    <3> QED
      BY <2>0, <2>5, <3>2, <3>4, SMT DEF EventHandler, TypeInv, TypeOK, world
  <2>6. ASSUME NEW command \in Commands, NEW segment \in Nat,
               NEW accepted \in Labels, NEW refused \in Labels,
               Send(n, command, segment, accepted, refused)
        PROVE  TypeInv'
    <3>1. outbox' \in Seq(Outgoing)
      <4>1. [command |-> command, segment |-> segment, tag |-> starts, got |-> FALSE]
              \in Outgoing
        BY <1>s, SMT DEF Outgoing
      <4>2. outbox \in Seq(Outgoing)
        BY DEF TypeInv
      <4>3. \A m \in Outgoing : Append(outbox, m) \in Seq(Outgoing)
        BY <4>2, SMT
      <4>4. Append(outbox, [command |-> command, segment |-> segment, tag |-> starts,
                            got |-> FALSE]) \in Seq(Outgoing)
        BY <4>1, <4>3, Zenon
      <4> QED
        BY <2>6, <4>2, <4>4, Zenon DEF Send
    <3>2. pc' \in [EventThreads -> Labels]
      BY <2>6, <1>p, SMT DEF Send, Goto
    <3> QED
      BY <2>0, <2>6, <3>1, <3>2, Zenon DEF Send, TypeInv, TypeOK
  <2>7. CASE UnicastHandshake(n) \/ UnicastNextSegment(n) \/ RequestTargetForBootload(n)
    <3>1. server.nextSegment \in Nat
      BY <1>s, SMT DEF Globals
    <3> QED
      BY <2>6, <2>7, <3>1, SMT DEF UnicastHandshake, UnicastNextSegment, RequestTargetForBootload,
                              Commands, Labels
  <2>8. CASE DataUnderflow(n)
    <3>1. ImageDistributionProcessFinished(server, "DATA_UNDERFLOW") \in Results
      BY <1>s, BasicType DEF ProcessStatuses
    <3>2. /\ server' \in Globals
          /\ timers' \in [EventThreads -> {"off", "armed", "expired"}]
          /\ completions' \in Seq(Completion)
      BY <2>8, <3>1, ApplyType, Zenon DEF DataUnderflow
    <3>3. pc' \in [EventThreads -> Labels]
      BY <2>8, <1>p, SMT DEF DataUnderflow, Goto, Labels
    <3> QED
      BY <2>8, <3>2, <3>3, LenNat, SMT DEF DataUnderflow, TypeInv, TypeOK, world
  <2>9. CASE SetPending(n)
    <3>1. pc' \in [EventThreads -> Labels]
      BY <2>9, <1>p, SMT DEF SetPending, Goto, Labels
    <3>2. server.nextSegment \in Nat
      BY <1>s, SMT DEF Globals
    <3>3. server' \in Globals
      <4>1. /\ [server EXCEPT !.state = "HANDSHAKE_PENDING"] \in Globals
            /\ SegmentPending(server) \in Globals
            /\ [server EXCEPT !.state = "BOOTLOAD_PENDING"] \in Globals
            /\ [server EXCEPT !.sentSegment = server.nextSegment] \in Globals
        BY <1>s, <3>2, SetField, PendingType, States
      <4> QED
        BY <2>9, <4>1, Zenon DEF SetPending
    <3> QED
      BY <2>0, <2>9, <3>1, <3>3, SMT DEF SetPending, TypeInv, TypeOK, world
  <2>10. CASE CountAndSchedule(n)
    <3> DEFINE a == StackErrorCounted(server)
    <3> DEFINE b == TargetErrorCounted(server)
    <3>1. a \in Globals /\ b \in Globals
      BY <1>s, CountedType
    <3> HIDE DEF a, b
    <3>2. /\ ScheduleImageDistributionProcessNextTask(a, FALSE) \in Results
          /\ ScheduleImageDistributionProcessNextTask(b, FALSE) \in Results
          /\ ScheduleBootloadRequestProcessNextTask(a, "none") \in Results
          /\ ScheduleBootloadRequestProcessNextTask(b, "none") \in Results
      BY <3>1, ScheduleImageType, ScheduleBootloadType
    <3>3. /\ server' \in Globals
          /\ timers' \in [EventThreads -> {"off", "armed", "expired"}]
          /\ completions' \in Seq(Completion)
      BY <2>10, <3>2, ApplyType, Zenon DEF CountAndSchedule, a, b
    <3>4. pc' \in [EventThreads -> Labels]
      BY <2>10, <1>p, SMT DEF CountAndSchedule, Goto, Labels
    <3> QED
      BY <2>10, <3>3, <3>4, LenNat, SMT DEF CountAndSchedule, TypeInv, TypeOK, world
  <2> QED
    BY <1>5, <2>1, <2>2, <2>3, <2>4, <2>5, <2>7, <2>8, <2>9, <2>10 DEF EventThreadStep
<1>6. ASSUME NEW n \in EventThreads, TimerExpires(n) PROVE TypeInv'
  BY <1>6, LenNat, SMT DEF TimerExpires, TypeInv, TypeOK, world
<1>7. CASE TargetReceives
  <2>1. outbox \in Seq(Outgoing) /\ outbox # <<>> /\ targetBox \in Seq(Outgoing)
    BY <1>7 DEF TargetReceives, TypeInv
  <2>2. Head(outbox) \in Outgoing
    BY <2>1, SMT
  <2>3. [outbox EXCEPT ![1].got = TRUE] \in Seq(Outgoing)
    <3>1. outbox[1] \in Outgoing
      BY <2>1, SMT
    <3>2. [outbox[1] EXCEPT !.got = TRUE] \in Outgoing
      BY <3>1, Zenon DEF Outgoing
    <3>3. \A m \in Outgoing : [outbox EXCEPT ![1] = m] \in Seq(Outgoing)
      BY <2>1, SMT
    <3> QED
      BY <3>2, <3>3, Zenon
  <2>4. Head(outbox).segment \in Nat
    BY <2>2, SMT DEF Outgoing
  <2>5. received' \subseteq Nat
    BY <1>7, <2>4, SMT DEF TargetReceives, TypeInv
  <2>6. targetBox' \in Seq(Outgoing)
    BY <1>7, <2>1, <2>2, SMT DEF TargetReceives
  <2> QED
    BY <1>7, <2>3, <2>5, <2>6, LenNat, SMT DEF TargetReceives, TypeInv, TypeOK
<1>8. CASE Report
  <2>1. PICK status \in {"SUCCESS", "NO_ACK", "FAILED"} : ReportSent(status)
    BY <1>8 DEF Report
  <2>2. /\ outbox' \in Seq(Outgoing)
        /\ Head(outbox).command \in Commands
    <3>1. outbox \in Seq(Outgoing) /\ outbox # <<>> /\ outbox' = Tail(outbox)
      BY <2>1, Zenon DEF ReportSent, TypeInv
    <3>2. Head(outbox) \in Outgoing
      BY <3>1, SMT
    <3> QED
      BY <3>1, <3>2, SMT DEF Outgoing
  <2>3. mail' \in Seq(SentReport \cup Response)
    BY <2>1, <2>2, SMT DEF ReportSent, TypeInv, SentReport
  <2> QED
    BY <2>1, <2>2, <2>3, LenNat, SMT DEF ReportSent, TypeInv, TypeOK
<1>9. CASE TargetAnswers
  <2>1. Head(targetBox) \in Outgoing /\ targetBox' \in Seq(Outgoing)
    BY <1>9, SMT DEF TargetAnswers, TypeInv
  <2>2. \A a \in Answers(Head(targetBox)) : a[1] \in Statuses /\ a[2] \in Nat
    <3>1. Head(targetBox).segment \in Nat
      BY <2>1 DEF Outgoing
    <3> QED
      BY <3>1, AnswerForms, Constants, SMT
  <2>3. mail' \in Seq(SentReport \cup Response) /\ asked' \subseteq Nat
    <3>1. \/ UNCHANGED <<mail, asked>>
          \/ \E a \in Answers(Head(targetBox)) :
               /\ mail' = Append(mail, [type |-> "response", command |-> Head(targetBox).command,
                                        status |-> a[1], segment |-> a[2],
                                        tag |-> Head(targetBox).tag])
               /\ asked' = asked \/ asked' = asked \cup {a[2]}
      BY <1>9, Zenon DEF TargetAnswers
    <3>2. CASE UNCHANGED <<mail, asked>>
      BY <3>2 DEF TypeInv
    <3>3. ASSUME NEW a \in Answers(Head(targetBox)),
                 mail' = Append(mail, [type |-> "response", command |-> Head(targetBox).command,
                                       status |-> a[1], segment |-> a[2],
                                       tag |-> Head(targetBox).tag]),
                 asked' = asked \/ asked' = asked \cup {a[2]}
          PROVE  mail' \in Seq(SentReport \cup Response) /\ asked' \subseteq Nat
      <4>1. Head(targetBox).command \in Commands /\ Head(targetBox).tag \in Nat
        BY <2>1, SMT DEF Outgoing
      <4>2. [type |-> "response", command |-> Head(targetBox).command,
             status |-> a[1], segment |-> a[2], tag |-> Head(targetBox).tag] \in Response
        BY <2>2, <4>1, SMT DEF Response
      <4>3. mail \in Seq(SentReport \cup Response) /\ asked \subseteq Nat
        BY DEF TypeInv
      <4>4. \A m \in Response : Append(mail, m) \in Seq(SentReport \cup Response)
        BY <4>3, SMT
      <4>5. asked \cup {a[2]} \subseteq Nat
        BY <2>2, <3>3, <4>3, Zenon
      <4> QED
        BY <3>3, <4>2, <4>3, <4>4, <4>5, Zenon
    <3> QED
      BY <3>1, <3>2, <3>3
  <2> QED
    BY <1>9, <2>1, <2>3, LenNat, SMT DEF TargetAnswers, TypeInv, TypeOK
<1>10. CASE UNCHANGED vars
  BY <1>10, Zenon DEF vars, world, TypeInv, TypeOK
<1> QED
  BY <1>1, <1>2, <1>3, <1>4, <1>5, <1>6, <1>7, <1>8, <1>9, <1>10
     DEF Next, Callbacks, Resting

(* In every state that can be reached, with every timing and every target, *)
(* the globals of the server hold values of their types: the error counters *)
(* and segment numbers that the callbacks and the event threads update     *)
(* (ota-unicast-bootloader-server.c:52-80, 182-713).                       *)
THEOREM TypeCorrect == Spec => []TypeOK
<1>1. TypeInv => TypeOK
  BY DEF TypeInv
<1> QED
  BY <1>1, TypeInit, TypeStep, PTL DEF Spec

-----------------------------------------------------------------------------

(* A result that ends the process or keeps it within its limits.           *)
Settles(r) ==
  /\ ErrorsInv(r.globals)
  /\ r.outcome # "asserted"
  /\ r.outcome \in ProcessKinds <=> r.globals.state = "IDLE"

(* A completed process settles.                                            *)
LEMMA FinishedSettles ==
  ASSUME NEW s \in Globals, Bounded(s), NEW kind \in ProcessKinds, NEW status
  PROVE  Settles(Finished(s, kind, status))
<1> DEFINE g == [s EXCEPT !.active = FALSE, !.state = "IDLE"]
<1>1. /\ g.stackErrors = s.stackErrors /\ g.targetErrors = s.targetErrors
      /\ g.state = "IDLE"
  BY SMT DEF Globals
<1>2. g.active = FALSE
  BY Zenon DEF Globals
<1>3. /\ Finished(s, kind, status).globals = g
      /\ Finished(s, kind, status).outcome = kind
  BY SMT DEF Finished
<1>4. ErrorsInv(g)
  BY <1>1, <1>2, Zenon DEF ErrorsInv, Bounded
<1> HIDE DEF g
<1> QED
  BY <1>1, <1>3, <1>4, Zenon DEF Settles, ProcessKinds

(* Setting the timer settles while the counters are below their limits.    *)
LEMMA ScheduleSettles ==
  ASSUME NEW s \in Globals, NEW ms \in Nat, s.state # "IDLE",
         s.stackErrors < MaxStackErrors, s.targetErrors < MaxUnicastErrors
  PROVE  Settles(ScheduleNextEvent(s, ms))
<1> DEFINE g == [s EXCEPT !.active = TRUE]
<1>1. /\ g.stackErrors = s.stackErrors /\ g.targetErrors = s.targetErrors
      /\ g.state = s.state
  BY SMT DEF Globals
<1>2. /\ ScheduleNextEvent(s, ms).globals = g
      /\ ScheduleNextEvent(s, ms).outcome \in {"armed", "none"}
  BY SMT DEF ScheduleNextEvent
<1> HIDE DEF g
<1>3. s.stackErrors \in Nat /\ s.targetErrors \in Nat
  BY SMT DEF Globals
<1>4. ErrorsInv(g)
  BY <1>1, <1>3, Constants, SMT DEF ErrorsInv, Bounded
<1> QED
  BY <1>1, <1>2, <1>4, SMT DEF Settles, ProcessKinds

(* What initiating a process resets.                                       *)
LEMMA ResetFields ==
  ASSUME NEW s \in Globals
  PROVE  LET a == [s EXCEPT !.nextSegment = 0, !.stackErrors = 0, !.targetErrors = 0]
         IN  a.stackErrors = 0 /\ a.targetErrors = 0 /\ a.state = s.state
<1> DEFINE a == [s EXCEPT !.nextSegment = 0]
<1> DEFINE b == [a EXCEPT !.stackErrors = 0]
<1> DEFINE c == [b EXCEPT !.targetErrors = 0]
<1>1. a \in Globals /\ a.state = s.state
  BY SetField, SMT DEF Globals
<1>2. b \in Globals /\ b.state = s.state /\ b.stackErrors = 0
  <2> HIDE DEF a
  <2> QED
    BY <1>1, SetField, SMT DEF Globals
<1>3. c.state = s.state /\ c.stackErrors = 0 /\ c.targetErrors = 0
  <2> HIDE DEF a, b
  <2> QED
    BY <1>2, SMT DEF Globals
<1> QED
  BY <1>3

(* The next task of a distribution settles: a counter at its limit ends the *)
(* process there.                                                          *)
LEMMA ScheduleImageSettles ==
  ASSUME NEW s \in Globals, NEW new \in BOOLEAN, Bounded(s),
         \/ s.state \in {"HANDSHAKE_INTERVAL", "SEGMENT_INTERVAL"}
         \/ /\ s.state \in {"HANDSHAKE_WAITING", "SEGMENT_WAITING"}
            /\ s.stackErrors < MaxStackErrors
  PROVE  Settles(ScheduleImageDistributionProcessNextTask(s, new))
<1> DEFINE a == [s EXCEPT !.nextSegment = 0, !.stackErrors = 0, !.targetErrors = 0]
<1> DEFINE b == [s EXCEPT !.nextSegment = IF new THEN @ + 1 ELSE @,
                          !.state = "SEGMENT_INTERVAL"]
<1> DEFINE c == [s EXCEPT !.state = "HANDSHAKE_INTERVAL"]
<1>0. s.stackErrors \in Nat /\ s.targetErrors \in Nat
  BY SMT DEF Globals
<1>1. /\ a.stackErrors = 0 /\ a.targetErrors = 0 /\ a.state = s.state
      /\ a \in Globals
  BY ResetType, ResetFields
<1>2. /\ b.stackErrors = s.stackErrors /\ b.targetErrors = s.targetErrors
      /\ b.state = "SEGMENT_INTERVAL"
      /\ b \in Globals
  <2>1. (IF new THEN s.nextSegment + 1 ELSE s.nextSegment) \in Nat
    BY SMT DEF Globals
  <2>2. b \in Globals
    BY <2>1, MovedType, States
  <2> QED
    BY <2>2, SMT DEF Globals
<1>3. /\ c.stackErrors = s.stackErrors /\ c.targetErrors = s.targetErrors
      /\ c.state = "HANDSHAKE_INTERVAL"
      /\ c \in Globals
  BY SetField, States, SMT DEF Globals
<1>4. Settles(Finished(s, "image", "STACK_ERROR")) /\ Settles(Finished(s, "image", "UNREACHABLE"))
  BY FinishedSettles DEF ProcessKinds
<1> HIDE DEF a, b, c
<1>5. Settles(Finished(b, "image", "UNREACHABLE"))
  BY <1>2, FinishedSettles DEF ProcessKinds, Bounded
<1>6. s.state = "SEGMENT_WAITING" => Settles(Quietly(a))
  <2>1. Quietly(a).globals = a /\ Quietly(a).outcome = "none"
    BY SMT DEF Quietly
  <2>2. s.state = "SEGMENT_WAITING" => ErrorsInv(a)
    BY <1>1, Constants, SMT DEF ErrorsInv, Bounded
  <2> QED
    BY <1>1, <2>1, <2>2, SMT DEF Settles, ProcessKinds
<1>7. CASE s.state \in {"HANDSHAKE_INTERVAL", "SEGMENT_INTERVAL"}
  <2>1. ScheduleImageDistributionProcessNextTask(s, new) =
          IF StackExhausted(s) THEN Finished(s, "image", "STACK_ERROR")
          ELSE IF TargetUnreachable(s) THEN Finished(s, "image", "UNREACHABLE")
          ELSE ScheduleNextEvent(s, TxIntervalMs)
    BY <1>7, SMT DEF ScheduleImageDistributionProcessNextTask, ImageDistributionProcessFinished
  <2>2. ~StackExhausted(s) /\ ~TargetUnreachable(s) => Settles(ScheduleNextEvent(s, TxIntervalMs))
    <3>1. /\ ~StackExhausted(s) => s.stackErrors < MaxStackErrors
          /\ ~TargetUnreachable(s) => s.targetErrors < MaxUnicastErrors
          /\ s.state # "IDLE"
      BY <1>0, <1>7, Constants, SMT DEF StackExhausted, TargetUnreachable
    <3> QED
      BY <3>1, ScheduleSettles, Constants
  <2> QED
    BY <1>4, <2>1, <2>2, Zenon
<1>8. CASE s.state = "SEGMENT_WAITING"
  <2>1. ScheduleImageDistributionProcessNextTask(s, new) \in
          {Quietly(a), Finished(b, "image", "UNREACHABLE")}
        \/ /\ ScheduleImageDistributionProcessNextTask(s, new) = ScheduleNextEvent(b, TxIntervalMs)
           /\ ~TargetUnreachable(b)
    BY <1>8, SMT DEF ScheduleImageDistributionProcessNextTask,
                     ImageDistributionProcessFinished, a, b
  <2>2. ~TargetUnreachable(b) => Settles(ScheduleNextEvent(b, TxIntervalMs))
    <3>1. /\ ~TargetUnreachable(b) => b.targetErrors < MaxUnicastErrors
          /\ b.state # "IDLE" /\ b.stackErrors < MaxStackErrors
      BY <1>0, <1>2, <1>8, Constants, SMT DEF TargetUnreachable
    <3> QED
      BY <1>2, <3>1, ScheduleSettles, Constants
  <2> QED
    BY <1>5, <1>6, <1>8, <2>1, <2>2, Zenon
<1>9. CASE s.state = "HANDSHAKE_WAITING"
  <2>1. \/ ScheduleImageDistributionProcessNextTask(s, new) = Finished(s, "image", "UNREACHABLE")
        \/ /\ ScheduleImageDistributionProcessNextTask(s, new) = ScheduleNextEvent(c, TxIntervalMs)
           /\ ~TargetUnreachable(s)
    BY <1>9, SMT DEF ScheduleImageDistributionProcessNextTask,
                     ImageDistributionProcessFinished, c
  <2>2. ~TargetUnreachable(s) => Settles(ScheduleNextEvent(c, TxIntervalMs))
    <3>1. /\ ~TargetUnreachable(s) => c.targetErrors < MaxUnicastErrors
          /\ c.state # "IDLE" /\ c.stackErrors < MaxStackErrors
      BY <1>0, <1>3, <1>9, Constants, SMT DEF TargetUnreachable
    <3> QED
      BY <1>3, <3>1, ScheduleSettles, Constants
  <2> QED
    BY <1>4, <2>1, <2>2, Zenon
<1> QED
  BY <1>7, <1>8, <1>9, SMT

(* So does the next task of a bootload request.                            *)
LEMMA ScheduleBootloadSettles ==
  ASSUME NEW s \in Globals, NEW response, Bounded(s), s.state \in BootloadRequestStates
  PROVE  Settles(ScheduleBootloadRequestProcessNextTask(s, response))
<1> DEFINE c == [s EXCEPT !.state = "BOOTLOAD_INTERVAL"]
<1>0. s.stackErrors \in Nat /\ s.targetErrors \in Nat
  BY SMT DEF Globals
<1>1. /\ c.stackErrors = s.stackErrors /\ c.targetErrors = s.targetErrors
      /\ c.state = "BOOTLOAD_INTERVAL" /\ c \in Globals
  BY SetField, States, SMT DEF Globals
<1> HIDE DEF c
<1>2. \A status : Settles(Finished(s, "bootload", status))
  BY FinishedSettles DEF ProcessKinds
<1>3. \/ \E status : ScheduleBootloadRequestProcessNextTask(s, response)
                       = Finished(s, "bootload", status)
      \/ /\ ScheduleBootloadRequestProcessNextTask(s, response)
              = ScheduleNextEvent(c, TxIntervalMs)
         /\ ~StackExhausted(s) /\ ~TargetUnreachable(s)
  BY SMT DEF ScheduleBootloadRequestProcessNextTask, BootloadRequestProcessFinished,
             BootloadRequestStates, c
<1>4. ~StackExhausted(s) /\ ~TargetUnreachable(s) => Settles(ScheduleNextEvent(c, TxIntervalMs))
  <2>1. /\ ~TargetUnreachable(s) => c.targetErrors < MaxUnicastErrors
        /\ ~StackExhausted(s) => c.stackErrors < MaxStackErrors
        /\ c.state # "IDLE"
    BY <1>0, <1>1, Constants, SMT DEF TargetUnreachable, StackExhausted
  <2> QED
    BY <1>1, <2>1, ScheduleSettles, Constants
<1> QED
  BY <1>2, <1>3, <1>4, Zenon

(* What counting an error changes.                                         *)
LEMMA CountedFields ==
  ASSUME NEW s \in Globals, ErrorsInv(s), s.state # "IDLE", NEW status
  PROVE  /\ LET c == CountSendError(s, status)
            IN  c \in Globals /\ c.state = s.state /\ Bounded(c)
         /\ LET a == StackErrorCounted(s)
            IN  a \in Globals /\ a.state = s.state /\ Bounded(a)
                /\ a.targetErrors = s.targetErrors
         /\ LET b == TargetErrorCounted(s)
            IN  b \in Globals /\ b.state = s.state /\ Bounded(b)
                /\ b.stackErrors = s.stackErrors
<1> DEFINE a == [s EXCEPT !.stackErrors = @ + 1]
<1> DEFINE b == [s EXCEPT !.targetErrors = @ + 1]
<1> DEFINE c == [b EXCEPT !.stackErrors = 0]
<1>0. /\ s.stackErrors \in Nat /\ s.targetErrors \in Nat
      /\ s.stackErrors < MaxStackErrors /\ s.targetErrors < MaxUnicastErrors
  BY SMT DEF Globals, ErrorsInv
<1>1. /\ a \in Globals /\ b \in Globals /\ CountSendError(s, status) \in Globals
      /\ StackErrorCounted(s) = a /\ TargetErrorCounted(s) = b
  BY CountedType, Zenon DEF StackErrorCounted, TargetErrorCounted
<1>2. a.state = s.state /\ a.stackErrors = s.stackErrors + 1 /\ a.targetErrors = s.targetErrors
  BY SMT DEF Globals
<1>3. b.state = s.state /\ b.targetErrors = s.targetErrors + 1 /\ b.stackErrors = s.stackErrors
  BY SMT DEF Globals
<1>4. c.state = b.state /\ c.targetErrors = b.targetErrors /\ c.stackErrors = 0
  <2> HIDE DEF b
  <2> QED
    BY <1>1, SMT DEF Globals
<1>5. CountSendError(s, status) = c \/ CountSendError(s, status) = a
  BY Zenon DEF CountSendError
<1> HIDE DEF a, b, c
<1>6. Bounded(a) /\ Bounded(b) /\ Bounded(c)
  BY <1>0, <1>2, <1>3, <1>4, Constants, SMT DEF Bounded
<1> QED
  BY <1>1, <1>2, <1>3, <1>4, <1>5, <1>6, Zenon

(* The callback of a sent message settles ...                              *)
LEMMA SentSettles ==
  ASSUME NEW s \in Globals, ErrorsInv(s), NEW m \in SentReport
  PROVE  \/ MessageSent(s, m) = Quietly(s)
         \/ s.state # "IDLE" /\ Settles(MessageSent(s, m))
<1> DEFINE c == CountSendError(s, m.status)
<1> DEFINE a == [c EXCEPT !.state = "HANDSHAKE_INTERVAL"]
<1> DEFINE b == [c EXCEPT !.state = "SEGMENT_INTERVAL"]
<1>1. s.state # "IDLE" => c \in Globals /\ c.state = s.state /\ Bounded(c)
  BY CountedFields
<1> HIDE DEF c
<1>2. s.state # "IDLE" =>
        /\ a \in Globals /\ a.state = "HANDSHAKE_INTERVAL" /\ Bounded(a)
        /\ b \in Globals /\ b.state = "SEGMENT_INTERVAL" /\ Bounded(b)
  <2> SUFFICES ASSUME s.state # "IDLE" PROVE
        /\ a \in Globals /\ a.state = "HANDSHAKE_INTERVAL" /\ Bounded(a)
        /\ b \in Globals /\ b.state = "SEGMENT_INTERVAL" /\ Bounded(b)
    OBVIOUS
  <2>1. a \in Globals /\ b \in Globals
    BY <1>1, SetField, States
  <2>2. /\ a.state = "HANDSHAKE_INTERVAL" /\ b.state = "SEGMENT_INTERVAL"
        /\ a.stackErrors = c.stackErrors /\ a.targetErrors = c.targetErrors
        /\ b.stackErrors = c.stackErrors /\ b.targetErrors = c.targetErrors
    BY <1>1, SMT DEF Globals
  <2> QED
    BY <1>1, <2>1, <2>2, SMT DEF Bounded
<1> HIDE DEF a, b
<1>3. s.state # "IDLE" =>
        /\ Settles(ScheduleImageDistributionProcessNextTask(a, FALSE))
        /\ Settles(ScheduleImageDistributionProcessNextTask(b, FALSE))
  BY <1>2, ScheduleImageSettles
<1>4. s.state = "BOOTLOAD_PENDING" =>
        Settles(ScheduleBootloadRequestProcessNextTask(c, "none"))
  BY <1>1, ScheduleBootloadSettles DEF BootloadRequestStates
<1>5. ASSUME NEW x \in {"HANDSHAKE_WAITING", "SEGMENT_WAITING", "BOOTLOAD_WAITING"},
             s.state # "IDLE"
      PROVE  Settles(AwaitResponse(s, x))
  <2> DEFINE d == [s EXCEPT !.stackErrors = 0]
  <2> DEFINE e == [d EXCEPT !.state = x]
  <2>1. d \in Globals /\ d.stackErrors = 0 /\ d.targetErrors = s.targetErrors
    BY SetField, SMT DEF Globals
  <2>2. e \in Globals /\ e.stackErrors = 0 /\ e.targetErrors = s.targetErrors /\ e.state = x
    <3> HIDE DEF d
    <3> QED
      BY <2>1, SetField, States, SMT DEF Globals
  <2>3. AwaitResponse(s, x) = ScheduleNextEvent(e, ResponseTimeoutMs)
    BY Zenon DEF AwaitResponse
  <2> HIDE DEF d, e
  <2>4. e.state # "IDLE" /\ e.stackErrors < MaxStackErrors /\ e.targetErrors < MaxUnicastErrors
    BY <1>5, <2>2, Constants, SMT DEF ErrorsInv
  <2> QED
    BY <2>2, <2>3, <2>4, ScheduleSettles, Constants
<1>6. s.state = "HANDSHAKE_PENDING" =>
        MessageSent(s, m) \in {Quietly(s), AwaitResponse(s, "HANDSHAKE_WAITING"),
                               ScheduleImageDistributionProcessNextTask(a, FALSE)}
  BY SMT DEF MessageSent, a, c
<1>7. s.state = "SEGMENT_PENDING" =>
        MessageSent(s, m) \in {Quietly(s), AwaitResponse(s, "SEGMENT_WAITING"),
                               ScheduleImageDistributionProcessNextTask(b, FALSE)}
  BY SMT DEF MessageSent, b, c
<1>8. s.state = "BOOTLOAD_PENDING" =>
        MessageSent(s, m) \in {Quietly(s), AwaitResponse(s, "BOOTLOAD_WAITING"),
                               ScheduleBootloadRequestProcessNextTask(c, "none")}
  BY SMT DEF MessageSent, c
<1>9. s.state \notin {"HANDSHAKE_PENDING", "SEGMENT_PENDING", "BOOTLOAD_PENDING"} =>
        MessageSent(s, m) = Quietly(s)
  <2> SUFFICES ASSUME s.state # "HANDSHAKE_PENDING", s.state # "SEGMENT_PENDING",
                      s.state # "BOOTLOAD_PENDING"
               PROVE  MessageSent(s, m) = Quietly(s)
    BY Zenon
  <2> QED
    BY Zenon DEF MessageSent
<1>10. s.state \in {"HANDSHAKE_PENDING", "SEGMENT_PENDING", "BOOTLOAD_PENDING"} =>
         /\ s.state # "IDLE"
         /\ Settles(AwaitResponse(s, "HANDSHAKE_WAITING"))
         /\ Settles(AwaitResponse(s, "SEGMENT_WAITING"))
         /\ Settles(AwaitResponse(s, "BOOTLOAD_WAITING"))
  <2>1. s.state \in {"HANDSHAKE_PENDING", "SEGMENT_PENDING", "BOOTLOAD_PENDING"} =>
          s.state # "IDLE"
    BY SMT
  <2> QED
    BY <1>5, <2>1, Zenon
<1> QED
  BY <1>3, <1>4, <1>6, <1>7, <1>8, <1>9, <1>10, Zenon

(* ... and so does a response, whatever it says.                           *)
LEMMA IncomingSettles ==
  ASSUME NEW s \in Globals, ErrorsInv(s), NEW m \in Response, NEW tag \in Nat
  PROVE  \/ IncomingMessage(s, m, tag) = Quietly(s)
         \/ s.state # "IDLE" /\ Settles(IncomingMessage(s, m, tag))
<1>0. s.stackErrors \in Nat /\ s.targetErrors \in Nat
  BY SMT DEF Globals
<1> DEFINE w == TakenAsSent(s, m)
<1>1. /\ w \in Globals /\ w.state = "SEGMENT_WAITING"
      /\ w.stackErrors = s.stackErrors /\ w.targetErrors = s.targetErrors
  BY TakenType DEF SameRest
<1> HIDE DEF w
<1>2. s.state # "IDLE" => Settles(HandleSegmentResponse(w, m))
  <2> SUFFICES ASSUME s.state # "IDLE" PROVE Settles(HandleSegmentResponse(w, m))
    OBVIOUS
  <2>0. Bounded(w) /\ ErrorsInv(w) /\ w.stackErrors < MaxStackErrors
    BY <1>1, SMT DEF ErrorsInv, Bounded
  <2> DEFINE f == [w EXCEPT !.targetErrors = 0]
  <2> DEFINE g == [f EXCEPT !.active = FALSE]
  <2>1. /\ f \in Globals /\ f.state = w.state /\ f.stackErrors = w.stackErrors
        /\ f.targetErrors = 0
    BY <1>1, SetField, SMT DEF Globals
  <2>2. /\ g \in Globals /\ g.state = w.state /\ g.stackErrors = w.stackErrors
        /\ g.targetErrors = 0
    <3> HIDE DEF f
    <3>1. g \in Globals
      BY <2>1, SetField
    <3> QED
      BY <2>1, <3>1, SMT DEF Globals
  <2>3. HandleSegmentResponse(w, m) \in
          {Quietly(w), ScheduleImageDistributionProcessNextTask(g, TRUE),
           ImageDistributionProcessFinished(w, "FAILED"),
           ImageDistributionProcessFinished(w, "REFUSED"),
           ImageDistributionProcessFinished(w, "SUCCESS")}
    <3> DEFINE h == [w EXCEPT !.targetErrors = 0, !.active = FALSE]
    <3>1. HandleSegmentResponse(w, m) \in
          {Quietly(w), ScheduleImageDistributionProcessNextTask(h, TRUE),
           ImageDistributionProcessFinished(w, "FAILED"),
           ImageDistributionProcessFinished(w, "REFUSED"),
           ImageDistributionProcessFinished(w, "SUCCESS")}
      <4> HIDE DEF f, g
      <4> QED
        BY SMT DEF HandleSegmentResponse
    <3> QED
      BY <3>1
  <2> HIDE DEF f, g
  <2>4. Settles(ScheduleImageDistributionProcessNextTask(g, TRUE))
    <3>1. Bounded(g)
      BY <1>0, <2>0, <2>2, Constants, SMT DEF Bounded
    <3> QED
      BY <1>1, <2>0, <2>2, <3>1, ScheduleImageSettles
  <2>5. \A status : Settles(ImageDistributionProcessFinished(w, status))
    BY <1>1, <2>0, FinishedSettles DEF ImageDistributionProcessFinished, ProcessKinds
  <2>6. Settles(Quietly(w))
    BY <1>1, <2>0, SMT DEF Settles, Quietly, ProcessKinds
  <2> QED
    BY <2>3, <2>4, <2>5, <2>6, Zenon
<1>3. s.state # "IDLE" => Settles(HandleHandshakeResponse(s, m))
  <2> SUFFICES ASSUME s.state # "IDLE" PROVE Settles(HandleHandshakeResponse(s, m))
    OBVIOUS
  <2> DEFINE e == [s EXCEPT !.nextSegment = m.segment]
  <2> DEFINE f == [e EXCEPT !.targetErrors = 0]
  <2> DEFINE g == [f EXCEPT !.state = "SEGMENT_INTERVAL"]
  <2>0. m.segment \in Nat
    BY DEF Response
  <2>1. e \in Globals /\ e.stackErrors = s.stackErrors
    BY <2>0, SetField, SMT DEF Globals
  <2>2. f \in Globals /\ f.stackErrors = s.stackErrors /\ f.targetErrors = 0
    <3> HIDE DEF e
    <3> QED
      BY <2>1, SetField, SMT DEF Globals
  <2>3. /\ g \in Globals /\ g.stackErrors = s.stackErrors /\ g.targetErrors = 0
        /\ g.state = "SEGMENT_INTERVAL"
    <3> HIDE DEF e, f
    <3> QED
      BY <2>2, SetField, States, SMT DEF Globals
  <2>4. HandleHandshakeResponse(s, m) \in
          {ScheduleImageDistributionProcessNextTask(g, TRUE),
           ImageDistributionProcessFinished(s, "FAILED"),
           ImageDistributionProcessFinished(s, "REFUSED")}
    <3> DEFINE h == [s EXCEPT !.nextSegment = m.segment, !.targetErrors = 0,
                              !.state = "SEGMENT_INTERVAL"]
    <3>1. HandleHandshakeResponse(s, m) \in
          {ScheduleImageDistributionProcessNextTask(h, TRUE),
           ImageDistributionProcessFinished(s, "FAILED"),
           ImageDistributionProcessFinished(s, "REFUSED")}
      <4> HIDE DEF e, f, g
      <4> QED
        BY SMT DEF HandleHandshakeResponse
    <3> QED
      BY <3>1
  <2> HIDE DEF e, f, g
  <2>5. Settles(ScheduleImageDistributionProcessNextTask(g, TRUE))
    <3>1. Bounded(g)
      BY <1>0, <2>3, Constants, SMT DEF Bounded, ErrorsInv
    <3> QED
      BY <2>3, <3>1, ScheduleImageSettles
  <2>6. \A status : Settles(ImageDistributionProcessFinished(s, status))
    BY FinishedSettles DEF ImageDistributionProcessFinished, ProcessKinds, ErrorsInv
  <2> QED
    BY <2>4, <2>5, <2>6, Zenon
<1>4. s.state = "BOOTLOAD_WAITING" =>
        Settles(ScheduleBootloadRequestProcessNextTask(s, m.status))
  BY ScheduleBootloadSettles DEF BootloadRequestStates, ErrorsInv
<1>5. \/ IncomingMessage(s, m, tag) = Quietly(s)
      \/ s.state # "IDLE" /\ IncomingMessage(s, m, tag) \in
           {HandleSegmentResponse(w, m), HandleHandshakeResponse(s, m)}
      \/ /\ s.state = "BOOTLOAD_WAITING"
         /\ IncomingMessage(s, m, tag) = ScheduleBootloadRequestProcessNextTask(s, m.status)
  BY SMT DEF IncomingMessage, w
<1> QED
  BY <1>2, <1>3, <1>4, <1>5, SMT

(* A thread is engaged in no idle server.                                  *)
LEMMA EngagedRuns ==
  ASSUME NEW label \in Engaged
  PROVE  "IDLE" \notin StatesAt(label)
BY SMT DEF Engaged, Labels, StatesAt

(* With no thread engaged afterwards, the threads need no more.            *)
LEMMA NoneEngaged ==
  ASSUME \A n \in EventThreads : pc[n]' \notin Engaged
  PROVE  ThreadsInv'
BY Zenon DEF ThreadsInv

(* No thread is engaged while all of them sleep.                           *)
LEMMA QuietNobody ==
  ASSUME Quiescent
  PROVE  \A n \in EventThreads : pc[n] \notin Engaged
BY SMT DEF Quiescent, Engaged

(* A result that settles keeps the counters and the completions right.     *)
LEMMA ApplyCounters ==
  ASSUME TypeInv, Counters, NEW r \in Results,
         r = Quietly(server) \/ (server.state # "IDLE" /\ Settles(r)),
         Apply(r), starts' = starts
  PROVE  Counters'
<1>1. server' = [r.globals EXCEPT !.asserted = r.outcome = "asserted"]
  BY Zenon DEF Apply
<1>2. r.globals \in Globals /\ server \in Globals
  BY Zenon DEF Results, TypeInv, TypeOK
<1>3. /\ server'.state = r.globals.state
      /\ server'.stackErrors = r.globals.stackErrors
      /\ server'.targetErrors = r.globals.targetErrors
      /\ server'.active = r.globals.active
      /\ server'.asserted = (r.outcome = "asserted")
  BY <1>1, <1>2, Zenon DEF Globals
<1>4. /\ r.outcome # "asserted" /\ ErrorsInv(r.globals)
      /\ \/ r.globals.state = server.state /\ r.outcome \notin ProcessKinds
         \/ server.state # "IDLE" /\ (r.outcome \in ProcessKinds <=> r.globals.state = "IDLE")
  <2>1. CASE r = Quietly(server)
    <3>1. r.globals = server /\ r.outcome = "none"
      BY <2>1, SMT DEF Quietly
    <3> QED
      BY <3>1, SMT DEF Counters, ProcessKinds
  <2>2. CASE server.state # "IDLE" /\ Settles(r)
    BY <2>2, Zenon DEF Settles
  <2> QED
    BY <2>1, <2>2
<1>5. ErrorsInv(server') /\ ~server'.asserted
  BY <1>3, <1>4, Zenon DEF ErrorsInv, Bounded
<1>6. CompletedOnce'
  <2>1. completions \in Seq(Completion) /\ starts \in Nat
    BY Constants, SMT DEF TypeInv, TypeOK
  <2>2. \A x : Len(Append(completions, x)) = Len(completions) + 1
    BY <2>1, SMT
  <2>3. Len(completions') = Len(completions) + (IF r.outcome \in ProcessKinds THEN 1 ELSE 0)
    <3>1. \/ r.outcome \in ProcessKinds /\ Len(completions') = Len(completions) + 1
          \/ r.outcome \notin ProcessKinds /\ completions' = completions
      BY <2>2, Zenon DEF Apply
    <3>2. Len(completions) \in Nat
      BY <2>1, LenNat
    <3> QED
      BY <3>1, <3>2, SMT
  <2>4. Len(completions) = starts - (IF server.state = "IDLE" THEN 0 ELSE 1)
    BY Zenon DEF Counters, CompletedOnce
  <2>5. Len(completions') = starts' - (IF server'.state = "IDLE" THEN 0 ELSE 1)
    BY <1>3, <1>4, <2>1, <2>3, <2>4, SMT
  <2> QED
    BY <2>5, Zenon DEF CompletedOnce
<1> QED
  BY <1>5, <1>6, Zenon DEF Counters

(* The limits and the count of completions depend on these alone.          *)
LEMMA SameCounters ==
  ASSUME TypeInv, Counters, NEW s \in Globals, server' = s,
         s.stackErrors = server.stackErrors, s.targetErrors = server.targetErrors,
         s.asserted = server.asserted,
         s.state # "IDLE", server.state # "IDLE", UNCHANGED <<starts, completions>>
  PROVE  Counters'
<1>1. CompletedOnce'
  BY SMT DEF Counters, CompletedOnce
<1>2. ErrorsInv(server') /\ ~server'.asserted
  BY Zenon DEF Counters, ErrorsInv, Bounded
<1> QED
  BY <1>1, <1>2, Zenon DEF Counters

(* The control part holds at first.                                        *)
LEMMA ControlInit == Init => ControlInv
<1> SUFFICES ASSUME Init PROVE ControlInv
  OBVIOUS
<1>1. /\ server.stackErrors = 0 /\ server.targetErrors = 0 /\ server.state = "IDLE"
      /\ Len(completions) = 0 /\ starts = 0
  BY SMT DEF Init
<1>2. server.active = FALSE /\ server.asserted = FALSE
  BY Zenon DEF Init
<1>3. \A n \in EventThreads : pc[n] \notin Engaged
  BY SMT DEF Init, Engaged
<1>4. Bounded(server) /\ CompletedOnce
  BY <1>1, Constants, SMT DEF Bounded, CompletedOnce
<1> QED
  BY <1>1, <1>2, <1>3, <1>4, Zenon DEF ControlInv, Counters, ErrorsInv, ThreadsInv

(* A process is initiated in an idle server, where no thread is engaged.   *)
LEMMA ControlInitiate ==
  ASSUME TypeInv, ControlInv, NEW kind \in ProcessKinds, Initiate(kind)
  PROVE  ControlInv'
<1> DEFINE x == IF kind = "image" THEN "HANDSHAKE_INTERVAL" ELSE "BOOTLOAD_INTERVAL"
<1> DEFINE a == [server EXCEPT !.nextSegment = 0, !.stackErrors = 0, !.targetErrors = 0]
<1> DEFINE b == [a EXCEPT !.state = x]
<1>1. /\ server.state = "IDLE" /\ server' = b
      /\ starts < MaxStarts /\ starts' = starts + 1 /\ UNCHANGED completions
      /\ pc' = [pc EXCEPT ![starts + 1] = "create"]
  BY Zenon DEF Initiate, Goto
<1>2. /\ server \in Globals /\ pc \in [EventThreads -> Labels] /\ starts \in Nat
      /\ starts + 1 \in EventThreads
  BY <1>1, Constants, SMTT(30) DEF TypeInv, TypeOK, EventThreads
<1>3. /\ a.stackErrors = 0 /\ a.targetErrors = 0 /\ a \in Globals
      /\ a.active = server.active /\ a.asserted = server.asserted
  BY <1>2, ResetFields, ResetType, Zenon DEF Globals
<1>4. /\ b.stackErrors = 0 /\ b.targetErrors = 0 /\ b.state = x
      /\ b.active = server.active /\ b.asserted = server.asserted
  <2> HIDE DEF a, x
  <2> QED
    BY <1>3, Zenon DEF Globals
<1>5. x \in {"HANDSHAKE_INTERVAL", "BOOTLOAD_INTERVAL"} /\ x # "IDLE"
  BY SMT
<1> HIDE DEF a, b, x
<1>6. ErrorsInv(server') /\ ~server'.asserted /\ ~server'.active
  <2>1. Bounded(b) /\ b.stackErrors < MaxStackErrors /\ b.targetErrors < MaxUnicastErrors
    BY <1>4, Constants, SMT DEF Bounded
  <2>2. ~server.active /\ ~server.asserted
    BY <1>1, Zenon DEF ControlInv, Counters, ErrorsInv
  <2> QED
    BY <1>1, <1>4, <1>5, <2>1, <2>2, Zenon DEF ErrorsInv
<1>7. CompletedOnce'
  <2>1. Len(completions) = starts
    BY <1>1, <1>2, SMT DEF ControlInv, Counters, CompletedOnce
  <2>2. Len(completions') = starts' - (IF server'.state = "IDLE" THEN 0 ELSE 1)
    BY <1>1, <1>2, <1>4, <1>5, <2>1, SMT
  <2> QED
    BY <2>2, Zenon DEF CompletedOnce
<1>8. ThreadsInv'
  <2>1. \A n \in EventThreads : pc[n] \notin Engaged
    BY <1>1, EngagedRuns, Zenon DEF ControlInv, ThreadsInv
  <2>2. \A n \in EventThreads : pc'[n] \in Engaged => n = starts + 1 /\ pc'[n] = "create"
    BY <1>1, <1>2, <2>1, Zenon
  <2>3. server'.state \in StatesAt("create")
    BY <1>1, <1>4, <1>5, SMT DEF StatesAt
  <2> QED
    BY <1>6, <2>2, <2>3, Zenon DEF ThreadsInv
<1> QED
  BY <1>6, <1>7, <1>8, Zenon DEF ControlInv, Counters

(* A step that leaves the globals alone keeps what does not depend on the  *)
(* threads.                                                                *)
LEMMA SameGlobals ==
  ASSUME ControlInv, UNCHANGED <<server, starts, completions>>, ThreadsInv'
  PROVE  ControlInv'
BY Zenon DEF ControlInv, Counters, CompletedOnce

(* An abort completes the process it ends.                                 *)
LEMMA AbortCounters ==
  ASSUME TypeInv, Counters, AbortCurrentProcess
  PROVE  Counters'
<1>1. CASE UNCHANGED <<server, completions>>
  BY <1>1, Zenon DEF AbortCurrentProcess, Counters, CompletedOnce
<1>2. ASSUME NEW f \in {ImageDistributionProcessFinished(server, "ABORTED"),
                        BootloadRequestProcessFinished(server, "ABORTED")},
             Apply(f), server.state # "IDLE"
      PROVE  Counters'
  <2>1. server \in Globals /\ Bounded(server)
    BY Zenon DEF TypeInv, TypeOK, Counters, ErrorsInv
  <2>2. f \in Results
    BY <1>2, <2>1, BasicType DEF ProcessStatuses
  <2>3. Settles(f)
    BY <1>2, <2>1, FinishedSettles
       DEF ImageDistributionProcessFinished, BootloadRequestProcessFinished, ProcessKinds
  <2>4. starts' = starts
    BY Zenon DEF AbortCurrentProcess
  <2> QED
    BY <1>2, <2>2, <2>3, <2>4, ApplyCounters
<1>3. "IDLE" \notin ImageDistributionStates \cup BootloadRequestStates
  BY SMT DEF ImageDistributionStates, BootloadRequestStates
<1> QED
  BY <1>1, <1>2, <1>3, Zenon DEF AbortCurrentProcess

(* A callback completes the process or leaves it within its limits.        *)
LEMMA CallbackCounters ==
  ASSUME TypeInv, Counters, Callbacks
  PROVE  Counters'
<1>0. /\ server \in Globals /\ ErrorsInv(server) /\ starts \in Nat
      /\ starts' = starts
      /\ mail \in Seq(SentReport \cup Response) /\ mail # <<>>
  <2>1. starts \in Nat
    BY Constants, SMT DEF TypeInv, TypeOK
  <2> QED
    BY <2>1, Zenon DEF TypeInv, TypeOK, Counters, Callbacks, MessageSentCallback,
                IncomingMessageCallback
<1>1. CASE MessageSentCallback
  <2>1. Head(mail) \in SentReport
    BY <1>0, <1>1, SMT DEF MessageSentCallback, SentReport, Response
  <2>2. MessageSent(server, Head(mail)) \in Results
    BY <1>0, <2>1, SentType
  <2>3. \/ MessageSent(server, Head(mail)) = Quietly(server)
        \/ server.state # "IDLE" /\ Settles(MessageSent(server, Head(mail)))
    BY <1>0, <2>1, SentSettles
  <2>4. Apply(MessageSent(server, Head(mail)))
    BY <1>1, Zenon DEF MessageSentCallback
  <2> QED
    BY <1>0, <2>2, <2>3, <2>4, ApplyCounters
<1>2. CASE IncomingMessageCallback
  <2>1. Head(mail) \in Response
    BY <1>0, <1>2, SMT DEF IncomingMessageCallback, SentReport, Response
  <2>2. IncomingMessage(server, Head(mail), starts) \in Results
    BY <1>0, <2>1, IncomingType
  <2>3. \/ IncomingMessage(server, Head(mail), starts) = Quietly(server)
        \/ server.state # "IDLE" /\ Settles(IncomingMessage(server, Head(mail), starts))
    BY <1>0, <2>1, IncomingSettles
  <2>4. Apply(IncomingMessage(server, Head(mail), starts))
    BY <1>2, Zenon DEF IncomingMessageCallback
  <2> QED
    BY <1>0, <2>2, <2>3, <2>4, ApplyCounters
<1> QED
  BY <1>1, <1>2 DEF Callbacks

(* A thread that stops handling was the only one that did.                 *)
LEMMA Disengages ==
  ASSUME TypeInv, ThreadsInv, NEW n \in EventThreads, pc[n] \in Engaged,
         NEW label \in Labels \ Engaged, Goto(n, label)
  PROVE  ThreadsInv'
<1>1. \A m \in EventThreads : pc[m]' \notin Engaged
  BY SMT DEF TypeInv, TypeOK, ThreadsInv, Goto
<1> QED
  BY <1>1, NoneEngaged

(* A thread that is not engaged and does not become so.                    *)
LEMMA StaysDisengaged ==
  ASSUME TypeInv, ThreadsInv, NEW n \in EventThreads,
         NEW label \in Labels \ Engaged, Goto(n, label), UNCHANGED server
  PROVE  ThreadsInv'
<1>1. \A m \in EventThreads : pc[m]' \in Engaged => pc[m] \in Engaged /\ pc[m]' = pc[m]
  BY SMT DEF TypeInv, TypeOK, Goto
<1> QED
  BY <1>1, Zenon DEF ThreadsInv

(* An engaged thread that goes on to a label that suits the new state.     *)
LEMMA GoesOn ==
  ASSUME TypeInv, ThreadsInv, NEW n \in EventThreads, pc[n] \in Engaged, NEW label \in Labels,
         Goto(n, label), server'.state \in StatesAt(label), ~server'.active
  PROVE  ThreadsInv'
<1>1. \A m \in EventThreads : pc[m]' \in Engaged => m = n
  BY SMT DEF TypeInv, TypeOK, ThreadsInv, Goto
<1>2. pc[n]' = label
  BY SMT DEF TypeInv, TypeOK, Goto
<1> QED
  BY <1>1, <1>2, Zenon DEF ThreadsInv

(* A step of an event thread keeps the control part, branch by branch.     *)
LEMMA ControlThread ==
  ASSUME TypeInv, ControlInv, NEW n \in EventThreads, EventThreadStep(n)
  PROVE  ControlInv'
<1>s. /\ server \in Globals /\ pc \in [EventThreads -> Labels] /\ starts \in Nat
      /\ Counters /\ ThreadsInv /\ ErrorsInv(server) /\ Bounded(server)
  <2>1. starts \in Nat
    BY Constants, SMT DEF TypeInv, TypeOK
  <2> QED
    BY <2>1, Zenon DEF TypeInv, TypeOK, ControlInv, Counters, ErrorsInv
<1>e. pc[n] \in Engaged =>
        /\ ~server.active /\ server.state \in StatesAt(pc[n]) /\ server.state # "IDLE"
  BY <1>s, EngagedRuns, Zenon DEF ThreadsInv
<1>1. CASE CreateTimer(n)
  <2> DEFINE a == [server EXCEPT !.timerFd = n]
  <2> DEFINE b == [a EXCEPT !.active = TRUE]
  <2>0. n \in 0..MaxStarts
    BY Constants, SMT DEF EventThreads
  <2>1. /\ a \in Globals /\ a.state = server.state /\ a.asserted = server.asserted
        /\ a.stackErrors = server.stackErrors /\ a.targetErrors = server.targetErrors
    BY <1>s, <2>0, SetField, Zenon DEF Globals
  <2>2. /\ b \in Globals /\ b.state = server.state /\ b.asserted = server.asserted
        /\ b.stackErrors = server.stackErrors /\ b.targetErrors = server.targetErrors
    <3> HIDE DEF a
    <3> QED
      BY <2>1, SetField, Zenon DEF Globals
  <2>3. server' = b
    BY <1>1, Zenon DEF CreateTimer
  <2> HIDE DEF a, b
  <2>4. pc[n] = "create" /\ Goto(n, "check") /\ UNCHANGED <<starts, completions>>
    BY <1>1, Zenon DEF CreateTimer
  <2>5. pc[n] \in Engaged /\ "check" \in Labels \ Engaged
    BY <2>4, SMT DEF Engaged, Labels
  <2>6. Counters'
    BY <1>s, <1>e, <2>2, <2>3, <2>4, <2>5, SameCounters
  <2>7. ThreadsInv'
    BY <1>s, <2>4, <2>5, Disengages
  <2> QED
    BY <2>6, <2>7 DEF ControlInv
<1>2. CASE CheckIdle(n) \/ PollTimer(n) \/ ReadTimer(n)
  <2>1. /\ UNCHANGED <<server, starts, completions>>
        /\ \E label \in {"done", "poll", "read", "loop"} : Goto(n, label)
    BY <1>2, Zenon DEF CheckIdle, PollTimer, ReadTimer
  <2>2. {"done", "poll", "read", "loop"} \subseteq Labels \ Engaged
    BY SMT DEF Labels, Engaged
  <2>3. ThreadsInv'
    BY <1>s, <2>1, <2>2, StaysDisengaged
  <2> QED
    BY <2>1, <2>3, SameGlobals
<1>3. CASE EventHandler(n)
  <2>1. CASE ~server.active
    <3>1. UNCHANGED <<server, starts, completions>> /\ Goto(n, "check")
      BY <1>3, <2>1, Zenon DEF EventHandler
    <3>2. "check" \in Labels \ Engaged
      BY SMT DEF Labels, Engaged
    <3>3. ThreadsInv'
      BY <1>s, <3>1, <3>2, StaysDisengaged
    <3> QED
      BY <3>1, <3>3, SameGlobals
  <2>2. CASE server.active
    <3> DEFINE a == [server EXCEPT !.active = FALSE]
    <3>1. server' = a /\ UNCHANGED <<starts, completions>> /\ Goto(n, HandlerFor(server.state))
      BY <1>3, <2>2, Zenon DEF EventHandler
    <3>2. /\ a \in Globals /\ a.state = server.state /\ a.asserted = server.asserted
          /\ a.stackErrors = server.stackErrors /\ a.targetErrors = server.targetErrors
          /\ a.active = FALSE
      BY <1>s, SetField, Zenon DEF Globals
    <3> HIDE DEF a
    <3>3. server.state # "IDLE"
      BY <1>s, <2>2, Zenon DEF ErrorsInv
    <3>4. Counters'
      BY <1>s, <3>1, <3>2, <3>3, SameCounters
    <3>5. \A m \in EventThreads : pc[m] \notin Engaged
      BY <1>s, <2>2, Zenon DEF ThreadsInv
    <3>6. /\ HandlerFor(server.state) \in Labels
          /\ HandlerFor(server.state) \in Engaged =>
               server.state \in StatesAt(HandlerFor(server.state))
      BY SMT DEF HandlerFor, Labels, Engaged, StatesAt
    <3>7. \A m \in EventThreads : pc[m]' \in Engaged => m = n /\ pc[m]' = HandlerFor(server.state)
      BY <1>s, <3>1, <3>5, <3>6, Zenon DEF Goto
    <3>8. ThreadsInv'
      BY <3>1, <3>2, <3>6, <3>7, Zenon DEF ThreadsInv
    <3> QED
      BY <3>4, <3>8 DEF ControlInv
  <2> QED
    BY <2>1, <2>2
<1>4. ASSUME NEW command, NEW segment, NEW accepted \in Labels, NEW refused \in Labels,
             Send(n, command, segment, accepted, refused), pc[n] \in Engaged,
             server.state \in StatesAt(accepted), server.state \in StatesAt(refused)
      PROVE  ControlInv'
  <2>1. UNCHANGED <<server, starts, completions>> /\ (Goto(n, accepted) \/ Goto(n, refused))
    BY <1>4, Zenon DEF Send
  <2>2. server'.state = server.state /\ ~server'.active
    BY <1>4, <1>e, <2>1, Zenon
  <2>3. ThreadsInv'
    BY <1>4, <1>s, <2>1, <2>2, GoesOn, Zenon
  <2> QED
    BY <2>1, <2>3, SameGlobals
<1>5. CASE UnicastHandshake(n)
  <2>1. /\ pc[n] = "sendHandshake"
        /\ Send(n, "HANDSHAKE", 0, "handshakeSent", "imageSendFailed")
    BY <1>5, Zenon DEF UnicastHandshake
  <2>2. /\ pc[n] \in Engaged /\ "handshakeSent" \in Labels /\ "imageSendFailed" \in Labels
        /\ StatesAt("sendHandshake") \subseteq StatesAt("handshakeSent")
        /\ StatesAt("sendHandshake") \subseteq StatesAt("imageSendFailed")
    BY <2>1, SMT DEF Engaged, Labels, StatesAt
  <2> QED
    BY <1>4, <1>e, <2>1, <2>2, Zenon
<1>6. CASE UnicastNextSegment(n)
  <2>1. /\ pc[n] = "sendSegment"
        /\ Send(n, "SEGMENT", server.nextSegment, "segmentSent", "imageSendFailed")
    BY <1>6, Zenon DEF UnicastNextSegment
  <2>2. /\ pc[n] \in Engaged /\ "segmentSent" \in Labels /\ "imageSendFailed" \in Labels
        /\ StatesAt("sendSegment") \subseteq StatesAt("segmentSent")
        /\ StatesAt("sendSegment") \subseteq StatesAt("imageSendFailed")
    BY <2>1, SMT DEF Engaged, Labels, StatesAt
  <2> QED
    BY <1>4, <1>e, <2>1, <2>2, Zenon
<1>7. CASE RequestTargetForBootload(n)
  <2>1. /\ pc[n] = "sendBootload"
        /\ Send(n, "BOOTLOAD", 0, "bootloadSent", "bootloadSendFailed")
    BY <1>7, Zenon DEF RequestTargetForBootload
  <2>2. /\ pc[n] \in Engaged /\ "bootloadSent" \in Labels /\ "bootloadSendFailed" \in Labels
        /\ StatesAt("sendBootload") \subseteq StatesAt("bootloadSent")
        /\ StatesAt("sendBootload") \subseteq StatesAt("bootloadSendFailed")
    BY <2>1, SMT DEF Engaged, Labels, StatesAt
  <2> QED
    BY <1>4, <1>e, <2>1, <2>2, Zenon
<1>8. ASSUME NEW r \in Results, Settles(r), Apply(r), pc[n] \in Engaged, Goto(n, "loop"),
             starts' = starts
      PROVE  ControlInv'
  <2>1. "loop" \in Labels \ Engaged
    BY SMT DEF Labels, Engaged
  <2>2. ThreadsInv'
    BY <1>s, <1>8, <2>1, Disengages
  <2>3. Counters'
    BY <1>s, <1>e, <1>8, ApplyCounters
  <2> QED
    BY <2>2, <2>3 DEF ControlInv
<1>9. CASE DataUnderflow(n)
  <2>1. /\ pc[n] = "sendSegment" /\ Goto(n, "loop") /\ starts' = starts
        /\ Apply(ImageDistributionProcessFinished(server, "DATA_UNDERFLOW"))
    BY <1>9, Zenon DEF DataUnderflow
  <2>2. pc[n] \in Engaged
    BY <2>1, SMT DEF Engaged, Labels
  <2>3. /\ ImageDistributionProcessFinished(server, "DATA_UNDERFLOW") \in Results
        /\ Settles(ImageDistributionProcessFinished(server, "DATA_UNDERFLOW"))
    BY <1>s, BasicType, FinishedSettles
       DEF ProcessStatuses, ImageDistributionProcessFinished, ProcessKinds
  <2> QED
    BY <1>8, <2>1, <2>2, <2>3
<1>10. CASE SetPending(n)
  <2>1. ASSUME NEW x \in ServerStates \ {"IDLE"}, NEW a \in Globals,
               a.state = x, a.asserted = server.asserted,
               a.stackErrors = server.stackErrors, a.targetErrors = server.targetErrors,
               a.active = server.active, server' = a,
               NEW label \in Labels, Goto(n, label), x \in StatesAt(label), pc[n] \in Engaged
        PROVE  ControlInv'
    <3>1. UNCHANGED <<starts, completions>>
      BY <1>10, Zenon DEF SetPending
    <3>2. Counters'
      BY <1>s, <1>e, <2>1, <3>1, SameCounters
    <3>3. ThreadsInv'
      BY <1>s, <1>e, <2>1, <3>1, GoesOn
    <3> QED
      BY <3>2, <3>3 DEF ControlInv
  <2>2. /\ "loop" \in Labels /\ "storeSegment" \in Labels
        /\ {"handshakeSent", "segmentSent", "storeSegment", "bootloadSent"} \subseteq Engaged
        /\ {"HANDSHAKE_PENDING", "SEGMENT_PENDING", "BOOTLOAD_PENDING"}
             \subseteq ServerStates \ {"IDLE"}
        /\ StatesAt("loop") = ServerStates /\ StatesAt("storeSegment") = {"SEGMENT_PENDING"}
    BY States, SMT DEF Labels, Engaged, StatesAt
  <2>3. CASE pc[n] = "storeSegment"
    <3> DEFINE a == [server EXCEPT !.sentSegment = server.nextSegment]
    <3>0. server.nextSegment \in Nat
      BY <1>s, SMT DEF Globals
    <3>1. /\ a \in Globals /\ a.state = server.state /\ a.asserted = server.asserted
          /\ a.stackErrors = server.stackErrors /\ a.targetErrors = server.targetErrors
      BY <1>s, <3>0, SetField, Zenon DEF Globals
    <3>2. server' = a /\ UNCHANGED <<starts, completions>> /\ Goto(n, "loop")
      BY <1>10, <2>3, Zenon DEF SetPending
    <3> HIDE DEF a
    <3>3. Counters'
      BY <1>s, <1>e, <2>2, <2>3, <3>1, <3>2, SameCounters, Zenon
    <3>4. "loop" \in Labels \ Engaged
      BY SMT DEF Labels, Engaged
    <3>5. ThreadsInv'
      BY <1>s, <2>2, <2>3, <3>2, <3>4, Disengages, Zenon
    <3> QED
      BY <3>3, <3>5 DEF ControlInv
  <2>4. CASE pc[n] # "storeSegment"
    <3>1. \/ /\ pc[n] = "handshakeSent" /\ Goto(n, "loop")
             /\ server' = [server EXCEPT !.state = "HANDSHAKE_PENDING"]
          \/ /\ pc[n] = "segmentSent" /\ Goto(n, "storeSegment")
             /\ server' = SegmentPending(server)
          \/ /\ pc[n] = "bootloadSent" /\ Goto(n, "loop")
             /\ server' = [server EXCEPT !.state = "BOOTLOAD_PENDING"]
      BY <1>10, <2>4, Zenon DEF SetPending
    <3>2. ASSUME NEW x \in ServerStates \ {"IDLE"}, server' = [server EXCEPT !.state = x],
                 Goto(n, "loop"), pc[n] \in Engaged
          PROVE  ControlInv'
      <4> DEFINE a == [server EXCEPT !.state = x]
      <4>1. /\ a \in Globals /\ a.state = x /\ a.asserted = server.asserted
            /\ a.stackErrors = server.stackErrors /\ a.targetErrors = server.targetErrors
            /\ a.active = server.active
        BY <1>s, SetField, Zenon DEF Globals
      <4>2. server' = a
        BY <3>2
      <4> HIDE DEF a
      <4> QED
        BY <2>1, <2>2, <3>2, <4>1, <4>2
    <3>3. ASSUME pc[n] = "segmentSent", Goto(n, "storeSegment"), server' = SegmentPending(server)
          PROVE  ControlInv'
      <4>1. "SEGMENT_PENDING" \in ServerStates \ {"IDLE"} /\ pc[n] \in Engaged
            /\ "SEGMENT_PENDING" \in StatesAt("storeSegment")
        BY <2>2, <3>3
      <4> QED
        BY <1>s, <2>1, <2>2, <3>3, <4>1, PendingType DEF SameRest
    <3> QED
      BY <2>2, <3>1, <3>2, <3>3, Zenon
  <2> QED
    BY <2>3, <2>4
<1>11. CASE CountAndSchedule(n)
  <2> DEFINE a == StackErrorCounted(server)
  <2> DEFINE b == TargetErrorCounted(server)
  <2>1. /\ Goto(n, "loop") /\ starts' = starts
        /\ pc[n] \in {"imageSendFailed", "imageTimeout", "bootloadSendFailed", "bootloadTimeout"}
    BY <1>11, Zenon DEF CountAndSchedule
  <2>2. pc[n] \in Engaged
    BY <2>1, SMT DEF Engaged, Labels
  <2>3. /\ a \in Globals /\ a.state = server.state /\ Bounded(a)
        /\ b \in Globals /\ b.state = server.state /\ Bounded(b)
        /\ b.stackErrors = server.stackErrors /\ b.stackErrors < MaxStackErrors
    BY <1>s, <1>e, <2>2, CountedFields, Zenon DEF ErrorsInv
  <2> HIDE DEF a, b
  <2>4. CASE pc[n] = "imageSendFailed"
    <3>1. a.state \in {"HANDSHAKE_INTERVAL", "SEGMENT_INTERVAL"}
      BY <1>e, <2>2, <2>3, <2>4, SMT DEF StatesAt
    <3>2. Apply(ScheduleImageDistributionProcessNextTask(a, FALSE))
      BY <1>11, <2>4, Zenon DEF CountAndSchedule, a
    <3> QED
      BY <1>8, <2>1, <2>2, <2>3, <3>1, <3>2, ScheduleImageSettles, ScheduleImageType
  <2>5. CASE pc[n] = "imageTimeout"
    <3>1. b.state \in {"HANDSHAKE_WAITING", "SEGMENT_WAITING"}
      BY <1>e, <2>2, <2>3, <2>5, SMT DEF StatesAt
    <3>2. Apply(ScheduleImageDistributionProcessNextTask(b, FALSE))
      BY <1>11, <2>5, Zenon DEF CountAndSchedule, b
    <3> QED
      BY <1>8, <2>1, <2>2, <2>3, <3>1, <3>2, ScheduleImageSettles, ScheduleImageType
  <2>6. CASE pc[n] = "bootloadSendFailed"
    <3>1. a.state \in BootloadRequestStates
      BY <1>e, <2>2, <2>3, <2>6, SMT DEF StatesAt, BootloadRequestStates
    <3>2. Apply(ScheduleBootloadRequestProcessNextTask(a, "none"))
      BY <1>11, <2>6, Zenon DEF CountAndSchedule, a
    <3> QED
      BY <1>8, <2>1, <2>2, <2>3, <3>1, <3>2, ScheduleBootloadSettles, ScheduleBootloadType
  <2>7. CASE pc[n] = "bootloadTimeout"
    <3>1. b.state \in BootloadRequestStates
      BY <1>e, <2>2, <2>3, <2>7, SMT DEF StatesAt, BootloadRequestStates
    <3>2. Apply(ScheduleBootloadRequestProcessNextTask(b, "none"))
      BY <1>11, <2>7, Zenon DEF CountAndSchedule, b
    <3> QED
      BY <1>8, <2>1, <2>2, <2>3, <3>1, <3>2, ScheduleBootloadSettles, ScheduleBootloadType
  <2> QED
    BY <2>1, <2>4, <2>5, <2>6, <2>7, Zenon
<1> QED
  BY <1>1, <1>2, <1>3, <1>5, <1>6, <1>7, <1>9, <1>10, <1>11 DEF EventThreadStep

(* Every step keeps the control part.                                      *)
LEMMA ControlStep ==
  ASSUME "during handler" \notin Races, TypeInv, ControlInv, [Next]_vars
  PROVE  ControlInv'
<1>1. ASSUME NEW kind \in ProcessKinds, Initiate(kind) PROVE ControlInv'
  BY <1>1, ControlInitiate
<1>2. CASE AbortCurrentProcess \/ Callbacks
  <2>1. Quiescent /\ pc' = pc
    BY <1>2, Zenon DEF AbortCurrentProcess, Callbacks, MessageSentCallback,
                       IncomingMessageCallback, MayInterrupt
  <2>2. ThreadsInv'
    BY <2>1, QuietNobody, NoneEngaged
  <2>3. Counters'
    BY <1>2, AbortCounters, CallbackCounters DEF ControlInv
  <2> QED
    BY <2>2, <2>3 DEF ControlInv
<1>3. ASSUME NEW n \in EventThreads, EventThreadStep(n) PROVE ControlInv'
  BY <1>3, ControlThread
<1>4. CASE \/ TargetReceives \/ Report \/ TargetAnswers \/ UNCHANGED vars
           \/ \E n \in EventThreads : TimerExpires(n)
  <2>1. UNCHANGED <<server, pc, starts, completions>>
    BY <1>4, Zenon DEF TargetReceives, Report, ReportSent, TargetAnswers, vars, TimerExpires
  <2>2. ThreadsInv'
    BY <2>1, Zenon DEF ControlInv, ThreadsInv
  <2> QED
    BY <2>1, <2>2, SameGlobals
<1> QED
  BY <1>1, <1>2, <1>3, <1>4, Zenon DEF Next, Resting

(* Each initiated process is completed by exactly one completion callback, *)
(* and by none while it runs, for any number of processes, aborts and      *)
(* threads that outlive their process, when no callback and no abort gets  *)
(* in while an event thread is at work                                     *)
(* (ota-unicast-bootloader-server.c:505-566, 627-675).                     *)
THEOREM CompletedOnceHolds == "during handler" \notin Races => (Spec => []CompletedOnce)
<1> SUFFICES ASSUME "during handler" \notin Races PROVE Spec => []CompletedOnce
  OBVIOUS
<1>1. TypeInv /\ ControlInv /\ [Next]_vars => ControlInv'
  BY ControlStep
<1>2. ControlInv => CompletedOnce
  BY DEF ControlInv, Counters
<1> QED
  BY <1>1, <1>2, TypeInit, TypeStep, ControlInit, PTL DEF Spec

(* The stack and target error counters never exceed their limits, whatever *)
(* fails and however often: the process ends where one is reached          *)
(* (ota-unicast-bootloader-server.c:241-330, 505-558, 627-666).            *)
THEOREM ErrorsBoundedHolds == "during handler" \notin Races => (Spec => []ErrorsBounded)
<1> SUFFICES ASSUME "during handler" \notin Races PROVE Spec => []ErrorsBounded
  OBVIOUS
<1>1. TypeInv /\ ControlInv /\ [Next]_vars => ControlInv'
  BY ControlStep
<1>2. ControlInv => ErrorsBounded
  BY DEF ControlInv, Counters, ErrorsInv, Bounded, ErrorsBounded
<1> QED
  BY <1>1, <1>2, TypeInit, TypeStep, ControlInit, PTL DEF Spec

(* No assert of the server fails: an event is handled, a message reported  *)
(* and a response taken only in a state its branch is for                  *)
(* (ota-unicast-bootloader-server.c:505-558, 627-666).                     *)
THEOREM NoAssertFailsHolds == "during handler" \notin Races => (Spec => []NoAssertFails)
<1> SUFFICES ASSUME "during handler" \notin Races PROVE Spec => []NoAssertFails
  OBVIOUS
<1>1. TypeInv /\ ControlInv /\ [Next]_vars => ControlInv'
  BY ControlStep
<1>2. ControlInv => NoAssertFails
  BY DEF ControlInv, Counters, NoAssertFails
<1> QED
  BY <1>1, <1>2, TypeInit, TypeStep, ControlInit, PTL DEF Spec
(* What happens to the messages the NCP has accepted: a thread hands it    *)
(* one that is due, or the number does not grow.                           *)
LEMMA SendsInTurn ==
  ASSUME TypeInv, ThreadsInv, [Next]_vars
  PROVE  \/ Len(outbox') <= Len(outbox)
         \/ \E command, m :
              /\ command \in DOMAIN SendingState
              /\ server.state = SendingState[command]
              /\ m.command = command
              /\ outbox' = Append(outbox, m)
<1>0. outbox \in Seq(Outgoing) /\ Len(outbox) \in Nat
  BY SMT DEF TypeInv
<1>1. CASE outbox' = outbox
  BY <1>0, <1>1, SMT
<1>2. ASSUME TargetReceives PROVE Len(outbox') <= Len(outbox)
  <2>1. outbox' = [outbox EXCEPT ![1].got = TRUE]
    BY <1>2, Zenon DEF TargetReceives
  <2> QED
    BY <1>0, <2>1, SMT
<1>3. ASSUME Report PROVE Len(outbox') <= Len(outbox)
  <2>1. outbox # <<>> /\ outbox' = Tail(outbox)
    BY <1>3, Zenon DEF Report, ReportSent
  <2> QED
    BY <1>0, <2>1, SMT
<1>4. ASSUME NEW n \in EventThreads, NEW command \in DOMAIN SendingState, NEW segment,
             NEW accepted, NEW refused, pc[n] \in Engaged,
             StatesAt(pc[n]) = {SendingState[command]},
             Send(n, command, segment, accepted, refused), outbox' # outbox
      PROVE  \E due, m :
               /\ due \in DOMAIN SendingState
               /\ server.state = SendingState[due]
               /\ m.command = due
               /\ outbox' = Append(outbox, m)
  <2> DEFINE m == [command |-> command, segment |-> segment, tag |-> starts, got |-> FALSE]
  <2>1. server.state = SendingState[command]
    BY <1>4, Zenon DEF ThreadsInv
  <2>2. outbox' = Append(outbox, m)
    BY <1>4, Zenon DEF Send
  <2>3. m.command = command
    BY SMT
  <2> QED
    BY <2>1, <2>2, <2>3
<1>5. ASSUME NEW n \in EventThreads, outbox' # outbox,
             UnicastHandshake(n) \/ UnicastNextSegment(n) \/ RequestTargetForBootload(n)
      PROVE  \E due, m :
               /\ due \in DOMAIN SendingState
               /\ server.state = SendingState[due]
               /\ m.command = due
               /\ outbox' = Append(outbox, m)
  <2>1. /\ DOMAIN SendingState = {"HANDSHAKE", "SEGMENT", "BOOTLOAD"}
        /\ StatesAt("sendHandshake") = {SendingState["HANDSHAKE"]}
        /\ StatesAt("sendSegment") = {SendingState["SEGMENT"]}
        /\ StatesAt("sendBootload") = {SendingState["BOOTLOAD"]}
        /\ {"sendHandshake", "sendSegment", "sendBootload"} \subseteq Engaged
    BY SMT DEF SendingState, StatesAt, Engaged, Labels
  <2>2. CASE UnicastHandshake(n)
    <3>1. /\ pc[n] = "sendHandshake"
          /\ Send(n, "HANDSHAKE", 0, "handshakeSent", "imageSendFailed")
      BY <2>2, Zenon DEF UnicastHandshake
    <3>2. "HANDSHAKE" \in DOMAIN SendingState /\ pc[n] \in Engaged
      BY <2>1, <3>1
    <3> QED
      BY <1>4, <1>5, <2>1, <3>1, <3>2
  <2>3. CASE UnicastNextSegment(n)
    <3>1. /\ pc[n] = "sendSegment"
          /\ Send(n, "SEGMENT", server.nextSegment, "segmentSent", "imageSendFailed")
      BY <2>3, Zenon DEF UnicastNextSegment
    <3>2. "SEGMENT" \in DOMAIN SendingState /\ pc[n] \in Engaged
      BY <2>1, <3>1
    <3> QED
      BY <1>4, <1>5, <2>1, <3>1, <3>2
  <2>4. CASE RequestTargetForBootload(n)
    <3>1. /\ pc[n] = "sendBootload"
          /\ Send(n, "BOOTLOAD", 0, "bootloadSent", "bootloadSendFailed")
      BY <2>4, Zenon DEF RequestTargetForBootload
    <3>2. "BOOTLOAD" \in DOMAIN SendingState /\ pc[n] \in Engaged
      BY <2>1, <3>1
    <3> QED
      BY <1>4, <1>5, <2>1, <3>1, <3>2
  <2> QED
    BY <1>5, <2>2, <2>3, <2>4
<1>6. ASSUME ~TargetReceives, ~Report, outbox' # outbox
      PROVE  \E n \in EventThreads :
               UnicastHandshake(n) \/ UnicastNextSegment(n) \/ RequestTargetForBootload(n)
  BY <1>6, Zenon DEF Next, Resting, vars, Initiate, AbortCurrentProcess, Callbacks,
                     MessageSentCallback, IncomingMessageCallback, TimerExpires, TargetAnswers,
                     EventThreadStep, CreateTimer, CheckIdle, PollTimer, ReadTimer, EventHandler,
                     DataUnderflow, SetPending, CountAndSchedule, world
<1> QED
  BY <1>1, <1>2, <1>3, <1>5, <1>6, Zenon

LEMMA LastSentIsDue ==
  ASSUME TypeInv, ThreadsInv, [Next]_vars, Len(outbox') > Len(outbox)
  PROVE  server.state = SendingState[outbox'[Len(outbox')].command]
<1>1. outbox \in Seq(Outgoing) /\ outbox' \in Seq(Outgoing)
  BY TypeStep, Zenon DEF TypeInv
<1>2. Len(outbox) \in Nat /\ Len(outbox') \in Nat
  BY <1>1, LenNat, Zenon
<1>3. ~(Len(outbox') <= Len(outbox))
  BY <1>2, SMT
<1>4. PICK command, m :
        /\ command \in DOMAIN SendingState
        /\ server.state = SendingState[command]
        /\ m.command = command
        /\ outbox' = Append(outbox, m)
  BY <1>3, SendsInTurn, Zenon
<1>5. outbox'[Len(outbox')] = m
  BY <1>1, <1>4, SMT
<1> QED
  BY <1>4, <1>5, Zenon

(* Nothing is sent out of turn: for no process that is over, by no thread  *)
(* that outlived its process, and no kind of message but the one that is   *)
(* due, for any number of processes, aborts and early restarts, when no    *)
(* callback and no abort gets in while an event thread is at work          *)
(* (ota-unicast-bootloader-server.c:68-180, 627-740).                      *)
THEOREM SentInTurnHolds == "during handler" \notin Races => (Spec => SentInTurn)
<1> SUFFICES ASSUME "during handler" \notin Races PROVE Spec => SentInTurn
  OBVIOUS
<1>1. TypeInv /\ ControlInv /\ [Next]_vars => ControlInv'
  BY ControlStep
<1>2. ASSUME TypeInv, ControlInv, [Next]_vars, Len(outbox') > Len(outbox)
      PROVE  server.state = SendingState[outbox'[Len(outbox')].command]
  BY <1>2, LastSentIsDue, Zenon DEF ControlInv
<1>3. TypeInv /\ ControlInv /\ [Next]_vars
        => [Len(outbox') > Len(outbox) =>
              server.state = SendingState[outbox'[Len(outbox')].command]]_vars
  BY <1>2
<1> QED
  BY <1>1, <1>3, TypeInit, TypeStep, ControlInit, PTL DEF Spec, SentInTurn
=============================================================================
