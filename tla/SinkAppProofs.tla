---------------------------- MODULE SinkAppProofs ----------------------------
(***************************************************************************)
(* The sensor sink drives the OTA server as OtaServer allows, and a        *)
(* distribution that succeeds has delivered the bytes of one image.        *)
(***************************************************************************)
EXTENDS SinkApp, OtaServerSafety

-----------------------------------------------------------------------------
(* The steps of the application with the server are steps of the server,   *)
(* or none.                                                                *)
LEMMA SinkStepServes == [SinkNext]_sinkVars => [Next]_vars
<1> SUFFICES ASSUME [SinkNext]_sinkVars PROVE [Next]_vars
  OBVIOUS
<1>1. CASE UNCHANGED sinkVars
  BY <1>1, Zenon DEF sinkVars
<1>2. CASE Resting
  BY <1>2, Zenon DEF Next
<1>3. CASE LoadGblFile \/ Exit
  BY <1>3, Zenon DEF LoadGblFile, Exit
<1>4. CASE ~server.asserted /\ (Distribute \/ RequestBootload)
  <2>1. "image" \in ProcessKinds /\ "bootload" \in ProcessKinds
    BY DEF ProcessKinds
  <2> QED
    BY <1>4, <2>1, Zenon DEF Distribute, RequestBootload, Next
<1>5. CASE ~server.asserted /\ (SinkCallbacks \/ SinkTargetReceives \/ SinkReport \/ TargetAnswers)
  BY <1>5, Zenon DEF SinkCallbacks, SinkTargetReceives, SinkReport, Next
<1>6. ASSUME ~server.asserted, NEW n \in EventThreads, SinkEventThreadStep(n) \/ SinkTimerExpires(n)
      PROVE  Next
  <2>1. EventThreadStep(n) \/ TimerExpires(n)
    BY <1>6, Zenon DEF SinkEventThreadStep, SinkTimerExpires, SendSegment, SendOther, NoSegment,
                EventThreadStep
  <2> QED
    BY <1>6, <2>1, Zenon DEF Next
<1> QED
  BY <1>1, <1>2, <1>3, <1>4, <1>5, <1>6, Zenon DEF SinkNext

(* The application adds nothing to what the server may do: all that is     *)
(* proved of the server holds with the application that drives it          *)
(* (app_cli.cpp, app_process.c:121-219).                                   *)
THEOREM SinkServes == SinkSpec => Spec
<1>1. SinkInit => Init
  BY DEF SinkInit
<1> QED
  BY <1>1, SinkStepServes, PTL DEF SinkSpec, Spec

-----------------------------------------------------------------------------
(* The kinds of steps, by what they do to the image and to the messages.   *)

(* Between processes a file may be loaded; the image is freed at any time. *)
Loads ==
  /\ gbl_image' \in Images \cup {NoImage}
  /\ gbl_image' = NoImage \/ server.state = "IDLE"
  /\ UNCHANGED <<vars, cargo, flash>>

(* A process is initiated.                                                 *)
Starts ==
  /\ \E kind \in ProcessKinds : Initiate(kind)
  /\ flash' = NoBytes
  /\ UNCHANGED <<gbl_image, cargo>>

(* The NCP takes a message with its bytes.                                 *)
Takes(m, bytes) ==
  /\ outbox' = Append(outbox, m) /\ cargo' = Append(cargo, bytes)
  /\ m.tag = starts
  /\ IF m.command = "SEGMENT"
     THEN /\ gbl_image # NoImage /\ server.state # "IDLE"
          /\ m.segment \in 0..(TotalSegments - 1)
          /\ bytes = SegmentBytes(gbl_image, m.segment)
     ELSE bytes = NoBytes
  /\ UNCHANGED <<gbl_image, flash, received, starts>>

(* Nothing happens to the messages.                                        *)
LeavesThem == UNCHANGED <<appVars, outbox, received, starts>>

LEMMA SinkKinds ==
  ASSUME IInv, CargoInv, ~LoadAnyTime, [SinkNext]_sinkVars
  PROVE  \/ Loads \/ Starts \/ LeavesThem \/ SinkTargetReceives \/ SinkReport
         \/ \E m, bytes : Takes(m, bytes)
<1>0. /\ server \in Globals /\ server.nextSegment \in Nat /\ TotalSegments \in Nat \ {0}
      /\ gbl_image \in Images \cup {NoImage}
  BY Constants, Zenon DEF IInv, TypeInv, TypeOK, Globals, CargoInv
<1>1. CASE UNCHANGED sinkVars \/ (Resting /\ UNCHANGED appVars)
  BY <1>1, Zenon DEF sinkVars, vars, world, Resting, LeavesThem
<1>2. CASE LoadGblFile \/ Exit
  <2>1. Loads
    BY <1>0, <1>2, Zenon DEF LoadGblFile, Exit, free_gbl_image, Loads
  <2> QED BY <2>1
<1>3. CASE Distribute \/ RequestBootload
  <2>1. "image" \in ProcessKinds /\ "bootload" \in ProcessKinds
    BY DEF ProcessKinds
  <2>2. Starts
    BY <1>3, <2>1, Zenon DEF Distribute, RequestBootload, Starts
  <2> QED BY <2>2
<1>4. CASE SinkCallbacks \/ (TargetAnswers /\ UNCHANGED appVars)
  <2>1. LeavesThem
    BY <1>4, Zenon DEF SinkCallbacks, Callbacks, MessageSentCallback, IncomingMessageCallback,
                       TargetAnswers, LeavesThem
  <2> QED BY <2>1
<1>5. ASSUME NEW n \in EventThreads, SinkTimerExpires(n) \/ NoSegment(n) PROVE LeavesThem
  BY <1>5, Zenon DEF SinkTimerExpires, TimerExpires, NoSegment, DataUnderflow, world, LeavesThem
<1>6. ASSUME NEW n \in EventThreads, UNCHANGED appVars,
             \/ CreateTimer(n) \/ CheckIdle(n) \/ PollTimer(n) \/ ReadTimer(n)
             \/ EventHandler(n) \/ SetPending(n) \/ CountAndSchedule(n)
      PROVE  LeavesThem
  BY <1>6, Zenon DEF CreateTimer, CheckIdle, PollTimer, ReadTimer, EventHandler, SetPending,
                     CountAndSchedule, world, LeavesThem
<1>7. ASSUME NEW n \in EventThreads, NEW command \in Commands, NEW segment, NEW accepted,
             NEW refused, NEW bytes, Send(n, command, segment, accepted, refused), Loaded(bytes),
             UNCHANGED <<gbl_image, flash>>,
             IF command = "SEGMENT"
             THEN /\ gbl_image # NoImage /\ server.state # "IDLE"
                  /\ segment \in 0..(TotalSegments - 1)
                  /\ bytes = SegmentBytes(gbl_image, segment)
             ELSE bytes = NoBytes
      PROVE  LeavesThem \/ \E m, b : Takes(m, b)
  <2> DEFINE m == [command |-> command, segment |-> segment, tag |-> starts, got |-> FALSE]
  <2>0. m.command = command /\ m.segment = segment /\ m.tag = starts
    OBVIOUS
  <2> HIDE DEF m
  <2>1. CASE outbox' = outbox
    <3>1. cargo' = cargo
      BY <1>7, <2>1, Zenon DEF Loaded
    <3> QED
      BY <1>7, <2>1, <3>1, Zenon DEF Send, LeavesThem, appVars
  <2>2. CASE outbox' = Append(outbox, m)
    <3>1. Append(outbox, m) # outbox
      <4>1. outbox \in Seq(Outgoing)
        BY DEF IInv, TypeInv
      <4> QED
        BY <4>1, SMT
    <3>2. cargo' = Append(cargo, bytes)
      BY <1>7, <2>2, <3>1, Zenon DEF Loaded
    <3>3. UNCHANGED <<received, starts>>
      BY <1>7, Zenon DEF Send
    <3>4. Takes(m, bytes)
      BY <1>7, <2>0, <2>2, <3>2, <3>3, Zenon DEF Takes
    <3> QED
      BY <3>4, Zenon
  <2>3. outbox' = outbox \/ outbox' = Append(outbox, m)
    BY <1>7, Zenon DEF Send, m
  <2> QED
    BY <2>1, <2>2, <2>3, Zenon
<1>8. ASSUME NEW n \in EventThreads, SendSegment(n) PROVE LeavesThem \/ \E m, b : Takes(m, b)
  <2>1. server.state = "SEGMENT_INTERVAL"
    <3>1. pc[n] = "sendSegment"
      BY <1>8 DEF SendSegment, UnicastNextSegment
    <3>2. pc[n] \in Engaged /\ StatesAt(pc[n]) = {"SEGMENT_INTERVAL"}
      BY <3>1, SMT DEF Engaged, Labels, StatesAt
    <3> QED
      BY <3>2, Zenon DEF IInv, ControlInv, ThreadsInv
  <2>2. server.state # "IDLE" /\ server.state \in ImageDistributionStates
    BY <2>1 DEF ImageDistributionStates
  <2>3. server.nextSegment \in 0..(TotalSegments - 1)
    <3>1. server.nextSegment < TotalSegments
      BY <2>2, Zenon DEF IInv, PlaceInv, PositionInv
    <3> QED
      BY <1>0, <3>1, SMT
  <2>4. NextSegmentBytes = SegmentBytes(gbl_image, server.nextSegment)
    BY Zenon DEF NextSegmentBytes, GetImageSegment, SegmentBytes
  <2>5. "SEGMENT" \in Commands
    BY DEF Commands
  <2>6. /\ gbl_image # NoImage /\ UNCHANGED <<gbl_image, flash>> /\ Loaded(NextSegmentBytes)
        /\ Send(n, "SEGMENT", server.nextSegment, "segmentSent", "imageSendFailed")
    BY <1>8, Zenon DEF SendSegment, UnicastNextSegment
  <2> QED
    BY <1>7, <2>2, <2>3, <2>4, <2>5, <2>6
<1>9. ASSUME NEW n \in EventThreads, SendOther(n) PROVE LeavesThem \/ \E m, b : Takes(m, b)
  <2>1. Loaded(NoBytes) /\ UNCHANGED <<gbl_image, flash>>
    BY <1>9 DEF SendOther
  <2>2. /\ "HANDSHAKE" \in Commands /\ "HANDSHAKE" # "SEGMENT"
        /\ "BOOTLOAD" \in Commands /\ "BOOTLOAD" # "SEGMENT"
    BY DEF Commands
  <2>3. CASE Send(n, "HANDSHAKE", 0, "handshakeSent", "imageSendFailed")
    BY <1>7, <2>1, <2>2, <2>3
  <2>4. CASE Send(n, "BOOTLOAD", 0, "bootloadSent", "bootloadSendFailed")
    BY <1>7, <2>1, <2>2, <2>4
  <2> QED
    BY <1>9, <2>3, <2>4, Zenon DEF SendOther, UnicastHandshake, RequestTargetForBootload
<1> QED
  BY <1>1, <1>2, <1>3, <1>4, <1>5, <1>6, <1>8, <1>9, Zenon DEF SinkNext, SinkEventThreadStep

-----------------------------------------------------------------------------
(* The last element of a sequence.                                         *)
LEMMA LastAppended ==
  ASSUME NEW S, NEW q \in Seq(S), NEW x
  PROVE  Append(q, x)[Len(Append(q, x))] = x
BY SMT

(* All segments up to the last one, and that one.                          *)
LEMMA UpToTheLast ==
  ASSUME NEW first \in Nat, NEW next \in Nat, NEW total \in Nat \ {0}, NEW got,
         first <= next, next = total - 1, next \in got,
         \A k \in first..(next - 1) : k \in got
  PROVE  first < total /\ \A n \in first..(total - 1) : n \in got
<1>1. first < total
  BY SMT
<1>2. \A n \in first..(total - 1) : n \in first..(next - 1) \/ n = next
  BY SMTT(60)
<1> QED
  BY <1>1, <1>2, Zenon

LEMMA LastInRange ==
  ASSUME NEW first \in Nat, NEW total \in Nat \ {0}, first < total
  PROVE  first \in first..(total - 1)
BY SMT

(* A message that is taken carries its bytes.                              *)
LEMMA CargoStep ==
  ASSUME IInv, CargoInv,
         \/ Loads \/ Starts \/ LeavesThem \/ SinkTargetReceives \/ SinkReport
         \/ \E m, bytes : Takes(m, bytes)
  PROVE  CargoInv'
<1>0. /\ gbl_image \in Images \cup {NoImage}
      /\ cargo \in Seq(Cargos) /\ Len(cargo) = Len(outbox)
      /\ outbox \in Seq(Outgoing)
  BY DEF CargoInv, IInv, TypeInv
<1>1. CASE Loads \/ Starts \/ LeavesThem
  <2>1. cargo' = cargo /\ outbox' = outbox /\ gbl_image' \in Images \cup {NoImage}
    BY <1>0, <1>1, Zenon DEF Loads, Starts, LeavesThem, appVars, vars, world, Initiate
  <2> QED
    BY <1>0, <2>1, Zenon DEF CargoInv
<1>2. ASSUME NEW m, NEW bytes, Takes(m, bytes) PROVE CargoInv'
  <2>1. bytes \in Cargos
    <3>0. /\ NoBytes \in Cargos
          /\ \A image \in Images, n \in 0..(TotalSegments - 1) : SegmentBytes(image, n) \in Cargos
      BY SMT DEF Cargos
    <3>1. CASE m.command = "SEGMENT"
      BY <1>0, <1>2, <3>0, <3>1, ZenonT(60) DEF Takes
    <3>2. CASE m.command # "SEGMENT"
      BY <1>2, <3>0, <3>2, Zenon DEF Takes
    <3> QED
      BY <3>1, <3>2
  <2>2. outbox' = Append(outbox, m) /\ cargo' = Append(cargo, bytes) /\ gbl_image' = gbl_image
    BY <1>2, Zenon DEF Takes
  <2>3. cargo' \in Seq(Cargos) /\ Len(cargo') = Len(cargo) + 1
    BY <1>0, <2>1, <2>2, SMT
  <2>4. Len(outbox') = Len(outbox) + 1
    BY <1>0, <2>2, SMT
  <2> QED
    BY <1>0, <2>2, <2>3, <2>4, Zenon DEF CargoInv
<1>3. CASE SinkTargetReceives
  <2>1. cargo' = cargo /\ gbl_image' = gbl_image /\ outbox' = [outbox EXCEPT ![1].got = TRUE]
    BY <1>3, Zenon DEF SinkTargetReceives, TargetReceives
  <2>2. Len(outbox') = Len(outbox)
    BY <1>0, <2>1, SMT
  <2> QED
    BY <1>0, <2>1, <2>2, Zenon DEF CargoInv
<1>4. CASE SinkReport
  <2>1. outbox # <<>> /\ outbox' = Tail(outbox) /\ cargo' = Tail(cargo) /\ gbl_image' = gbl_image
    BY <1>4, Zenon DEF SinkReport, Report, ReportSent
  <2>2. cargo # <<>>
    BY <1>0, <2>1, SMT
  <2>3. /\ Tail(outbox) \in Seq(Outgoing) /\ Len(Tail(outbox)) = Len(outbox) - 1
        /\ Tail(cargo) \in Seq(Cargos) /\ Len(Tail(cargo)) = Len(cargo) - 1
    BY <1>0, <2>1, <2>2, SMT
  <2> QED
    BY <1>0, <2>1, <2>3, Zenon DEF CargoInv
<1> QED
  BY <1>1, <1>2, <1>3, <1>4

(* What follows the first element, in two sequences of one length.         *)
LEMMA TailElements ==
  ASSUME NEW S, NEW T, NEW q \in Seq(S), NEW p \in Seq(T), Len(p) = Len(q), q # <<>>
  PROVE  \A i \in DOMAIN Tail(q) :
           i + 1 \in DOMAIN q /\ Tail(q)[i] = q[i + 1] /\ Tail(p)[i] = p[i + 1]
<1>1. p # <<>>
  BY SMT
<1>2. \A i \in DOMAIN Tail(q) :
        i + 1 \in DOMAIN q /\ Tail(q)[i] = q[i + 1] /\ i \in DOMAIN Tail(p)
  BY <1>1, SMTT(60)
<1>3. \A i \in DOMAIN Tail(p) : Tail(p)[i] = p[i + 1]
  BY <1>1, SMT
<1> QED
  BY <1>2, <1>3, Zenon

(* The bytes of a segment.                                                 *)
LEMMA SegmentBytesAre ==
  ASSUME NEW image, NEW n
  PROVE  /\ DOMAIN SegmentBytes(image, n) = SegmentStart(n)..SegmentEnd(n, ImageSize)
         /\ \A k \in DOMAIN SegmentBytes(image, n) : SegmentBytes(image, n)[k] = <<image, k>>
BY DEF SegmentBytes

(* The bytes of a message, when it is of the current process.              *)
Carries(image, m, bytes) ==
  m.tag = starts =>
    IF m.command = "SEGMENT"
    THEN image \in Images /\ bytes = SegmentBytes(image, m.segment)
    ELSE bytes = NoBytes

LEMMA FromImageParts ==
  ASSUME NEW image
  PROVE  FromImage(image) <=>
           /\ server.state # "IDLE" => gbl_image \in {image, NoImage}
           /\ \A i \in DOMAIN outbox : Carries(image, outbox[i], cargo[i])
           /\ \A k \in DOMAIN flash : flash[k] = <<image, k>>
           /\ received # {} => image \in Images
BY Zenon DEF FromImage, Carries

(* A new process takes the image that is loaded.                           *)
LEMMA OneImageStarts ==
  ASSUME IInv, IInv', CargoInv, Starts
  PROVE  OneImageInv'
<1>1. PICK kind \in ProcessKinds : Initiate(kind)
  BY DEF Starts
<1>2. /\ starts' = starts + 1 /\ received' = {} /\ outbox' = outbox
      /\ flash' = NoBytes /\ gbl_image' = gbl_image /\ cargo' = cargo
  BY <1>1, Zenon DEF Starts, Initiate
<1>3. \A i \in DOMAIN outbox' : outbox'[i].tag # starts'
  <2> SUFFICES ASSUME NEW i \in DOMAIN outbox PROVE outbox[i].tag # starts + 1
    BY <1>2
  <2>1. starts \in Nat
    BY Constants, SMT DEF IInv, TypeInv, TypeOK
  <2> DEFINE S == SentMessages(server, starts)
  <2>2. outbox[i] \in S
    <3>1. outbox \in Seq(S)
      BY DEF IInv, PlaceInv, MessagesInv
    <3> HIDE DEF S
    <3> QED
      BY <3>1, SeqElement
  <2>3. outbox[i] \in Outgoing /\ outbox[i].tag <= starts
    BY <2>2, Zenon DEF SentMessages, SentBy
  <2>4. outbox[i].tag \in Nat
    BY <2>3, SMT DEF Outgoing
  <2> QED
    BY <2>1, <2>3, <2>4, SMT
<1>4. gbl_image \in Images \cup {NoImage}
  BY DEF CargoInv
<1>5. DOMAIN flash' = {}
  BY <1>2 DEF NoBytes
<1> DEFINE image == gbl_image
<1>6. FromImage(image)'
  BY <1>2, <1>3, <1>5, Zenon DEF FromImage
<1> QED
  BY <1>4, <1>6, <1>2, Zenon DEF OneImageInv

(* Within a process, the bytes on their way and those the target has       *)
(* stored stay those of the image.                                         *)
LEMMA FromImageStays ==
  ASSUME IInv, CargoInv, NEW image, FromImage(image),
         starts' = starts, server.state = "IDLE" => server'.state = "IDLE",
         \/ Loads \/ LeavesThem \/ SinkTargetReceives \/ SinkReport
         \/ \E m, bytes : Takes(m, bytes)
  PROVE  FromImage(image)'
<1>0. /\ server.state # "IDLE" => gbl_image \in {image, NoImage}
      /\ \A i \in DOMAIN outbox : Carries(image, outbox[i], cargo[i])
      /\ \A k \in DOMAIN flash : flash[k] = <<image, k>>
      /\ received # {} => image \in Images
  BY FromImageParts, Zenon
<1>t. /\ gbl_image \in Images \cup {NoImage}
      /\ cargo \in Seq(Cargos) /\ Len(cargo) = Len(outbox)
      /\ outbox \in Seq(Outgoing)
  BY DEF CargoInv, IInv, TypeInv
<1>c. ASSUME NEW m, NEW bytes, Carries(image, m, bytes) PROVE Carries(image, m, bytes)'
  BY <1>c, Zenon DEF Carries
<1>p. ASSUME server'.state # "IDLE" => gbl_image' \in {image, NoImage},
             \A i \in DOMAIN outbox' : Carries(image, outbox'[i], cargo'[i]),
             \A k \in DOMAIN flash' : flash'[k] = <<image, k>>,
             received' # {} => image \in Images
      PROVE  FromImage(image)'
  BY <1>p, Zenon DEF FromImage, Carries
<1>1. CASE Loads
  <2>1. UNCHANGED <<server, outbox, cargo, flash, received>>
    BY <1>1, Zenon DEF Loads, vars, world
  <2>2. server'.state # "IDLE" => gbl_image' \in {image, NoImage}
    BY <1>1, <2>1, Zenon DEF Loads
  <2> QED
    BY <1>0, <1>p, <2>1, <2>2, Zenon
<1>2. CASE LeavesThem
  BY <1>0, <1>2, <1>p, Zenon DEF LeavesThem, appVars
<1>3. ASSUME NEW m, NEW bytes, Takes(m, bytes) PROVE FromImage(image)'
  <2>1. /\ outbox' = Append(outbox, m) /\ cargo' = Append(cargo, bytes) /\ m.tag = starts
        /\ UNCHANGED <<gbl_image, flash, received>>
    BY <1>3, Zenon DEF Takes
  <2>2. Carries(image, m, bytes)
    <3>1. CASE m.command = "SEGMENT"
      <4>1. /\ gbl_image # NoImage /\ server.state # "IDLE"
            /\ bytes = SegmentBytes(gbl_image, m.segment)
        BY <1>3, <3>1, Zenon DEF Takes
      <4>2. gbl_image = image /\ image \in Images
        BY <1>0, <1>t, <4>1, Zenon
      <4> QED
        BY <3>1, <4>1, <4>2, Zenon DEF Carries
    <3>2. CASE m.command # "SEGMENT"
      BY <1>3, <3>2, Zenon DEF Takes, Carries
    <3> QED
      BY <3>1, <3>2
  <2>3. \A i \in DOMAIN outbox' :
          \/ i \in DOMAIN outbox /\ outbox'[i] = outbox[i] /\ cargo'[i] = cargo[i]
          \/ outbox'[i] = m /\ cargo'[i] = bytes
    BY <1>t, <2>1, SMT
  <2>4. \A i \in DOMAIN outbox' : Carries(image, outbox'[i], cargo'[i])
    BY <1>0, <2>2, <2>3, Zenon
  <2> QED
    BY <1>0, <1>p, <2>1, <2>4, Zenon
<1>4. CASE SinkTargetReceives
  <2> DEFINE h == Head(outbox)
  <2>1. /\ outbox # <<>> /\ outbox' = [outbox EXCEPT ![1].got = TRUE] /\ cargo' = cargo
        /\ received' = IF h.command = "SEGMENT" /\ h.tag = starts
                       THEN received \cup {h.segment} ELSE received
        /\ UNCHANGED <<gbl_image, server>>
        /\ flash' = IF h.tag = starts
                    THEN [k \in DOMAIN flash \cup DOMAIN Head(cargo) |->
                            IF k \in DOMAIN Head(cargo) THEN Head(cargo)[k] ELSE flash[k]]
                    ELSE flash
    BY <1>4, Zenon DEF SinkTargetReceives, TargetReceives
  <2>2. Head(outbox) = outbox[1] /\ Head(cargo) = cargo[1] /\ 1 \in DOMAIN outbox
    BY <1>t, <2>1, SMT
  <2>3. \A i \in DOMAIN outbox' : Carries(image, outbox'[i], cargo'[i])
    <3> SUFFICES ASSUME NEW i \in DOMAIN outbox' PROVE Carries(image, outbox'[i], cargo[i])
      BY <2>1
    <3>1. i \in DOMAIN outbox /\ outbox[i] \in Outgoing
      BY <1>t, <2>1, SMT
    <3>2. /\ outbox'[i].tag = outbox[i].tag /\ outbox'[i].command = outbox[i].command
          /\ outbox'[i].segment = outbox[i].segment
      BY <2>1, <3>1, Zenon DEF Outgoing
    <3> QED
      BY <1>0, <3>1, <3>2, Zenon DEF Carries
  <2>4. Carries(image, h, Head(cargo))
    BY <1>0, <2>2, Zenon
  <2>5. h.tag = starts => \A k \in DOMAIN Head(cargo) : Head(cargo)[k] = <<image, k>>
    <3>1. ASSUME h.tag = starts, h.command = "SEGMENT", NEW k \in DOMAIN Head(cargo)
          PROVE  Head(cargo)[k] = <<image, k>>
      <4>1. Head(cargo) = SegmentBytes(image, h.segment)
        BY <2>4, <3>1, Zenon DEF Carries
      <4> QED
        BY <3>1, <4>1, SegmentBytesAre, ZenonT(60)
    <3>2. h.tag = starts /\ h.command # "SEGMENT" => DOMAIN Head(cargo) = {}
      <4>1. DOMAIN NoBytes = {}
        BY DEF NoBytes
      <4> QED
        BY <2>4, <4>1, Zenon DEF Carries
    <3> QED
      BY <3>1, <3>2, Zenon
  <2>6. \A k \in DOMAIN flash' : flash'[k] = <<image, k>>
    <3> HIDE DEF h
    <3>1. CASE h.tag = starts
      BY <1>0, <2>1, <2>5, <3>1, Zenon
    <3>2. CASE h.tag # starts
      BY <1>0, <2>1, <3>2, Zenon
    <3> QED
      BY <3>1, <3>2
  <2>7. received' # {} => image \in Images
    BY <1>0, <2>1, <2>4, Zenon DEF Carries
  <2> QED
    BY <1>0, <1>p, <2>1, <2>3, <2>6, <2>7, Zenon
<1>5. CASE SinkReport
  <2>1. /\ outbox # <<>> /\ outbox' = Tail(outbox) /\ cargo' = Tail(cargo)
        /\ UNCHANGED <<gbl_image, flash, server, received>>
    BY <1>5, Zenon DEF SinkReport, Report, ReportSent
  <2>2. \A i \in DOMAIN outbox' :
          i + 1 \in DOMAIN outbox /\ outbox'[i] = outbox[i + 1] /\ cargo'[i] = cargo[i + 1]
    <3>1. outbox # <<>>
      BY <2>1
    <3>2. \A i \in DOMAIN Tail(outbox) :
            /\ i + 1 \in DOMAIN outbox /\ Tail(outbox)[i] = outbox[i + 1]
            /\ Tail(cargo)[i] = cargo[i + 1]
      BY <1>t, <3>1, TailElements
    <3> QED
      BY <2>1, <3>2, Zenon
  <2>3. \A i \in DOMAIN outbox' : Carries(image, outbox'[i], cargo'[i])
    BY <1>0, <2>2, Zenon
  <2> QED
    BY <1>0, <1>p, <2>1, <2>3, Zenon
<1> QED
  BY <1>1, <1>2, <1>3, <1>4, <1>5

(* The target stores the bytes of every segment it receives.               *)
LEMMA StoredStep ==
  ASSUME IInv, CargoInv, OneImageInv, StoredBytes,
         \/ Loads \/ Starts \/ LeavesThem \/ SinkTargetReceives \/ SinkReport
         \/ \E m, bytes : Takes(m, bytes)
  PROVE  StoredBytes'
<1>1. CASE Starts
  <2>1. received' = {}
    BY <1>1, Zenon DEF Starts, Initiate
  <2> QED
    BY <2>1, Zenon DEF StoredBytes
<1>2. CASE Loads \/ LeavesThem \/ SinkReport \/ \E m, bytes : Takes(m, bytes)
  <2>1. received' = received /\ flash' = flash
    BY <1>2, Zenon DEF Loads, LeavesThem, appVars, SinkReport, Report, ReportSent, Takes, vars,
                       world
  <2> QED
    BY <2>1, Zenon DEF StoredBytes
<1>3. CASE SinkTargetReceives
  <2> DEFINE h == Head(outbox)
  <2>1. /\ outbox # <<>>
        /\ received' = IF h.command = "SEGMENT" /\ h.tag = starts
                       THEN received \cup {h.segment} ELSE received
        /\ flash' = IF h.tag = starts
                    THEN [k \in DOMAIN flash \cup DOMAIN Head(cargo) |->
                            IF k \in DOMAIN Head(cargo) THEN Head(cargo)[k] ELSE flash[k]]
                    ELSE flash
    BY <1>3, Zenon DEF SinkTargetReceives, TargetReceives
  <2>2. DOMAIN flash' = IF h.tag = starts THEN DOMAIN flash \cup DOMAIN Head(cargo)
                                          ELSE DOMAIN flash
    BY <2>1, Zenon
  <2>3. h.command = "SEGMENT" /\ h.tag = starts =>
          DOMAIN Head(cargo) = SegmentStart(h.segment)..SegmentEnd(h.segment, ImageSize)
    <3>1. PICK image \in Images \cup {NoImage} : FromImage(image)
      BY DEF OneImageInv
    <3>2. Head(outbox) = outbox[1] /\ Head(cargo) = cargo[1] /\ 1 \in DOMAIN outbox
      <4>1. /\ cargo \in Seq(Cargos) /\ Len(cargo) = Len(outbox)
            /\ outbox \in Seq(Outgoing)
        BY DEF CargoInv, IInv, TypeInv
      <4> QED
        BY <2>1, <4>1, SMT
    <3>3. Carries(image, h, Head(cargo))
      BY <3>1, <3>2, FromImageParts, Zenon
    <3>4. h.command = "SEGMENT" /\ h.tag = starts =>
            Head(cargo) = SegmentBytes(image, h.segment)
      BY <3>3, Zenon DEF Carries
    <3> HIDE DEF h
    <3>5. DOMAIN SegmentBytes(image, h.segment)
            = SegmentStart(h.segment)..SegmentEnd(h.segment, ImageSize)
      BY SegmentBytesAre
    <3> QED
      BY <3>4, <3>5, Zenon
  <2> HIDE DEF h
  <2> SUFFICES ASSUME NEW n \in received'
               PROVE  SegmentStart(n)..SegmentEnd(n, ImageSize) \subseteq DOMAIN flash'
    BY DEF StoredBytes
  <2>4. CASE n \in received
    BY <2>2, <2>4, Zenon DEF StoredBytes
  <2>5. CASE n \notin received
    <3>1. h.command = "SEGMENT" /\ h.tag = starts /\ n = h.segment
      BY <2>1, <2>5, Zenon
    <3> QED
      BY <2>2, <2>3, <3>1, Zenon
  <2> QED
    BY <2>4, <2>5
<1> QED
  BY <1>1, <1>2, <1>3

(* A distribution succeeds with its last segment, and has skipped none.    *)
LEMMA ReceivedAllStep ==
  ASSUME "during handler" \notin Races, ConformingTarget, IInv, [Next]_vars, ReceivedAll
  PROVE  ReceivedAll'
<1>1. CASE \E kind \in ProcessKinds : Initiate(kind)
  <2>1. server'.state # "IDLE"
    BY <1>1, InitiateRuns DEF IInv, TypeInv
  <2> QED
    BY <2>1, Zenon DEF ReceivedAll
<1>2. CASE ~\E kind \in ProcessKinds : Initiate(kind)
  <2> SUFFICES ASSUME completions' # <<>>, server'.state = "IDLE",
                      completions'[Len(completions')] = [kind |-> "image", status |-> "SUCCESS"]
               PROVE  \E first \in asked' :
                        /\ first < TotalSegments
                        /\ \A n \in first..(TotalSegments - 1) : n \in received'
    BY Zenon DEF ReceivedAll
  <2>0. /\ starts' = starts /\ received \subseteq received' /\ asked \subseteq asked'
        /\ Progress
    BY <1>2, StaysInProcess
  <2>1. /\ server.state \in ServerStates /\ completions \in Seq(Completion)
        /\ asked \subseteq Nat /\ TotalSegments \in Nat \ {0} /\ server.nextSegment \in Nat
    BY Constants, Zenon DEF IInv, TypeInv, TypeOK, Globals
  <2>2. CASE server.state = "IDLE"
    <3>1. completions' = completions
      BY <2>0, <2>2, IdleIsOutside, Zenon DEF Progress, StaysOn, Ended, Agreed, Moved
    <3>2. PICK first \in asked : /\ first < TotalSegments
                                 /\ \A n \in first..(TotalSegments - 1) : n \in received
      BY <2>2, <3>1, Zenon DEF ReceivedAll
    <3> QED
      BY <2>0, <3>2, Zenon
  <2>3. CASE server.state # "IDLE"
    <3>1. Ended
      <4>1. "IDLE" # "SEGMENT_INTERVAL" /\ "IDLE" \in ServerStates
        BY DEF ServerStates
      <4>2. ~StaysOn
        BY <2>1, <2>3, <4>1, Kinds, Zenon DEF StaysOn
      <4> QED
        BY <2>0, <4>1, <4>2, Zenon DEF Progress, Agreed, Moved
    <3>2. PICK status \in ProcessStatuses :
            /\ completions' =
                 Append(completions, [kind |-> ProcessOf(server.state), status |-> status])
            /\ ProcessOf(server.state) = "image" /\ status = "SUCCESS" => HasImage
      BY <3>1 DEF Ended
    <3>3. completions'[Len(completions')] = [kind |-> ProcessOf(server.state), status |-> status]
      BY <2>1, <3>2, LastAppended, Zenon
    <3>4. HasImage
      <4>1. /\ [kind |-> "image", status |-> "SUCCESS"].kind = "image"
            /\ [kind |-> "image", status |-> "SUCCESS"].status = "SUCCESS"
            /\ [kind |-> ProcessOf(server.state), status |-> status].kind
                 = ProcessOf(server.state)
            /\ [kind |-> ProcessOf(server.state), status |-> status].status = status
        OBVIOUS
      <4> QED
        BY <3>2, <3>3, <4>1, Zenon
    <3>5. PICK first \in asked : /\ first <= server.nextSegment
                                 /\ \A k \in first..(server.nextSegment - 1) : k \in received
      BY <3>4, Zenon DEF HasImage, IInv, PlaceInv, PositionInv, NoSegmentSkipped
    <3>6. first < TotalSegments /\ \A n \in first..(TotalSegments - 1) : n \in received
      <4>1. first \in Nat
        BY <2>1
      <4> QED
        BY <2>1, <3>4, <3>5, <4>1, UpToTheLast DEF HasImage
    <3> QED
      BY <2>0, <3>6, Zenon
  <2> QED
    BY <2>2, <2>3
<1> QED
  BY <1>1, <1>2

-----------------------------------------------------------------------------
(* All of it together.                                                     *)
SinkInv == IInv /\ ImageInv

LEMMA SinkInvInit == SinkInit => SinkInv
<1> SUFFICES ASSUME SinkInit PROVE SinkInv
  OBVIOUS
<1>1. /\ Init /\ gbl_image = NoImage /\ cargo = <<>> /\ flash = NoBytes
      /\ outbox = <<>> /\ received = {} /\ completions = <<>> /\ server.state = "IDLE"
  BY SMT DEF SinkInit, Init
<1>2. IInv
  BY <1>1, IInvInit
<1>3. CargoInv
  BY <1>1, SMT DEF CargoInv
<1>4. OneImageInv
  <2>1. DOMAIN flash = {} /\ DOMAIN outbox = {}
    BY <1>1, SMT DEF NoBytes
  <2>2. FromImage(NoImage)
    BY <1>1, <2>1, Zenon DEF FromImage
  <2> QED
    BY <2>2, Zenon DEF OneImageInv
<1>5. StoredBytes /\ ReceivedAll
  BY <1>1, Zenon DEF StoredBytes, ReceivedAll
<1> QED
  BY <1>2, <1>3, <1>4, <1>5 DEF SinkInv, ImageInv

LEMMA SinkInvStep ==
  ASSUME "during handler" \notin Races, ConformingTarget, ~LoadAnyTime,
         SinkInv, [SinkNext]_sinkVars
  PROVE  SinkInv'
<1>0. IInv /\ CargoInv /\ OneImageInv /\ StoredBytes /\ ReceivedAll
  BY DEF SinkInv, ImageInv
<1>1. [Next]_vars
  BY SinkStepServes
<1>2. IInv' /\ ReceivedAll'
  BY <1>0, <1>1, IInvStep, ReceivedAllStep
<1>3. \/ Loads \/ Starts \/ LeavesThem \/ SinkTargetReceives \/ SinkReport
      \/ \E m, bytes : Takes(m, bytes)
  BY <1>0, SinkKinds
<1>4. CargoInv' /\ StoredBytes'
  BY <1>0, <1>3, CargoStep, StoredStep
<1>5. OneImageInv'
  <2>1. CASE Starts
    BY <1>0, <1>2, <2>1, OneImageStarts
  <2>2. CASE ~Starts
    <3>1. PICK image \in Images \cup {NoImage} : FromImage(image)
      BY <1>0 DEF OneImageInv
    <3>2. starts' = starts /\ (server.state = "IDLE" => server'.state = "IDLE")
      <4>1. CASE \E kind \in ProcessKinds : Initiate(kind)
        <5>1. starts' # starts
          BY <1>0, <4>1, InitiateRuns DEF IInv, TypeInv
        <5>2. ~LeavesThem /\ ~Loads /\ ~SinkTargetReceives /\ ~SinkReport
              /\ ~\E m, bytes : Takes(m, bytes)
          BY <5>1, Zenon DEF LeavesThem, Loads, vars, SinkTargetReceives, TargetReceives,
                      SinkReport, Report, ReportSent, Takes
        <5> QED
          BY <1>3, <2>2, <5>2
      <4>2. CASE ~\E kind \in ProcessKinds : Initiate(kind)
        BY <1>0, <1>1, <4>2, StaysInProcess
      <4> QED
        BY <4>1, <4>2
    <3>3. FromImage(image)'
      BY <1>0, <1>3, <2>2, <3>1, <3>2, FromImageStays
    <3> QED
      BY <3>3, Zenon DEF OneImageInv
  <2> QED
    BY <2>1, <2>2
<1> QED
  BY <1>2, <1>4, <1>5 DEF SinkInv, ImageInv

-----------------------------------------------------------------------------
(* Every byte from the start of a segment on is in that segment or in one  *)
(* that follows.                                                           *)
LEMMA BytesInSegments ==
  ASSUME NEW first \in Nat, NEW k \in SegmentStart(first)..(ImageSize - 1)
  PROVE  \E n \in first..(TotalSegments - 1) : k \in SegmentStart(n)..SegmentEnd(n, ImageSize)
<1> DEFINE P == PayloadLength
<1> DEFINE q == k \div P
<1> DEFINE r == k % P
<1>0. P \in Nat \ {0} /\ ImageSize \in Nat \ {0} /\ TotalSegments \in Nat \ {0}
  BY OtaAssumption, Constants
<1>1. first * P \in Nat /\ P * first = first * P /\ first * P = SegmentStart(first)
  BY <1>0, SMT DEF SegmentStart
<1>2. k \in Nat /\ first * P <= k /\ k < ImageSize
  <2> HIDE DEF P
  <2> QED
    BY <1>0, <1>1, SMT
<1>3. q \in Nat /\ r \in 0..(P - 1) /\ k = P * q + r
  BY <1>0, <1>2, DivMod
<1>4. ImageSize <= P * TotalSegments
  BY <1>0, TotalSegmentsHold DEF TotalSegments
<1> HIDE DEF P, q, r
<1>5. /\ \A a, b \in Nat : a <= b => P * a \in Nat /\ P * b \in Nat /\ P * a <= P * b
      /\ P * (q + 1) = P * q + P /\ P * q \in Nat /\ q * P = P * q
  <2>1. \A a, b \in Nat : a <= b => P * a \in Nat /\ P * b \in Nat /\ P * a <= P * b
    BY <1>0, Monotone
  <2>2. P * (q + 1) = P * q + P /\ P * q \in Nat /\ q * P = P * q
    BY <1>0, <1>3, SMT
  <2> QED
    BY <2>1, <2>2
<1>6. first <= q
  <2> SUFFICES ASSUME q + 1 <= first PROVE FALSE
    BY <1>3, SMT
  <2>1. P * (q + 1) <= P * first
    BY <1>3, <1>5
  <2> DEFINE pq == P * q
  <2> DEFINE pf == P * first
  <2>2. pq \in Nat /\ pf \in Nat /\ pq + P <= pf /\ pf <= k /\ k = pq + r
    BY <1>1, <1>2, <1>3, <1>5, <2>1
  <2> HIDE DEF pq, pf
  <2> QED
    BY <1>0, <1>3, <2>2, SMT
<1>7. q < TotalSegments
  <2> SUFFICES ASSUME TotalSegments <= q PROVE FALSE
    BY <1>0, <1>3, SMT
  <2>1. P * TotalSegments <= P * q /\ P * TotalSegments \in Nat
    BY <1>0, <1>3, <1>5
  <2> DEFINE pq == P * q
  <2> DEFINE pt == P * TotalSegments
  <2>2. pq \in Nat /\ pt \in Nat /\ pt <= pq /\ ImageSize <= pt /\ k = pq + r
    BY <1>3, <1>4, <1>5, <2>1
  <2> HIDE DEF pq, pt
  <2> QED
    BY <1>0, <1>2, <1>3, <2>2, SMT
<1>8. k \in SegmentStart(q)..SegmentEnd(q, ImageSize)
  <2> DEFINE start == SegmentStart(q)
  <2>1. start = P * q
    BY <1>5 DEF SegmentStart, P
  <2>2. SegmentEnd(q, ImageSize) = IF start + P - 1 >= ImageSize THEN ImageSize - 1
                                                                 ELSE start + P - 1
    BY DEF SegmentEnd, P
  <2>3. start \in Nat /\ k = start + r
    BY <1>3, <1>5, <2>1
  <2> HIDE DEF start
  <2>4. k \in start..SegmentEnd(q, ImageSize)
    BY <1>0, <1>2, <1>3, <2>2, <2>3, SMT
  <2> QED
    BY <2>4 DEF start
<1>9. q \in first..(TotalSegments - 1)
  BY <1>0, <1>3, <1>6, <1>7, SMT
<1> QED
  BY <1>8, <1>9, Zenon

(* When a distribution completes with SUCCESS, the target has stored the   *)
(* bytes of one loaded image, each where it belongs, from the segment it   *)
(* asked to start with up to the last byte: for every image size, payload  *)
(* length, number of processes and files, limits, losses, retries and      *)
(* images freed on the way, with a target that answers what it was sent    *)
(* and no file loaded while a process runs                                 *)
(* (app_process.c:191-219, ota-unicast-bootloader-server.c:452-503).       *)
THEOREM DeliveredImageHolds ==
  "during handler" \notin Races /\ ConformingTarget /\ ~LoadAnyTime
    => (SinkSpec => []DeliveredImage)
<1> SUFFICES ASSUME "during handler" \notin Races, ConformingTarget, ~LoadAnyTime
             PROVE  SinkSpec => []DeliveredImage
  OBVIOUS
<1>1. SinkInv /\ [SinkNext]_sinkVars => SinkInv'
  BY SinkInvStep
<1>2. SinkInv => DeliveredImage
  <2> SUFFICES ASSUME SinkInv, completions # <<>>, server.state = "IDLE",
                      completions[Len(completions)] = [kind |-> "image", status |-> "SUCCESS"]
               PROVE  \E first \in asked, image \in Images :
                        \A k \in SegmentStart(first)..(ImageSize - 1) :
                          k \in DOMAIN flash /\ flash[k] = <<image, k>>
    BY Zenon DEF DeliveredImage
  <2>1. PICK first \in asked :
          first < TotalSegments /\ \A n \in first..(TotalSegments - 1) : n \in received
    BY Zenon DEF SinkInv, ImageInv, ReceivedAll
  <2>2. first \in Nat /\ TotalSegments \in Nat \ {0}
    BY Constants DEF SinkInv, IInv, TypeInv
  <2>3. PICK image \in Images \cup {NoImage} : FromImage(image)
    BY DEF SinkInv, ImageInv, OneImageInv
  <2>4. image \in Images
    <3>1. first \in received
      <4>1. first \in first..(TotalSegments - 1)
        BY <2>1, <2>2, LastInRange
      <4> QED
        BY <2>1, <4>1, Zenon
    <3> QED
      BY <2>3, <3>1, FromImageParts, Zenon
  <2>5. ASSUME NEW k \in SegmentStart(first)..(ImageSize - 1)
        PROVE  k \in DOMAIN flash /\ flash[k] = <<image, k>>
    <3>1. PICK n \in first..(TotalSegments - 1) :
            k \in SegmentStart(n)..SegmentEnd(n, ImageSize)
      BY <2>2, BytesInSegments
    <3>2. k \in DOMAIN flash
      BY <2>1, <3>1, Zenon DEF SinkInv, ImageInv, StoredBytes
    <3> QED
      BY <2>3, <3>2, FromImageParts, Zenon
  <2> QED
    BY <2>4, <2>5, Zenon
<1> QED
  BY <1>1, <1>2, SinkInvInit, PTL DEF SinkSpec
=============================================================================
