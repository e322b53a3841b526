------------------------------- MODULE SinkApp -------------------------------
(***************************************************************************)
(* The sensor sink application (src/app) with the OTA server it drives.    *)
(*                                                                         *)
(* The command line runs in the main thread (main.cpp:95), one command     *)
(* after another, of the local session or of a telnet session.  It keeps   *)
(* one image in memory, gbl_image, that the server's event thread reads    *)
(* segment by segment through a callback.  This module adds that image,    *)
(* the bytes of each segment message and what the target stores of them    *)
(* to OtaServer; a byte is its image and its position in it.               *)
(*                                                                         *)
(* The command bootloader_unicast_distribute is given the size that        *)
(* load_gbl_file printed, and no file is loaded while a process runs       *)
(* unless LoadAnyTime: the code prevents neither.  malloc and fopen may    *)
(* fail, fread does not.                                                   *)
(***************************************************************************)
EXTENDS OtaServerRefinement

CONSTANTS
  Images,       \* GBL files of ImageSize bytes
  LoadAnyTime   \* TRUE: load_gbl_file also while a process runs

NoImage == "NULL"
Garbage == "garbage"

ASSUME SinkAssumption ==
  /\ NoImage \notin Images /\ Garbage \notin Images
  /\ LoadAnyTime \in BOOLEAN

VARIABLES
  gbl_image,   \* the loaded image, or NoImage
  cargo,       \* the image bytes of each message in outbox
  flash        \* the image bytes the target has stored, by position

appVars == <<gbl_image, cargo, flash>>
sinkVars == <<vars, appVars>>

Positions == 0..(ImageSize - 1)
NoBytes == [k \in {} |-> Garbage]

-----------------------------------------------------------------------------
(* The callback that hands a segment to the server: the bytes it puts      *)
(* into imageSegment.                                                      *)

\* Mutant: end - start bytes are copied.
LastByteMissing(startIndex, endIndex) ==
  [k \in startIndex..endIndex |-> IF k < endIndex THEN <<gbl_image, k>> ELSE <<Garbage, k>>]

GetImageSegment(startIndex, endIndex) == [k \in startIndex..endIndex |-> <<gbl_image, k>>]

(* unicastNextSegment: the bytes of the next segment of the message.       *)
NextSegmentBytes ==
  GetImageSegment(SegmentStart(server.nextSegment), SegmentEnd(server.nextSegment, ImageSize))

-----------------------------------------------------------------------------
(* Commands of the command line.                                           *)

free_gbl_image == gbl_image' = NoImage

(* load_gbl_file: a file that cannot be opened leaves the image as it is,  *)
(* one that does not fit into memory leaves none.                          *)
LoadGblFile ==
  /\ LoadAnyTime \/ (server.state = "IDLE" /\ Settled)
  /\ \/ gbl_image' \in Images
     \/ free_gbl_image
  /\ UNCHANGED <<vars, cargo, flash>>

(* The exit actions of the command line and of the local session.          *)
Exit ==
  /\ gbl_image # NoImage
  /\ free_gbl_image
  /\ UNCHANGED <<vars, cargo, flash>>

(* bootloader_unicast_distribute: "No GBL image was loaded!" without one.  *)
Distribute ==
  /\ gbl_image # NoImage
  /\ Initiate("image")
  /\ flash' = NoBytes
  /\ UNCHANGED <<gbl_image, cargo>>

RequestBootload ==
  /\ Initiate("bootload")
  /\ flash' = NoBytes
  /\ UNCHANGED <<gbl_image, cargo>>

-----------------------------------------------------------------------------
(* The steps of the server that touch the image or the messages.           *)

(* emberMessageSend copies the message; no other message carries bytes of  *)
(* the image.                                                              *)
Loaded(bytes) == cargo' = IF outbox' = outbox THEN cargo ELSE Append(cargo, bytes)

SendSegment(n) ==
  /\ gbl_image # NoImage
  /\ UnicastNextSegment(n)
  /\ Loaded(NextSegmentBytes)
  /\ UNCHANGED <<gbl_image, flash>>

SendOther(n) ==
  /\ UnicastHandshake(n) \/ RequestTargetForBootload(n)
  /\ Loaded(NoBytes)
  /\ UNCHANGED <<gbl_image, flash>>

NoSegment(n) ==
  /\ gbl_image = NoImage
  /\ DataUnderflow(n)
  /\ UNCHANGED appVars

SinkEventThreadStep(n) ==
  \/ SendSegment(n) \/ SendOther(n) \/ NoSegment(n)
  \/ /\ \/ CreateTimer(n) \/ CheckIdle(n) \/ PollTimer(n) \/ ReadTimer(n)
        \/ EventHandler(n) \/ SetPending(n) \/ CountAndSchedule(n)
     /\ UNCHANGED appVars

SinkCallbacks == Callbacks /\ UNCHANGED appVars

SinkTimerExpires(n) == TimerExpires(n) /\ UNCHANGED appVars

(* The target stores what it receives of the current process.              *)
SinkTargetReceives ==
  /\ TargetReceives
  /\ flash' = IF Head(outbox).tag = starts
              THEN [k \in DOMAIN flash \cup DOMAIN Head(cargo) |->
                      IF k \in DOMAIN Head(cargo) THEN Head(cargo)[k] ELSE flash[k]]
              ELSE flash
  /\ UNCHANGED <<gbl_image, cargo>>

SinkReport == Report /\ cargo' = Tail(cargo) /\ UNCHANGED <<gbl_image, flash>>

-----------------------------------------------------------------------------
SinkInit == Init /\ gbl_image = NoImage /\ cargo = <<>> /\ flash = NoBytes

SinkNext ==
  \/ /\ ~server.asserted
     /\ \/ LoadGblFile \/ Exit \/ Distribute \/ RequestBootload
        \/ SinkCallbacks
        \/ \E n \in EventThreads : SinkEventThreadStep(n) \/ SinkTimerExpires(n)
        \/ SinkTargetReceives \/ SinkReport
        \/ TargetAnswers /\ UNCHANGED appVars
  \/ Resting /\ UNCHANGED appVars

SinkSpec == SinkInit /\ [][SinkNext]_sinkVars

(* As in OtaServer; nobody has to type a command.                          *)
SinkFairSpec ==
  /\ SinkSpec
  /\ \A n \in EventThreads : WF_sinkVars(~server.asserted /\ SinkEventThreadStep(n))
  /\ \A n \in EventThreads : WF_sinkVars(~server.asserted /\ SinkTimerExpires(n))
  /\ WF_sinkVars(~server.asserted /\ SinkCallbacks)
  /\ WF_sinkVars(~server.asserted /\ SinkReport)

-----------------------------------------------------------------------------
(* Properties.                                                             *)

(* When a distribution completes with SUCCESS, the target holds the bytes  *)
(* of one loaded image, each where it belongs, from the segment it asked   *)
(* to start with up to the last byte: across retries, repeated segments,   *)
(* a last segment that is shorter, and images freed on the way             *)
(* (app_process.c:191-219, ota-unicast-bootloader-server.c:452-503).       *)
DeliveredImage ==
  completions # <<>>
    /\ completions[Len(completions)] = [kind |-> "image", status |-> "SUCCESS"]
    /\ server.state = "IDLE" =>
  \E first \in asked, image \in Images :
    \A k \in SegmentStart(first)..(ImageSize - 1) :
      k \in DOMAIN flash /\ flash[k] = <<image, k>>

-----------------------------------------------------------------------------
(* The strengthening of DeliveredImage.  What the segment messages carry:  *)
SegmentBytes(image, n) == [k \in SegmentStart(n)..SegmentEnd(n, ImageSize) |-> <<image, k>>]

Cargos == {NoBytes} \cup {SegmentBytes(image, n) : image \in Images, n \in 0..(TotalSegments - 1)}

(* ... each message of the NCP its bytes;                                  *)
CargoInv ==
  /\ gbl_image \in Images \cup {NoImage}
  /\ cargo \in Seq(Cargos) /\ Len(cargo) = Len(outbox)

(* ... all messages of the current process, and what the target has stored *)
(* of it, come from one image, which can only be freed while it runs;      *)
FromImage(image) ==
  /\ server.state # "IDLE" => gbl_image \in {image, NoImage}
  /\ \A i \in DOMAIN outbox : outbox[i].tag = starts =>
       IF outbox[i].command = "SEGMENT"
       THEN image \in Images /\ cargo[i] = SegmentBytes(image, outbox[i].segment)
       ELSE cargo[i] = NoBytes
  /\ \A k \in DOMAIN flash : flash[k] = <<image, k>>
  /\ received # {} => image \in Images

OneImageInv == \E image \in Images \cup {NoImage} : FromImage(image)

(* ... the target has stored every byte of every segment it received;      *)
StoredBytes ==
  \A n \in received : SegmentStart(n)..SegmentEnd(n, ImageSize) \subseteq DOMAIN flash

(* ... and it has received all of them when the distribution succeeded.    *)
ReceivedAll ==
  completions # <<>>
    /\ completions[Len(completions)] = [kind |-> "image", status |-> "SUCCESS"]
    /\ server.state = "IDLE" =>
  \E first \in asked :
    first < TotalSegments /\ \A n \in first..(TotalSegments - 1) : n \in received

ImageInv == CargoInv /\ OneImageInv /\ StoredBytes /\ ReceivedAll
=============================================================================
