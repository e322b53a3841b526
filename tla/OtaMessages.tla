----------------------------- MODULE OtaMessages -----------------------------
(***************************************************************************)
(* The over-the-air messages of the OTA server: their layout               *)
(* (ota-unicast-bootloader-protocol.h), the bytes of a segment in 32-bit   *)
(* arithmetic, and the delay that a bootload request asks for.             *)
(***************************************************************************)
EXTENDS ByteUtilities, Integers, Sequences

Wrap == 4294967296

-----------------------------------------------------------------------------
(* Layout.  Byte 0 is the frame control: the command, and above it the     *)
(* request flags or the status of a response; byte 1 is the image tag; a   *)
(* 32-bit number follows, the low byte first: the size of the image, the   *)
(* index of a segment, or the delay.                                       *)

Requests  == {0, 2, 4}        \* IMAGE_SEGMENT, BOOTLOAD_REQUEST, HANDSHAKE
Responses == {1, 3, 5, 6}     \* the answers to these, and EXT_HANDSHAKE_RESPONSE
Statuses  == 0..5             \* COMPLETED .. OUT_OF_SEQ
RESUME_SUPPORT == 1
HEADER_LENGTH  == 6

RequestControl(commandId) == commandId + 16 * RESUME_SUPPORT
ResponseControl(commandId, status, reserved) == commandId + 16 * status + 128 * reserved

CommandId(control)      == control % 16
ResponseStatus(control) == (control \div 16) % 8
RequestFlags(control)   == (control \div 16) % 2

Header(commandId, tag, number) ==
  LET bytes == StoreInt32u(TRUE, number)
  IN  <<RequestControl(commandId), tag, bytes[1], bytes[2], bytes[3], bytes[4]>>

Number(message) ==
  FetchInt32u(TRUE, <<message[3], message[4], message[5], message[6]>>)

-----------------------------------------------------------------------------
(* Segments.                                                               *)

(* `secured`: the security option is defined, be it as 0 or 1.             *)
MAX_APPLICATION_PAYLOAD_LENGTH(secured) == IF secured THEN 102 ELSE 111

(* A multiple of four.                                                     *)
MAX_SEGMENT_PAYLOAD_LENGTH(secured) ==
  4 * ((MAX_APPLICATION_PAYLOAD_LENGTH(secured) - HEADER_LENGTH) \div 4)

INVALID_SEGMENT_INDEX == 65535
MAXIMUM_IMAGE_SIZE(secured) == 65534 * MAX_SEGMENT_PAYLOAD_LENGTH(secured)

StartIndex(secured, nextSegment) ==
  (nextSegment * MAX_SEGMENT_PAYLOAD_LENGTH(secured)) % Wrap

EndIndex(secured, nextSegment, imageSize) ==
  LET endIndex == (StartIndex(secured, nextSegment)
                     + MAX_SEGMENT_PAYLOAD_LENGTH(secured) - 1) % Wrap
  IN  IF endIndex >= imageSize THEN imageSize - 1 ELSE endIndex

MessageLength(secured, nextSegment, imageSize) ==
  HEADER_LENGTH + EndIndex(secured, nextSegment, imageSize)
    - StartIndex(secured, nextSegment) + 1

-----------------------------------------------------------------------------
(* The delay of a bootload request: the deadline is computed when the      *)
(* process is initiated, and each message that is sent carries what is     *)
(* left until then, in 32-bit milliseconds that wrap.  `start`, `now` and  *)
(* `delay` are true times in milliseconds; the deadline and the clock are  *)
(* doubles cut to 32 bits, which builds do modulo 2^32 (beyond 2^32 the    *)
(* conversion is undefined in C; the clock gets there after 49 days).      *)

HALF_MAX_INT32U_VALUE == 2147483648
Int32u == 0..(Wrap - 1)

elapsedTimeInt32u(oldTime, newTime) == (newTime - oldTime) % Wrap

timeGTorEqualInt32u(t1, t2) == elapsedTimeInt32u(t2, t1) <= HALF_MAX_INT32U_VALUE

(* InitiateRequestTargetBootload: currentImageSizeOrBootloadTimeMs.        *)
BootloadTimeMs(start, delay) == (start + delay) % Wrap

(* requestTargetForBootload: the delay in the message.                     *)
DelayMs(now, bootloadTime) ==
  LET nowMs == now % Wrap
  IN  IF timeGTorEqualInt32u(nowMs, bootloadTime)
      THEN 0
      ELSE elapsedTimeInt32u(nowMs, bootloadTime)
=============================================================================
