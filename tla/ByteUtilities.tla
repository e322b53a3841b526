---------------------------- MODULE ByteUtilities ----------------------------
(***************************************************************************)
(* How integers are stored in and fetched from byte arrays                 *)
(* (src/stack/framework/byte-utilities.c).  HighLow puts the most          *)
(* significant byte first: the serialization protocol; LowHigh puts it     *)
(* last: the over-the-air bootloader messages.                             *)
(***************************************************************************)
EXTENDS Naturals

Byte  == 0..255
Int16 == 0..65535

(* Mutant: the high byte is taken without the shift.                       *)
HighByteUnshifted(value) == value

HighByte(value) == value \div 256
LowByte(value)  == value % 256

StoreHighLowInt16u(value) == <<HighByte(value), LowByte(value)>>
StoreLowHighInt16u(value) == <<LowByte(value), HighByte(value)>>

FetchHighLowInt16u(contents) == 256 * contents[1] + contents[2]
FetchLowHighInt16u(contents) == 256 * contents[2] + contents[1]

(* One byte per turn of the loop, the value shifted by eight bits each time. *)
StoreInt32u(lowHigh, value) ==
  LET shift1 == value \div 256
      shift2 == shift1 \div 256
      shift3 == shift2 \div 256
  IN  IF lowHigh
      THEN <<value % 256, shift1 % 256, shift2 % 256, shift3 % 256>>
      ELSE <<shift3 % 256, shift2 % 256, shift1 % 256, value % 256>>

FetchInt32u(lowHigh, contents) ==
  IF lowHigh
  THEN 65536 * (256 * contents[4] + contents[3]) + (256 * contents[2] + contents[1])
  ELSE 65536 * (256 * contents[1] + contents[2]) + (256 * contents[3] + contents[4])

StoreHighLowInt32u(value) == StoreInt32u(FALSE, value)
FetchHighLowInt32u(contents) == FetchInt32u(FALSE, contents)
=============================================================================
