------------------------------- MODULE TraceLog -------------------------------
(***************************************************************************)
(* The texts of the trace log (src/log/log.c): how much of a frame is      *)
(* shown, and the buffer of each thread that the texts of one log line     *)
(* share.  A text is its length: that of the bytes shown and of what       *)
(* follows them, without the final NUL.                                    *)
(***************************************************************************)
EXTENDS Integers

TraceBuffer == 256           \* sizeof(trace_buffer)
STR_MAX_LEN_CSP_ID == 19     \* of "Command ID: 0x%04X" and its NUL
Overflow == "[OVERFLOW]"

Least(a, b) == IF a <= b THEN a ELSE b

-----------------------------------------------------------------------------
(* str_bytes: `delim` when the bytes are separated, `tail` the length of   *)
(* the ellipsis the options ask for.                                       *)

Ellipses == {0, 1, 3}

Fit(inLen, outLen, delim) == IF delim THEN outLen >= inLen * 3 ELSE outLen >= inLen * 2 + 1

(* The text of n bytes, with a delimiter between two of them.              *)
BytesText(n, delim) == IF delim THEN 3 * n - 1 ELSE 2 * n

(* The loop ends after n bytes: they were the last, or there is no room    *)
(* for another one.                                                        *)
LoopEnds(n, inLen, room, delim) ==
  n = inLen \/ room - BytesText(n, delim) < (IF delim THEN 3 ELSE 2)

ShownBytes(inLen, outLen, delim, ellipsis) ==
  CHOOSE n \in 1..inLen :
    /\ LoopEnds(n, inLen, outLen - ellipsis - 1, delim)
    /\ \A m \in 1..(n - 1) : ~LoopEnds(m, inLen, outLen - ellipsis - 1, delim)

str_bytes(inLen, outLen, delim, tail) ==
  LET ellipsis == IF Fit(inLen, outLen, delim) THEN 0 ELSE tail
      n == ShownBytes(inLen, outLen, delim, ellipsis)
  IN  IF inLen = 0 THEN [bytes |-> 0, length |-> 0]
      ELSE IF outLen <= ellipsis + 3
      THEN [bytes |-> 0, length |-> Least(ellipsis, outLen - 1)]
      ELSE [bytes |-> n, length |-> BytesText(n, delim) + ellipsis]

str_csp_full(inLen, outLen) == str_bytes(inLen, outLen, TRUE, 0)

-----------------------------------------------------------------------------
(* The buffer of a thread: `idx` (trace_idx) is where the next text goes;  *)
(* it is reset to 0 when the outermost log line ends.                      *)
(* A text that has no room is replaced by "[OVERFLOW]".                    *)

tr_csp_id(idx) ==
  IF idx + STR_MAX_LEN_CSP_ID > TraceBuffer
  THEN [text |-> Overflow, idx |-> idx]
  ELSE [text |-> "Command ID", idx |-> idx + STR_MAX_LEN_CSP_ID]

tr_csp_full(inLen, idx) ==
  IF idx + inLen * 3 > TraceBuffer
  THEN [text |-> Overflow, idx |-> idx]
  ELSE [text |-> "bytes", idx |-> idx + str_csp_full(inLen, inLen * 3).length + 1]
=============================================================================
