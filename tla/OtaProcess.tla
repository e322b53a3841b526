------------------------------ MODULE OtaProcess ------------------------------
(***************************************************************************)
(* What the header of the OTA unicast bootloader server promises its       *)
(* application (src/connect/ota-unicast-bootloader-server.h): one process  *)
(* at a time, each ended by one completion callback; an image distribution *)
(* agrees with the target on a first segment, moves from a segment to the  *)
(* next when the target has it, and reports SUCCESS when the target has    *)
(* the last one.  Messages, timers, errors, threads and retries are not    *)
(* visible here.                                                           *)
(***************************************************************************)
EXTENDS Integers, Sequences

CONSTANT Segments   \* number of segments of the image

VARIABLES
  process,     \* the process the server is involved in, or "none"
  next,        \* the segment the distribution has come to
  delivered,   \* segments the target got from this process
  results      \* what the completion callbacks reported, in order

NotAgreed == -1   \* before the target has told where to start

Statuses == {"SUCCESS", "FAILED", "STACK_ERROR", "DATA_UNDERFLOW", "UNREACHABLE",
             "ABORTED", "REFUSED"}

contract == <<process, next, delivered, results>>

Init ==
  /\ process = "none" /\ next = NotAgreed
  /\ delivered = {} /\ results = <<>>

(* BUSY while the server is involved in another process.                   *)
Initiate(kind) ==
  /\ process = "none"
  /\ process' = kind /\ next' = NotAgreed /\ delivered' = {}
  /\ UNCHANGED results

(* A segment gets to the target; one that was sent twice even after the    *)
(* process has ended.                                                      *)
Deliver(n) ==
  /\ delivered' = delivered \cup {n}
  /\ UNCHANGED <<process, next, results>>

AgreeOnStart ==
  /\ process = "image" /\ next = NotAgreed
  /\ next' \in 0..(Segments - 1)
  /\ UNCHANGED <<process, delivered, results>>

MoveOn ==
  /\ process = "image" /\ next \in delivered /\ next + 1 < Segments
  /\ next' = next + 1
  /\ UNCHANGED <<process, delivered, results>>

FullImageReceived == next = Segments - 1 /\ next \in delivered

Complete(status) ==
  /\ process # "none"
  /\ process = "image" /\ status = "SUCCESS" => FullImageReceived
  /\ process' = "none" /\ next' = NotAgreed
  /\ results' = Append(results, [kind |-> process, status |-> status])
  /\ UNCHANGED delivered

Next ==
  \/ \E kind \in {"image", "bootload"} : Initiate(kind)
  \/ \E n \in 0..(Segments - 1) : Deliver(n)
  \/ AgreeOnStart \/ MoveOn
  \/ \E status \in Statuses : Complete(status)

Spec == Init /\ [][Next]_contract
=============================================================================
