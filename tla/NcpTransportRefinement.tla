----------------------- MODULE NcpTransportRefinement -----------------------
(***************************************************************************)
(* NcpTransport implements CommandApi as long as the NCP emits no          *)
(* indication (and nothing fails).  A call counts as served from the       *)
(* moment the NCP takes its command off the link until fetchApiParams has  *)
(* delivered the answer.                                                   *)
(***************************************************************************)
EXTENDS NcpTransport

PhaseOf(t) ==
  CASE pc[t] \in {"acquire", "format", "transmit"} -> "called"
    [] pc[t] \in {"wait", "late"} -> IF toNcp = <<>> THEN "served" ELSE "called"
    [] pc[t] \in {"copy", "fetch"} -> "served"
    [] OTHER -> "out"

Api == INSTANCE CommandApi WITH
         phase  <- [t \in Threads |-> PhaseOf(t)],
         call   <- myCall,
         answer <- [t \in Threads |-> fetched[t].id],
         count  <- calls

(* The threads, the poll thread and the two pipes together behave as       *)
(* synchronous, serialised calls that all return their own answer.         *)
ImplementsCommandApi == Api!FairSpec
=============================================================================
