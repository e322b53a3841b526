-------------------------- MODULE OtaServerRefinement --------------------------
(***************************************************************************)
(* The server implements the contract of its header.                       *)
(***************************************************************************)
EXTENDS OtaServer, Integers

ProcessOf(state) ==
  CASE state \in HandshakeStates \cup ImageDistributionStates -> "image"
    [] state \in BootloadRequestStates -> "bootload"
    [] OTHER -> "none"

Contract == INSTANCE OtaProcess WITH
  Segments  <- TotalSegments,
  process   <- ProcessOf(server.state),
  next      <- IF server.state \in ImageDistributionStates THEN server.nextSegment ELSE -1,
  delivered <- received,
  results   <- completions

(* The header of the server (ota-unicast-bootloader-server.h:40-218): a    *)
(* process runs only while no other does and is completed once, segments   *)
(* go out in order from the one agreed on and each only when the one       *)
(* before has arrived, and a distribution reports SUCCESS only when the    *)
(* target has the last of them: whatever is lost, repeated, late or left   *)
(* over from the process before.                                           *)
ImplementsOtaProcess == Contract!Spec
=============================================================================
