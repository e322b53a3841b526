--------------------------- MODULE MCNcpTransport ---------------------------
(* Instances of NcpTransport for TLC.                                      *)
EXTENDS NcpTransportRefinement

CONSTANTS a1, a2, c1, c2

OneCaller   == {a1}
TwoCallers  == {a1, a2}
OneCb       == {c1}
TwoCb       == {c1, c2}
Nobody      == {}
NoFaults    == {}
AllFaults   == FaultKinds
LostOnly    == {"lost"}
=============================================================================
