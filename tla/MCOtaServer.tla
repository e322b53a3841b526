---------------------------- MODULE MCOtaServer -----------------------------
(* Instances of OtaServer for TLC.                                         *)
EXTENDS OtaServerInvariant

ImageOnly  == {"image"}
AnyProcess == ProcessKinds
NoRaces    == {}
DuringHandler == {"during handler"}
EarlyRestart == {"early restart"}
=============================================================================
