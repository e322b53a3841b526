------------------------------ MODULE MCSinkApp ------------------------------
(* Instances of SinkApp for TLC.                                           *)
EXTENDS SinkApp

AnyProcess == ProcessKinds
NoRaces    == {}
OneImage   == {"gbl"}
=============================================================================
