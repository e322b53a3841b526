----------------------------- MODULE MCCspSession ------------------------------
(* Every command and every indication of the catalogues, with the least    *)
(* and the largest arguments, in both modes; the bounds are in the cfg.    *)
EXTENDS CspSession
=============================================================================
