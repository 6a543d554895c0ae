------------------------------ MODULE MCHcmSync ------------------------------
(***************************************************************************)
(* Instances of HcmSync for TLC.                                           *)
(***************************************************************************)
EXTENDS HcmSync

CONSTANTS i1, i2, w1, w2
=============================================================================
