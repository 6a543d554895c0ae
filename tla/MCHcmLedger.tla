----------------------------- MODULE MCHcmLedger -----------------------------
(***************************************************************************)
(* Instances of HcmLedger for TLC.                                         *)
(***************************************************************************)
EXTENDS HcmLedger, TLC

CONSTANTS i1, i2

(* Either request takes all that is there at the start.                    *)
OneDay == [i \in Requests |-> 1]

Alike == Permutations(Requests)
=============================================================================
