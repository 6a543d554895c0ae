----------------------------- MODULE MCBatchSync -----------------------------
(***************************************************************************)
(* Instances of BatchSync for TLC.                                         *)
(***************************************************************************)
EXTENDS BatchSync

CONSTANTS a1, a2, r1, r2

(* One account that HCM raises, lowers and omits, and one without days.    *)
Uneven == [a \in Accounts |-> IF a = a1 THEN {1, 2} ELSE {0}]
=============================================================================
