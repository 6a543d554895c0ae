---------------------------- MODULE MCConnection ----------------------------
(***************************************************************************)
(* Instance of Connection for TLC: two bodies of one employee, for two     *)
(* leave types, that share a day, and one of another employee that asks    *)
(* for more than the balance.                                              *)
(***************************************************************************)
EXTENDS Connection

CONSTANTS k1, k2, k3, l1, l2, vacation, sick

Payload(l, t, f, e) == [lane |-> l, type |-> t, first |-> f, last |-> e]

Bodies ==
  [k \in Keys |-> IF k = k1 THEN Payload(l1, vacation, 0, 1)
                  ELSE IF k = k2 THEN Payload(l1, sick, 1, 1)
                  ELSE Payload(l2, vacation, 0, 3)]
=============================================================================
