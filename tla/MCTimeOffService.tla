-------------------------- MODULE MCTimeOffService --------------------------
(***************************************************************************)
(* Instances of TimeOffService for TLC: two callers, and request bodies    *)
(* chosen so that every refusal of the create path can happen.             *)
(***************************************************************************)
EXTENDS TimeOffService, TLC

CONSTANTS c1, c2, k1, k2, i1, i2, l1, l2, vacation, sick

Body(l, t, f, e) == [lane |-> l, type |-> t, first |-> f, last |-> e]

(* One employee: two bodies that overlap across leave types, one that      *)
(* follows them.                                                           *)
OneLane == {Body(l1, vacation, 0, 1), Body(l1, sick, 1, 1), Body(l1, vacation, 2, 3)}

(* Two employees and one key to fight over, within a lane and across.     *)
TwoLanes == {Body(l1, vacation, 0, 1), Body(l1, vacation, 1, 1), Body(l2, vacation, 0, 0)}

Symmetry == Permutations(Clients) \cup Permutations(Keys) \cup Permutations(Ids)
=============================================================================
