--------------------------- MODULE LeaveRequests ----------------------------
(***************************************************************************)
(* What a create call carries and what is computed from it.  A payload     *)
(* names its lane (the pair employee:location that createRequest uses as   *)
(* lock key and the overlap check as its scope), its leave type and the    *)
(* inclusive range of calendar days it covers, days being numbered from    *)
(* an arbitrary day 0 (Date.UTC differences over a day's milliseconds).    *)
(***************************************************************************)
EXTENDS Integers, Functions

RequestStatus == {"PENDING", "APPROVED", "REJECTED", "CANCELLED"}

\* Mutant: a rejected request can still be approved.
VALID_TRANSITIONS_Reopened ==
  [s \in RequestStatus |->
     IF s = "PENDING" THEN {"APPROVED", "REJECTED", "CANCELLED"}
     ELSE IF s = "REJECTED" THEN {"APPROVED"} ELSE {}]

(* VALID_TRANSITIONS *)
VALID_TRANSITIONS ==
  [s \in RequestStatus |->
     IF s = "PENDING" THEN {"APPROVED", "REJECTED", "CANCELLED"} ELSE {}]

(* The statuses _assertNoOverlap selects. *)
ActiveStatus == {"PENDING", "APPROVED"}

(* The balance row a payload draws on: (employee, location), leave type. *)
AccountOf(p) == <<p.lane, p.type>>

datesOverlap(p, q) == p.first <= q.last /\ q.first <= p.last

calculateDaysRequested(p) ==
  IF p.last - p.first + 1 >= 1 THEN p.last - p.first + 1 ELSE 1

(* The days that the requests in a table (rows by id, or `absent') book on *)
(* an account, counting those in one of the statuses.                      *)
DaysIn(table, absent, a, statuses) ==
  SumFunction([i \in DOMAIN table |->
    IF /\ table[i] # absent
       /\ table[i].status \in statuses
       /\ AccountOf(table[i].payload) = a
      THEN calculateDaysRequested(table[i].payload) ELSE 0])

isNotInPast(p, today) == p.first >= today
=============================================================================
