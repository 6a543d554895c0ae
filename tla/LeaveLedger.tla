---------------------------- MODULE LeaveLedger -----------------------------
(***************************************************************************)
(* What the service promises its callers, with no counters, locks, keys'   *)
(* records or retries in it: every accepted request is one atomic booking  *)
(* against a grant of days, made at most once per idempotency key, never   *)
(* over the grant, never over another booking of the same lane, and        *)
(* settled at most once.                                                   *)
(*                                                                         *)
(* There is no available or pending counter here: what is free is the      *)
(* grant less the days of the bookings that still count.  TimeOffService   *)
(* keeps three counters per balance row and must never let one of its      *)
(* steps depart from this.                                                 *)
(***************************************************************************)
EXTENDS LeaveRequests

CONSTANTS Keys, Ids, Accounts, Payloads, Totals, NoRow

VARIABLES granted,   \* [Accounts -> Nat or NoRow], the days of each balance
          requests   \* [Ids -> request row or NoRow]

vars == <<granted, requests>>

Booked(a) == DaysIn(requests, NoRow, a, ActiveStatus)

Init ==
  /\ granted = [a \in Accounts |-> NoRow]
  /\ requests = [i \in Ids |-> NoRow]

Grant(a, total) ==
  /\ granted[a] = NoRow
  /\ granted' = [granted EXCEPT ![a] = total]
  /\ UNCHANGED requests

Reserve(i, k, p) ==
  /\ requests[i] = NoRow
  /\ granted[AccountOf(p)] # NoRow
  /\ Booked(AccountOf(p)) + calculateDaysRequested(p) <= granted[AccountOf(p)]
  /\ \A j \in Ids : requests[j] # NoRow =>
       /\ requests[j].key # k
       /\ ~ ( /\ requests[j].status \in ActiveStatus
              /\ requests[j].payload.lane = p.lane
              /\ datesOverlap(p, requests[j].payload) )
  /\ requests' = [requests EXCEPT
                    ![i] = [key |-> k, payload |-> p, status |-> "PENDING"]]
  /\ UNCHANGED granted

Settle(i, s) ==
  /\ requests[i] # NoRow
  /\ s \in VALID_TRANSITIONS[requests[i].status]
  /\ requests' = [requests EXCEPT ![i].status = s]
  /\ UNCHANGED granted

Next ==
  \/ \E a \in Accounts, t \in Totals : Grant(a, t)
  \/ \E i \in Ids, k \in Keys, p \in Payloads : Reserve(i, k, p)
  \/ \E i \in Ids, s \in RequestStatus : Settle(i, s)

Spec == Init /\ [][Next]_vars
=============================================================================
