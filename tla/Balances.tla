------------------------------ MODULE Balances ------------------------------
(***************************************************************************)
(* A row of employee_balances and the mutations BalanceService applies to  *)
(* it.  Each operator is the arithmetic of one method, the guard that      *)
(* makes the method throw instead is the operator named Can... beside it.  *)
(* Amounts are whole days: the service only ever moves the calendar-day    *)
(* count of a request.                                                     *)
(***************************************************************************)
EXTENDS Integers

Balance == [total : Nat, available : Nat, pending : Nat, used : Nat]

(* upsertBalance, first insert: everything is available. *)
upsertBalance(total) ==
  [total |-> total, available |-> total, pending |-> 0, used |-> 0]

(* atomicDeduct: available -> pending, 422 INSUFFICIENT_BALANCE otherwise. *)
\* Mutant: the sufficiency check is dropped.
CanDeduct_Unchecked(b, days) == TRUE

CanDeduct(b, days) == b.available >= days

atomicDeduct(b, days) ==
  [b EXCEPT !.available = @ - days, !.pending = @ + days]

(* releaseFromPending and finalizeUsed both throw 409 on an underflow of   *)
(* pending.                                                                *)
CanSettle(b, days) == b.pending >= days

\* Mutant: the days leave pending and are not given back.
releaseFromPending_Lost(b, days) == [b EXCEPT !.pending = @ - days]

releaseFromPending(b, days) ==
  [b EXCEPT !.pending = @ - days, !.available = @ + days]

finalizeUsed(b, days) ==
  [b EXCEPT !.pending = @ - days, !.used = @ + days]

(* The invariant the header of BalanceService claims for every mutation.   *)
Balanced(b) == b.available + b.pending + b.used = b.total
=============================================================================
