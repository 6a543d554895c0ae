--------------------------- MODULE Reconciliation ---------------------------
(***************************************************************************)
(* What the batch does to one balance row when it has HCM's total for it.  *)
(* A row here has, beside its four counters, the total HCM last reported   *)
(* and the discrepancy flag.  The tolerances of the code (0.01 and 0.001   *)
(* days) separate nothing when days are whole.                             *)
(***************************************************************************)
EXTENDS Balances

(* A row as it is first saved, by an upsert or by the batch.               *)
NewRow(total) ==
  [total |-> total, available |-> total, pending |-> 0, used |-> 0,
   hcmTotal |-> total, hasDiscrepancy |-> FALSE]

\* Mutant: days waiting for a decision are left out of the comparison.
Tracked_NoPending(b) == b.used + b.available

Tracked(b) == b.used + b.pending + b.available

\* Mutant: an accrual is added to the total only.
Reconciled_TotalOnly(b, read, hcmTotal) ==
  LET drift == hcmTotal - Tracked(read)
      seen == [b EXCEPT !.hcmTotal = hcmTotal, !.hasDiscrepancy = drift < 0]
  IN IF drift > 0 THEN [seen EXCEPT !.total = hcmTotal] ELSE seen

\* Mutant: the flag is cleared whatever the drift.
Reconciled_NoFlag(b, read, hcmTotal) ==
  LET drift == hcmTotal - Tracked(read)
      seen == [b EXCEPT !.hcmTotal = hcmTotal, !.hasDiscrepancy = FALSE]
  IN IF drift > 0
       THEN [seen EXCEPT !.total = hcmTotal, !.available = read.available + drift]
       ELSE seen

\* Mutant: the row read is saved as an entity instead of updated by column.
Reconciled_Entity(b, read, hcmTotal) ==
  LET drift == hcmTotal - Tracked(read)
      seen == [read EXCEPT !.hcmTotal = hcmTotal, !.hasDiscrepancy = drift < 0]
  IN IF drift > 0
       THEN [seen EXCEPT !.total = hcmTotal, !.available = @ + drift]
       ELSE seen

(* The update _reconcileRecord makes of row b, having read row read; also  *)
(* applyHcmRealTimeUpdate, which reads and writes in one transaction.      *)
Reconciled(b, read, hcmTotal) ==
  LET drift == hcmTotal - Tracked(read)
      seen == [b EXCEPT !.hcmTotal = hcmTotal, !.hasDiscrepancy = drift < 0]
  IN IF drift > 0
       THEN [seen EXCEPT !.total = hcmTotal, !.available = read.available + drift]
       ELSE seen
=============================================================================
