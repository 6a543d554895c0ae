-------------------------- MODULE HcmLedger_proofs ---------------------------
(***************************************************************************)
(* Proofs about HcmLedger, for any number of requests of any length, any   *)
(* seed, any grants and any number of debits.                              *)
(*                                                                         *)
(* The argument is an account of where the days HCM has granted are: what  *)
(* HCM still holds and what it has debited make up all it ever granted;    *)
(* the days the service's row tracks never exceed that by more than were   *)
(* never earned; and the days it has approved are among those it tracks.   *)
(* An open transaction can bring back the row and the status it found, so  *)
(* the same must hold of these: FoundRight.                                *)
(***************************************************************************)
EXTENDS HcmLedger, FunctionSums

ApprovedDays == DaysOver({i \in Requests : status[i] = "APPROVED"})

OthersApproved(i) == DaysOver({k \in Requests : k # i /\ status[k] = "APPROVED"})

DebitedDays == SumFunction([i \in Requests |-> debits[i] * Days[i]])

Untouched == \A i \in Requests : debits[i] = 0

(* What AccrualsArriveFirst says of a row b, when s days have been seen.   *)
Arrived(b, s) ==
  /\ Tracked(b) >= s
  /\ b.hasDiscrepancy => Tracked(b) > s

(* HCM's books, and the service's against them.                            *)
BooksRight ==
  /\ record.totalBalance = record.availableBalance
  /\ record.totalBalance + DebitedDays = entitled
  /\ balance.used = ApprovedDays
  /\ Tracked(balance) <= entitled + unearned
  /\ Untouched /\ settled => Arrived(balance, seen)

(* A snapshot holds at most what had been granted when it was taken.       *)
BatchRight ==
  /\ read # None => snapshot # None
  /\ snapshot # None =>
       /\ snapshot.total <= entitled
       /\ Untouched => snapshot.total = snapshot.entitled

(* What a transaction has found is right as well, for the request as it    *)
(* was; until the save, its days are those the row still has.              *)
FoundRight ==
  tx # None =>
    /\ tx.found.used = OthersApproved(tx.id)
    /\ Tracked(tx.found) <= entitled + unearned
    /\ Untouched /\ tx.settled => Arrived(tx.found, tx.seen)
    /\ tx.stage = "found" =>
         /\ CanMove(tx.op, tx.found, Days[tx.id])
         /\ tx.found.pending = balance.pending /\ tx.found.used = balance.used
         /\ status[tx.id] = StatusBefore(tx.op)

LInv == TypeOK /\ BooksRight /\ BatchRight /\ FoundRight

-----------------------------------------------------------------------------
(* Sums of days.                                                           *)

LEMMA DaysNat == \A i \in Requests : Days[i] \in Nat /\ Days[i] >= 1
BY HcmLedgerAssumption

Share(S, i) == IF i \in S THEN Days[i] ELSE 0

LEMMA DaysOverIsSum ==
  ASSUME NEW S
  PROVE  DaysOver(S) = SumFunctionOnSet([i \in Requests |-> Share(S, i)], Requests)
BY DEF DaysOver, SumFunction, Share

(* One request joins a set of requests.                                    *)
LEMMA DaysOverMore ==
  ASSUME NEW S, NEW U, NEW i \in Requests, i \notin S, i \in U,
         \A k \in Requests \ {i} : k \in S <=> k \in U
  PROVE  DaysOver(U) = DaysOver(S) + Days[i] /\ DaysOver(S) \in Nat
<1> DEFINE f == [k \in Requests |-> Share(S, k)]
           g == [k \in Requests |-> Share(U, k)]
<1>1. /\ \A k \in Requests : f[k] \in Nat /\ g[k] \in Nat
      /\ \A k \in Requests \ {i} : f[k] = g[k]
      /\ f[i] = 0 /\ g[i] = Days[i]
  BY DaysNat DEF Share
<1>2. DaysOver(S) = SumFunctionOnSet(f, Requests) /\ DaysOver(U) = SumFunctionOnSet(g, Requests)
  BY DaysOverIsSum
<1> HIDE DEF f, g
<1>3. \A k \in Requests : f[k] \in Int /\ g[k] \in Int
  BY <1>1
<1>4. SumFunctionOnSet(g, Requests) = SumFunctionOnSet(f, Requests) - f[i] + g[i]
  BY <1>1, <1>3, RequestsAssumption, SumOfChanged
<1>5. SumFunctionOnSet(f, Requests) \in Nat
  BY <1>1, RequestsAssumption, SumOfNaturals
<1>6. QED
  BY <1>1, <1>2, <1>4, <1>5

LEMMA DaysOverType == ASSUME NEW S PROVE DaysOver(S) \in Int
<1> DEFINE f == [k \in Requests |-> Share(S, k)]
<1>1. \A k \in Requests : f[k] \in Int
  BY DaysNat DEF Share
<1>2. DaysOver(S) = SumFunctionOnSet(f, Requests)
  BY DaysOverIsSum
<1> HIDE DEF f
<1>3. QED
  BY <1>1, <1>2, RequestsAssumption, SumType

LEMMA DaysOverSame ==
  ASSUME NEW S, NEW U, \A k \in Requests : k \in S <=> k \in U
  PROVE  DaysOver(U) = DaysOver(S)
<1> DEFINE f == [k \in Requests |-> Share(S, k)]
           g == [k \in Requests |-> Share(U, k)]
<1>1. \A k \in Requests : f[k] = g[k]
  BY DEF Share
<1>2. DaysOver(S) = SumFunctionOnSet(f, Requests) /\ DaysOver(U) = SumFunctionOnSet(g, Requests)
  BY DaysOverIsSum
<1> HIDE DEF f, g
<1>3. QED
  BY <1>1, <1>2, RequestsAssumption, SumOfEqual

(* The days debited under table d, which counts debits.                    *)
Debited(d) == SumFunctionOnSet([i \in Requests |-> d[i] * Days[i]], Requests)

LEMMA DebitedIsSum == DebitedDays = Debited(debits)
BY DEF DebitedDays, Debited, SumFunction

LEMMA DebitedType ==
  ASSUME NEW d \in [Requests -> Nat]
  PROVE  Debited(d) \in Nat
<1> DEFINE f == [i \in Requests |-> d[i] * Days[i]]
<1>1. \A i \in Requests : f[i] \in Nat
  BY DaysNat
<1>2. Debited(d) = SumFunctionOnSet(f, Requests)
  BY DEF Debited
<1> HIDE DEF f
<1>3. QED
  BY <1>1, <1>2, RequestsAssumption, SumOfNaturals

LEMMA DebitedMore ==
  ASSUME NEW d \in [Requests -> Nat], NEW e \in [Requests -> Nat], NEW i \in Requests,
         \A k \in Requests \ {i} : e[k] = d[k], e[i] = d[i] + 1
  PROVE  Debited(e) = Debited(d) + Days[i]
<1> DEFINE f == [k \in Requests |-> d[k] * Days[k]]
           g == [k \in Requests |-> e[k] * Days[k]]
<1>1. /\ \A k \in Requests : f[k] \in Int /\ g[k] \in Int
      /\ \A k \in Requests \ {i} : f[k] = g[k]
      /\ f[i] = d[i] * Days[i] /\ g[i] = e[i] * Days[i]
  BY DaysNat
<1>2. Debited(d) = SumFunctionOnSet(f, Requests) /\ Debited(e) = SumFunctionOnSet(g, Requests)
  BY DEF Debited
<1>3. g[i] = f[i] + Days[i]
  <2>1. \A m, n \in Int : (m + 1) * n = m * n + n
    OBVIOUS
  <2>2. d[i] \in Int /\ Days[i] \in Int /\ e[i] = d[i] + 1
    BY DaysNat
  <2>3. QED
    BY <1>1, <2>1, <2>2
<1> HIDE DEF f, g
<1>4. SumFunctionOnSet(g, Requests) = SumFunctionOnSet(f, Requests) - f[i] + g[i]
  BY <1>1, RequestsAssumption, SumOfChanged
<1>5. SumFunctionOnSet(f, Requests) \in Int /\ f[i] \in Int /\ Days[i] \in Int
  BY <1>1, DaysNat, RequestsAssumption, SumType
<1>6. QED
  BY <1>2, <1>3, <1>4, <1>5

LEMMA DebitedNothing ==
  ASSUME NEW d, \A i \in Requests : d[i] = 0
  PROVE  Debited(d) = 0
<1> DEFINE f == [i \in Requests |-> d[i] * Days[i]]
<1>1. \A i \in Requests : f[i] = 0
  BY DaysNat
<1>2. Debited(d) = SumFunctionOnSet(f, Requests)
  BY DEF Debited
<1> HIDE DEF f
<1>3. QED
  BY <1>1, <1>2, RequestsAssumption, SumOfZeros

(* A request's days are either misdebited or paid: debited once, for an    *)
(* approval.  An approved request's days are either paid or unpaid.        *)
LEMMA BooksSplit ==
  ASSUME NEW d \in [Requests -> Nat], NEW A,
         NEW spurious, spurious =
           [i \in Requests |->
              (d[i] - (IF i \in A /\ d[i] > 0 THEN 1 ELSE 0)) * Days[i]]
  PROVE  DaysOver(A) - DaysOver({i \in A : d[i] = 0}) =
           Debited(d) - SumFunctionOnSet(spurious, Requests)
<1> DEFINE f == [i \in Requests |-> d[i] * Days[i]]
           S == {i \in A : d[i] = 0}
           P == {i \in A : d[i] > 0}
           unpaid == [i \in Requests |-> Share(S, i)]
           paid == [i \in Requests |-> Share(P, i)]
           all == [i \in Requests |-> Share(A, i)]
<1>1. \A i \in Requests :
        /\ unpaid[i] \in Int /\ paid[i] \in Int /\ spurious[i] \in Int /\ f[i] \in Int
        /\ all[i] \in Int
        /\ all[i] = unpaid[i] + paid[i]
        /\ f[i] = spurious[i] + paid[i]
  <2> SUFFICES ASSUME NEW i \in Requests
               PROVE  /\ unpaid[i] \in Int /\ paid[i] \in Int /\ spurious[i] \in Int
                      /\ f[i] \in Int /\ all[i] \in Int
                      /\ all[i] = unpaid[i] + paid[i]
                      /\ f[i] = spurious[i] + paid[i]
    OBVIOUS
  <2>1. Days[i] \in Int /\ d[i] \in Nat
    BY DaysNat
  <2>2. /\ f[i] = d[i] * Days[i]
        /\ spurious[i] = (d[i] - (IF i \in A /\ d[i] > 0 THEN 1 ELSE 0)) * Days[i]
    OBVIOUS
  <2>3. d[i] * Days[i] \in Int
    BY <2>1
  <2>4. CASE i \in A /\ d[i] > 0
    <3>1. unpaid[i] = 0 /\ paid[i] = Days[i] /\ all[i] = Days[i]
      BY <2>1, <2>4 DEF Share
    <3>2. spurious[i] = (d[i] - 1) * Days[i]
      BY <2>2, <2>4
    <3>3. \A m, n \in Int : (m - 1) * n = m * n - n
      OBVIOUS
    <3>4. spurious[i] = d[i] * Days[i] - Days[i]
      BY <2>1, <3>2, <3>3
    <3> HIDE DEF unpaid, paid, all, f
    <3>5. QED
      BY <2>1, <2>2, <2>3, <3>1, <3>4
  <2>5. CASE ~ (i \in A /\ d[i] > 0)
    <3>1. paid[i] = 0 /\ unpaid[i] = all[i] /\ all[i] \in {0, Days[i]}
      BY <2>1, <2>5 DEF Share
    <3>2. spurious[i] = (d[i] - 0) * Days[i]
      BY <2>2, <2>5
    <3>3. spurious[i] = d[i] * Days[i]
      BY <2>1, <3>2
    <3> HIDE DEF unpaid, paid, all, f
    <3>4. QED
      BY <2>1, <2>2, <2>3, <3>1, <3>3
  <2>6. QED
    BY <2>4, <2>5
<1>2. /\ DaysOver(A) = SumFunctionOnSet(all, Requests)
      /\ DaysOver(S) = SumFunctionOnSet(unpaid, Requests)
      /\ Debited(d) = SumFunctionOnSet(f, Requests)
  BY DaysOverIsSum DEF Debited
<1> HIDE DEF f, S, P, unpaid, paid, all
<1>3. SumFunctionOnSet(all, Requests) =
        SumFunctionOnSet(unpaid, Requests) + SumFunctionOnSet(paid, Requests)
  BY <1>1, RequestsAssumption, SumOfSums
<1>4. SumFunctionOnSet(f, Requests) =
        SumFunctionOnSet(spurious, Requests) + SumFunctionOnSet(paid, Requests)
  BY <1>1, RequestsAssumption, SumOfSums
<1>5. /\ SumFunctionOnSet(unpaid, Requests) \in Int
      /\ SumFunctionOnSet(paid, Requests) \in Int
      /\ SumFunctionOnSet(spurious, Requests) \in Int
  BY <1>1, RequestsAssumption, SumType
<1>6. QED
  BY <1>2, <1>3, <1>4, <1>5 DEF S

-----------------------------------------------------------------------------
(* The arithmetic of the row.                                              *)

LEMMA NewRowIsRight ==
  ASSUME NEW t \in Nat
  PROVE  /\ NewRow(t) \in Row /\ NewRow(t).used = 0
         /\ Tracked(NewRow(t)) = t /\ NewRow(t).hasDiscrepancy = FALSE
BY DEF NewRow, Row, Tracked

(* A transaction moves the days of its request, and the row tracks as many *)
(* as before.                                                              *)
DaysUsed(op, n) == IF op = "approve" THEN n ELSE 0

LEMMA MovedFields ==
  ASSUME NEW b \in Row, NEW op \in {"create", "approve", "withdraw"}, NEW n \in Nat,
         CanMove(op, b, n)
  PROVE  LET m == Moved(op, b, n)
         IN /\ m \in Row /\ m.used = b.used + DaysUsed(op, n)
            /\ m.hasDiscrepancy = b.hasDiscrepancy
            /\ Tracked(m) = Tracked(b)
<1> DEFINE m == Moved(op, b, n)
<1>0. /\ b.total \in Nat /\ b.available \in Nat /\ b.pending \in Nat
      /\ b.used \in Nat /\ b.hcmTotal \in Nat /\ b.hasDiscrepancy \in BOOLEAN
  BY DEF Row
<1>1. CASE op = "create"
  <2>1. m = [total |-> b.total, available |-> b.available - n,
             pending |-> b.pending + n, used |-> b.used,
             hcmTotal |-> b.hcmTotal, hasDiscrepancy |-> b.hasDiscrepancy]
    BY <1>1 DEF Moved, atomicDeduct, Row
  <2>2. b.available - n \in Nat /\ b.pending + n \in Nat
    BY <1>0, <1>1 DEF CanMove, CanDeduct
  <2> HIDE DEF m
  <2>3. QED
    BY <1>0, <1>1, <2>1, <2>2 DEF Row, Tracked, DaysUsed, m
<1>2. CASE op = "approve"
  <2>1. m = [total |-> b.total, available |-> b.available,
             pending |-> b.pending - n, used |-> b.used + n,
             hcmTotal |-> b.hcmTotal, hasDiscrepancy |-> b.hasDiscrepancy]
    BY <1>2 DEF Moved, finalizeUsed, Row
  <2>2. b.pending - n \in Nat /\ b.used + n \in Nat
    BY <1>0, <1>2 DEF CanMove, CanSettle
  <2> HIDE DEF m
  <2>3. QED
    BY <1>0, <1>2, <2>1, <2>2 DEF Row, Tracked, DaysUsed, m
<1>3. CASE op = "withdraw"
  <2>1. m = [total |-> b.total, available |-> b.available + n,
             pending |-> b.pending - n, used |-> b.used,
             hcmTotal |-> b.hcmTotal, hasDiscrepancy |-> b.hasDiscrepancy]
    BY <1>3 DEF Moved, releaseFromPending, Row
  <2>2. b.pending - n \in Nat /\ b.available + n \in Nat
    BY <1>0, <1>3 DEF CanMove, CanSettle
  <2> HIDE DEF m
  <2>3. QED
    BY <1>0, <1>3, <2>1, <2>2 DEF Row, Tracked, DaysUsed, m
<1>4. QED
  BY <1>1, <1>2, <1>3

(* The columns a transaction has moved, in a row as it is.                 *)
MovedColumns(b, e) ==
  [b EXCEPT !.available = e.available, !.pending = e.pending, !.used = e.used]

LEMMA MovedColumnsFields ==
  ASSUME NEW b \in Row, NEW e \in Row
  PROVE  LET n == MovedColumns(b, e)
         IN /\ n \in Row /\ n.total = b.total /\ n.available = e.available
            /\ n.pending = e.pending /\ n.used = e.used
            /\ n.hcmTotal = b.hcmTotal /\ n.hasDiscrepancy = b.hasDiscrepancy
<1> DEFINE n == MovedColumns(b, e)
<1>1. e.available \in Nat /\ e.pending \in Nat /\ e.used \in Nat
  BY DEF Row
<1> DEFINE first == [b EXCEPT !.available = e.available]
           second == [first EXCEPT !.pending = e.pending]
<1>2. first = [total |-> b.total, available |-> e.available, pending |-> b.pending,
               used |-> b.used, hcmTotal |-> b.hcmTotal,
               hasDiscrepancy |-> b.hasDiscrepancy]
  BY DEF Row
<1> HIDE DEF first
<1>3. second = [total |-> b.total, available |-> e.available, pending |-> e.pending,
                used |-> b.used, hcmTotal |-> b.hcmTotal,
                hasDiscrepancy |-> b.hasDiscrepancy]
  BY <1>2
<1>4. n = [second EXCEPT !.used = e.used]
  BY DEF MovedColumns, first
<1> HIDE DEF second, n
<1>5. n = [total |-> b.total, available |-> e.available, pending |-> e.pending,
           used |-> e.used, hcmTotal |-> b.hcmTotal,
           hasDiscrepancy |-> b.hasDiscrepancy]
  BY <1>3, <1>4
<1>6. QED
  BY <1>1, <1>5 DEF Row, n

(* What the batch writes, field by field, whichever rows it read and found. *)
LEMMA ReconciledFields ==
  ASSUME NEW b \in Row, NEW before \in Row, NEW t \in Nat
  PROVE  LET drift == t - Tracked(before)
             n == Reconciled(b, before, t)
         IN /\ n \in Row
            /\ n.total = IF drift > 0 THEN t ELSE b.total
            /\ n.available = IF drift > 0 THEN before.available + drift
                             ELSE b.available
            /\ n.pending = b.pending /\ n.used = b.used
            /\ n.hcmTotal = t /\ (n.hasDiscrepancy <=> drift < 0)
<1> DEFINE drift == t - Tracked(before)
           low == drift < 0
           marked == [b EXCEPT !.hcmTotal = t, !.hasDiscrepancy = low]
           n == Reconciled(b, before, t)
<1>1. n = IF drift > 0
            THEN [marked EXCEPT !.total = t, !.available = before.available + drift]
            ELSE marked
  BY DEF Reconciled
<1>2. Tracked(before) \in Nat /\ before.available \in Nat
  BY DEF Tracked, Row
<1>3. drift \in Int /\ (drift > 0 => before.available + drift \in Nat)
  BY <1>2
<1>4. low \in BOOLEAN /\ (low <=> drift < 0)
  OBVIOUS
<1> HIDE DEF low, drift, n
<1>5. /\ marked \in Row
      /\ marked.total = b.total /\ marked.available = b.available
      /\ marked.pending = b.pending /\ marked.used = b.used
      /\ marked.hcmTotal = t /\ marked.hasDiscrepancy = low
  BY <1>4 DEF Row
<1> HIDE DEF marked
<1>6. CASE drift > 0
  <2>1. n = [marked EXCEPT !.total = t, !.available = before.available + drift]
    BY <1>1, <1>6
  <2>2. /\ n \in Row /\ n.total = t /\ n.available = before.available + drift
        /\ n.pending = b.pending /\ n.used = b.used
        /\ n.hcmTotal = t /\ n.hasDiscrepancy = low
    BY <1>3, <1>5, <1>6, <2>1 DEF Row
  <2>3. QED
    BY <1>4, <1>6, <2>2 DEF drift, n
<1>7. CASE ~ (drift > 0)
  <2>1. n = marked
    BY <1>1, <1>7
  <2>2. QED
    BY <1>4, <1>5, <1>7, <2>1 DEF drift, n
<1>8. QED
  BY <1>6, <1>7

LEMMA ReconciledTracks ==
  ASSUME NEW b \in Row, NEW before \in Row, NEW t \in Nat
  PROVE  LET n == Reconciled(b, before, t)
         IN /\ n \in Row /\ n.pending = b.pending /\ n.used = b.used
            /\ Tracked(n) = IF t > Tracked(before) THEN t + BookedSince(b, before)
                            ELSE Tracked(b)
            /\ n.hasDiscrepancy <=> t < Tracked(before)
<1> DEFINE drift == t - Tracked(before)
           n == Reconciled(b, before, t)
<1>0. /\ b.available \in Nat /\ b.pending \in Nat /\ b.used \in Nat
      /\ before.available \in Nat /\ before.pending \in Nat /\ before.used \in Nat
  BY DEF Row
<1>1. /\ n \in Row
      /\ n.available = IF drift > 0 THEN before.available + drift ELSE b.available
      /\ n.pending = b.pending /\ n.used = b.used
      /\ (n.hasDiscrepancy <=> drift < 0)
  BY ReconciledFields
<1>2. drift = t - (before.used + before.pending + before.available) /\ drift \in Int
  BY <1>0 DEF Tracked
<1> HIDE DEF n, drift
<1>3. QED
  BY <1>0, <1>1, <1>2 DEF Tracked, BookedSince, n

-----------------------------------------------------------------------------
(* The start.                                                              *)

LEMMA LargerIs ==
  ASSUME NEW m \in Int, NEW n \in Int
  PROVE  Larger(m, n) \in Int /\ Larger(m, n) >= m /\ Larger(m, n) >= n
BY DEF Larger

LEMMA NoneApproved ==
  ASSUME NEW S, \A i \in Requests : i \notin S
  PROVE  DaysOver(S) = 0
<1> DEFINE f == [i \in Requests |-> Share(S, i)]
<1>1. \A i \in Requests : f[i] = 0
  BY DEF Share
<1>2. DaysOver(S) = SumFunctionOnSet(f, Requests)
  BY DaysOverIsSum
<1> HIDE DEF f
<1>3. QED
  BY <1>1, <1>2, RequestsAssumption, SumOfZeros

LEMMA InitLInv == Init => LInv
<1> SUFFICES ASSUME Init PROVE LInv
  OBVIOUS
<1>1. PICK seed \in Seeds : /\ balance = NewRow(seed)
                            /\ unearned = Larger(0, seed - Total)
  BY DEF Init
<1>2. seed \in Nat /\ Total \in Nat /\ MaxDebits \in Nat
  BY HcmLedgerAssumption
<1>3. /\ balance \in Row /\ balance.used = 0 /\ Tracked(balance) = seed
      /\ balance.hasDiscrepancy = FALSE
  BY <1>1, <1>2, NewRowIsRight
<1>4. unearned \in Nat /\ seed <= Total + unearned
  <2>1. /\ Larger(0, seed - Total) \in Int /\ Larger(0, seed - Total) >= 0
        /\ Larger(0, seed - Total) >= seed - Total
    <3>1. 0 \in Int /\ seed - Total \in Int
      BY <1>2
    <3>2. QED
      BY <3>1, LargerIs
  <2>2. QED
    BY <1>1, <1>2, <2>1
<1>5. TypeOK
  <2>1. debits \in [Requests -> 0 .. MaxDebits]
    BY <1>2 DEF Init
  <2>2. QED
    BY <1>2, <1>3, <1>4, <2>1 DEF Init, TypeOK
<1>6. ApprovedDays = 0
  <2> DEFINE S == {i \in Requests : status[i] = "APPROVED"}
  <2>1. \A i \in Requests : i \notin S
    BY DEF Init
  <2> HIDE DEF S
  <2>2. DaysOver(S) = 0
    BY <2>1, NoneApproved
  <2>3. QED
    BY <2>2 DEF ApprovedDays, S
<1>7. DebitedDays = 0
  <2>1. \A i \in Requests : debits[i] = 0
    BY DEF Init
  <2>2. QED
    BY <2>1, DebitedIsSum, DebitedNothing
<1>8. BooksRight
  <2>1. record.totalBalance = Total /\ record.availableBalance = Total /\ entitled = Total
        /\ seen = 0
    BY DEF Init
  <2>2. QED
    BY <1>2, <1>3, <1>4, <1>6, <1>7, <2>1 DEF BooksRight, Arrived
<1>9. BatchRight /\ FoundRight
  BY DEF Init, BatchRight, FoundRight
<1>10. QED
  BY <1>5, <1>8, <1>9 DEF LInv

-----------------------------------------------------------------------------
(* What most steps leave alone.                                            *)

LEMMA DebitsKept == debits' = debits => DebitedDays' = DebitedDays /\ (Untouched' <=> Untouched)
BY DEF DebitedDays, Untouched

LEMMA StatusKept ==
  ASSUME status' = status
  PROVE  ApprovedDays' = ApprovedDays /\ \A i \in Requests : OthersApproved(i)' = OthersApproved(i)
BY DEF ApprovedDays, OthersApproved

LEMMA BooksKept ==
  ASSUME LInv, UNCHANGED <<balance, status, record, debits, entitled, seen, settled, unearned>>
  PROVE  BooksRight'
BY DebitsKept, StatusKept DEF LInv, BooksRight, Arrived

LEMMA BatchKept ==
  ASSUME LInv, UNCHANGED <<debits, entitled, snapshot, read>>
  PROVE  BatchRight'
BY DebitsKept DEF LInv, BatchRight

LEMMA FoundKept ==
  ASSUME LInv, UNCHANGED <<balance, status, debits, entitled, unearned, tx>>
  PROVE  FoundRight'
<1>1. Untouched' <=> Untouched
  BY DebitsKept
<1>2. tx # None => tx.id \in Requests
  BY DEF LInv, TypeOK, Transaction
<1>3. QED
  BY <1>1, <1>2, StatusKept DEF LInv, FoundRight, Arrived

(* A change of one request's status does not concern the others.           *)
LEMMA OthersKept ==
  ASSUME TypeOK, NEW i \in Requests, NEW s, status' = [status EXCEPT ![i] = s]
  PROVE  OthersApproved(i)' = OthersApproved(i)
<1> DEFINE S == {k \in Requests : k # i /\ status[k] = "APPROVED"}
           U == {k \in Requests : k # i /\ status'[k] = "APPROVED"}
<1>1. \A k \in Requests : k \in S <=> k \in U
  BY DEF TypeOK
<1>2. OthersApproved(i)' = DaysOver(U) /\ OthersApproved(i) = DaysOver(S)
  BY DEF OthersApproved
<1> HIDE DEF S, U
<1>3. QED
  BY <1>1, <1>2, DaysOverSame

LEMMA ApprovedOrNot ==
  ASSUME NEW st, NEW i \in Requests
  PROVE  LET approved == DaysOver({k \in Requests : st[k] = "APPROVED"})
             others == DaysOver({k \in Requests : k # i /\ st[k] = "APPROVED"})
         IN /\ st[i] # "APPROVED" => approved = others
            /\ st[i] = "APPROVED" => approved = others + Days[i]
<1> DEFINE S == {k \in Requests : k # i /\ st[k] = "APPROVED"}
           U == {k \in Requests : st[k] = "APPROVED"}
<1>1. CASE st[i] # "APPROVED"
  <2>1. \A k \in Requests : k \in S <=> k \in U
    BY <1>1
  <2> HIDE DEF S, U
  <2>2. DaysOver(U) = DaysOver(S)
    BY <2>1, DaysOverSame
  <2>3. QED
    BY <1>1, <2>2 DEF S, U
<1>2. CASE st[i] = "APPROVED"
  <2>1. i \notin S /\ i \in U /\ \A k \in Requests \ {i} : k \in S <=> k \in U
    BY <1>2
  <2> HIDE DEF S, U
  <2>2. DaysOver(U) = DaysOver(S) + Days[i]
    BY <2>1, DaysOverMore
  <2>3. QED
    BY <1>2, <2>2 DEF S, U
<1>3. QED
  BY <1>1, <1>2

LEMMA ApprovedNow ==
  ASSUME NEW i \in Requests
  PROVE  /\ status[i] # "APPROVED" => ApprovedDays = OthersApproved(i)
         /\ status[i] = "APPROVED" => ApprovedDays = OthersApproved(i) + Days[i]
BY ApprovedOrNot DEF ApprovedDays, OthersApproved

LEMMA ApprovedNext ==
  ASSUME NEW i \in Requests
  PROVE  /\ status'[i] # "APPROVED" => ApprovedDays' = OthersApproved(i)'
         /\ status'[i] = "APPROVED" => ApprovedDays' = OthersApproved(i)' + Days[i]
<1>1. PICK st : st = status'
  OBVIOUS
<1>2. /\ ApprovedDays' = DaysOver({k \in Requests : st[k] = "APPROVED"})
      /\ OthersApproved(i)' = DaysOver({k \in Requests : k # i /\ st[k] = "APPROVED"})
  BY <1>1 DEF ApprovedDays, OthersApproved
<1>3. /\ st[i] # "APPROVED" => ApprovedDays' = OthersApproved(i)'
      /\ st[i] = "APPROVED" => ApprovedDays' = OthersApproved(i)' + Days[i]
  <2> DEFINE approved == DaysOver({k \in Requests : st[k] = "APPROVED"})
             others == DaysOver({k \in Requests : k # i /\ st[k] = "APPROVED"})
  <2>1. /\ st[i] # "APPROVED" => approved = others
        /\ st[i] = "APPROVED" => approved = others + Days[i]
    BY ApprovedOrNot
  <2>2. ApprovedDays' = approved /\ OthersApproved(i)' = others
    BY <1>2
  <2> HIDE DEF approved, others
  <2>3. QED
    BY <2>1, <2>2
<1>4. QED
  BY <1>1, <1>3

-----------------------------------------------------------------------------
(* The steps of a transaction.                                             *)

LEMMA FindKeeps ==
  ASSUME LInv, NEW i \in Requests, NEW op \in {"create", "approve", "withdraw"},
         FindBalance(i, op)
  PROVE  LInv'
<1> DEFINE t == [id |-> i, op |-> op, stage |-> "found", found |-> balance,
                 seen |-> seen, settled |-> settled]
<1>1. /\ tx' = t /\ status[i] = StatusBefore(op) /\ CanMove(op, balance, Days[i])
      /\ UNCHANGED <<balance, status, snapshot, read, seen, settled, unearned,
                     calls, record, debits, entitled>>
  BY DEF FindBalance
<1>2. balance \in Row /\ seen \in Nat /\ settled \in BOOLEAN /\ TypeOK
  BY DEF LInv, TypeOK
<1>3. t \in Transaction
  BY <1>2 DEF Transaction
<1>4. TypeOK'
  BY <1>1, <1>3 DEF LInv, TypeOK
<1>5. BooksRight' /\ BatchRight'
  BY <1>1, BooksKept, BatchKept
<1>6. FoundRight'
  <2>1. /\ tx'.id = i /\ tx'.op = op /\ tx'.found = balance /\ tx'.seen = seen
        /\ tx'.settled = settled
    BY <1>1
  <2>2. status[i] # "APPROVED"
    BY <1>1 DEF StatusBefore
  <2>3. OthersApproved(i)' = balance.used
    BY <1>1, <1>2, <2>2, ApprovedNow, StatusKept DEF LInv, BooksRight
  <2>4. Untouched' <=> Untouched
    BY <1>1, DebitsKept
  <2> HIDE DEF t
  <2>5. QED
    BY <1>1, <2>1, <2>3, <2>4 DEF LInv, BooksRight, FoundRight, Arrived
<1>7. QED
  BY <1>4, <1>5, <1>6 DEF LInv

(* Either form of the save moves the days of the request in the row that   *)
(* was found; if that is still the row, nothing else changes.              *)
LEMMA SaveEffect ==
  ASSUME LInv, SaveBalance
  PROVE  /\ balance' \in Row
         /\ balance'.used = tx.found.used + DaysUsed(tx.op, Days[tx.id])
         /\ Tracked(balance') = Tracked(tx.found)
         /\ balance = tx.found => balance'.hasDiscrepancy = balance.hasDiscrepancy
<1> DEFINE op == tx.op
           n == Days[tx.id]
           b == tx.found
           e == Moved(op, b, n)
           m == MovedColumns(balance, e)
<1>1. /\ b \in Row /\ balance \in Row /\ op \in {"create", "approve", "withdraw"}
      /\ n \in Nat /\ CanMove(op, b, n)
  BY DaysNat DEF SaveBalance, LInv, TypeOK, Transaction, FoundRight
<1>2. balance' \in {e, m}
  BY DEF SaveBalance, MovedColumns
<1>3. /\ e \in Row /\ e.used = b.used + DaysUsed(op, n)
      /\ e.hasDiscrepancy = b.hasDiscrepancy /\ Tracked(e) = Tracked(b)
  BY <1>1, MovedFields
<1> HIDE DEF e, b, n, op
<1>4. /\ m \in Row /\ m.available = e.available
      /\ m.pending = e.pending /\ m.used = e.used
      /\ m.hasDiscrepancy = balance.hasDiscrepancy
  BY <1>1, <1>3, MovedColumnsFields
<1>5. Tracked(m) = Tracked(e)
  BY <1>4 DEF Tracked
<1> HIDE DEF m
<1>6. QED
  BY <1>2, <1>3, <1>4, <1>5 DEF b, n, op

LEMMA SaveKeeps ==
  ASSUME LInv, SaveBalance
  PROVE  LInv'
<1>1. tx # None /\ tx.stage = "found" /\ tx \in Transaction /\ tx.id \in Requests
  BY DEF SaveBalance, LInv, TypeOK, Transaction
<1>2. PICK i \in Requests : i = tx.id
  BY <1>1
<1>3. /\ tx.op \in {"create", "approve", "withdraw"} /\ tx.found \in Row /\ TypeOK
  BY <1>1 DEF LInv, TypeOK, Transaction
<1>4. /\ status' = [status EXCEPT ![i] = StatusAfter(tx.op)]
      /\ tx' = [tx EXCEPT !.stage = "saved"]
      /\ settled' = (settled /\ balance = tx.found)
      /\ calls' \in {calls, calls \cup {i}}
      /\ UNCHANGED <<snapshot, read, seen, unearned, record, debits, entitled>>
  BY <1>2 DEF SaveBalance
<1>5. /\ balance' \in Row
      /\ balance'.used = tx.found.used + DaysUsed(tx.op, Days[i])
      /\ Tracked(balance') = Tracked(tx.found)
      /\ balance = tx.found => balance'.hasDiscrepancy = balance.hasDiscrepancy
  BY <1>2, SaveEffect
<1>6. /\ tx.found.used = OthersApproved(i)
      /\ Tracked(tx.found) <= entitled + unearned
      /\ Untouched /\ tx.settled => Arrived(tx.found, tx.seen)
  BY <1>1, <1>2 DEF LInv, FoundRight
<1>7. /\ tx' \in Transaction /\ tx'.id = i /\ tx'.op = tx.op /\ tx'.stage = "saved"
      /\ tx'.found = tx.found /\ tx'.seen = tx.seen /\ tx'.settled = tx.settled
  BY <1>1, <1>2, <1>3, <1>4 DEF Transaction
<1>8. TypeOK'
  <2>1. status' \in [Requests -> {"none", "PENDING", "APPROVED", "WITHDRAWN"}]
    BY <1>1, <1>2, <1>3, <1>4 DEF TypeOK, StatusAfter
  <2>2. calls' \subseteq Requests
    BY <1>1, <1>2, <1>3, <1>4 DEF TypeOK
  <2>3. settled' \in BOOLEAN
    BY <1>4
  <2>4. QED
    BY <1>1, <1>2, <1>3, <1>4, <1>5, <1>7, <2>1, <2>2, <2>3 DEF TypeOK
<1>9. DebitedDays' = DebitedDays /\ (Untouched' <=> Untouched)
  BY <1>4, DebitsKept
<1>10. OthersApproved(i)' = OthersApproved(i)
  BY <1>2, <1>3, <1>4, OthersKept
<1>11. ApprovedDays' = OthersApproved(i) + DaysUsed(tx.op, Days[i])
  <2>1. /\ status'[i] # "APPROVED" => ApprovedDays' = OthersApproved(i)'
        /\ status'[i] = "APPROVED" => ApprovedDays' = OthersApproved(i)' + Days[i]
    BY ApprovedNext
  <2>2. status'[i] = StatusAfter(tx.op)
    BY <1>1, <1>2, <1>3, <1>4 DEF TypeOK
  <2>3. Days[i] \in Nat /\ OthersApproved(i) \in Int
    BY DaysNat, DaysOverType DEF OthersApproved
  <2>4. CASE tx.op = "approve"
    BY <1>10, <2>1, <2>2, <2>4 DEF StatusAfter, DaysUsed
  <2>5. CASE tx.op # "approve"
    BY <1>1, <1>2, <1>3, <1>10, <2>1, <2>2, <2>3, <2>5 DEF StatusAfter, DaysUsed
  <2>6. QED
    BY <2>4, <2>5
<1>12. BooksRight'
  <2>1. Untouched' /\ settled' => Arrived(balance', seen')
    BY <1>4, <1>5, <1>9 DEF LInv, BooksRight, Arrived
  <2>2. QED
    BY <1>4, <1>5, <1>6, <1>9, <1>11, <2>1 DEF LInv, BooksRight
<1>13. BatchRight'
  BY <1>4, BatchKept
<1>14. FoundRight'
  <2>1. tx'.stage # "found"
    BY <1>7
  <2>2. QED
    BY <1>4, <1>6, <1>7, <1>9, <1>10, <2>1 DEF FoundRight, Arrived
<1>15. QED
  BY <1>8, <1>12, <1>13, <1>14 DEF LInv

LEMMA CommitKeeps ==
  ASSUME LInv, Commit
  PROVE  LInv'
<1>1. /\ tx' = None
      /\ UNCHANGED <<balance, status, snapshot, read, seen, settled, unearned,
                     calls, record, debits, entitled>>
  BY DEF Commit
<1>2. TypeOK'
  BY <1>1 DEF LInv, TypeOK
<1>3. BooksRight' /\ BatchRight' /\ FoundRight'
  BY <1>1, BooksKept, BatchKept DEF FoundRight
<1>4. QED
  BY <1>2, <1>3 DEF LInv

(* The row, the status and the history are those of BEGIN once more.       *)
LEMMA UndoKeeps ==
  ASSUME LInv, tx # None, Undo, calls' \subseteq Requests,
         UNCHANGED <<snapshot, read>> \/ (snapshot' = None /\ read' = None)
  PROVE  LInv'
<1>1. tx \in Transaction /\ tx.id \in Requests /\ TypeOK
  BY DEF LInv, TypeOK, Transaction
<1>2. PICK i \in Requests : i = tx.id
  BY <1>1
<1>3. /\ balance' = tx.found /\ status' = [status EXCEPT ![i] = StatusBefore(tx.op)]
      /\ seen' = tx.seen /\ settled' = tx.settled /\ tx' = None
      /\ UNCHANGED <<unearned, record, debits, entitled>>
  BY <1>2 DEF Undo
<1>4. /\ tx.found.used = OthersApproved(i)
      /\ Tracked(tx.found) <= entitled + unearned
      /\ Untouched /\ tx.settled => Arrived(tx.found, tx.seen)
  BY <1>2 DEF LInv, FoundRight
<1>5. TypeOK'
  <2>1. /\ tx.found \in Row /\ tx.seen \in Nat /\ tx.settled \in BOOLEAN
        /\ StatusBefore(tx.op) \in {"none", "PENDING"}
    BY <1>1 DEF Transaction, StatusBefore
  <2>2. status' \in [Requests -> {"none", "PENDING", "APPROVED", "WITHDRAWN"}]
    BY <1>1, <1>3, <2>1 DEF TypeOK
  <2>3. QED
    BY <1>1, <1>3, <2>1, <2>2 DEF TypeOK
<1>6. DebitedDays' = DebitedDays /\ (Untouched' <=> Untouched)
  BY <1>3, DebitsKept
<1>7. ApprovedDays' = OthersApproved(i)
  <2>1. OthersApproved(i)' = OthersApproved(i)
    BY <1>1, <1>3, OthersKept
  <2>2. status'[i] # "APPROVED"
    BY <1>1, <1>3 DEF TypeOK, StatusBefore
  <2>3. QED
    BY <2>1, <2>2, ApprovedNext
<1>8. BooksRight'
  BY <1>3, <1>4, <1>6, <1>7 DEF LInv, BooksRight, Arrived
<1>9. BatchRight'
  BY <1>3, <1>6 DEF LInv, BatchRight
<1>10. FoundRight'
  BY <1>3 DEF FoundRight
<1>11. QED
  BY <1>5, <1>8, <1>9, <1>10 DEF LInv

LEMMA RollbackKeeps ==
  ASSUME LInv, Rollback
  PROVE  LInv'
<1>1. calls' \subseteq Requests
  BY DEF Rollback, LInv, TypeOK
<1>2. QED
  BY <1>1, UndoKeeps DEF Rollback

LEMMA RestartKeeps ==
  ASSUME LInv, Restart
  PROVE  LInv'
<1>1. calls' = {} /\ snapshot' = None /\ read' = None
  BY DEF Restart
<1>2. CASE /\ tx = None
           /\ UNCHANGED <<balance, status, tx, seen, settled, unearned, record,
                          debits, entitled>>
  <2>1. TypeOK'
    BY <1>1, <1>2 DEF LInv, TypeOK
  <2>2. BooksRight' /\ BatchRight' /\ FoundRight'
    BY <1>1, <1>2, BooksKept DEF BatchRight, FoundRight
  <2>3. QED
    BY <2>1, <2>2 DEF LInv
<1>3. CASE tx # None /\ Undo
  BY <1>1, <1>3, UndoKeeps
<1>4. QED
  BY <1>2, <1>3 DEF Restart

-----------------------------------------------------------------------------
(* The steps of the worker and of HCM.                                     *)

LEMMA RetryKeeps ==
  ASSUME LInv, NEW i \in Requests, RetryApproval(i)
  PROVE  LInv'
<1>1. calls' = calls \cup {i} /\ UNCHANGED <<row, record, debits, entitled>>
  BY DEF RetryApproval
<1>2. TypeOK'
  BY <1>1 DEF LInv, TypeOK, row
<1>3. BooksRight' /\ BatchRight' /\ FoundRight'
  BY <1>1, BooksKept, BatchKept, FoundKept DEF row
<1>4. QED
  BY <1>2, <1>3 DEF LInv

LEMMA PutKeeps ==
  ASSUME LInv, NEW i \in Requests, Put(i)
  PROVE  LInv'
<1> DEFINE n == Days[i]
<1>1. /\ calls' \in {calls, calls \ {i}}
      /\ UNCHANGED <<row, entitled>> /\ n \in Nat /\ n >= 1
  BY DaysNat DEF Put
<1>2. CASE UNCHANGED <<record, debits>>
  <2>1. TypeOK'
    BY <1>1, <1>2 DEF LInv, TypeOK, row
  <2>2. BooksRight' /\ BatchRight' /\ FoundRight'
    BY <1>1, <1>2, BooksKept, BatchKept, FoundKept DEF row
  <2>3. QED
    BY <2>1, <2>2 DEF LInv
<1>3. CASE Debit(i)
  <2>1. /\ record.availableBalance >= n
        /\ record' = [totalBalance |-> record.totalBalance - n,
                      availableBalance |-> record.availableBalance - n]
        /\ debits[i] < MaxDebits
        /\ debits' = [debits EXCEPT ![i] = debits[i] + 1]
    BY <1>3 DEF Debit
  <2>2. /\ record.totalBalance \in Nat /\ record.availableBalance \in Nat
        /\ record.totalBalance = record.availableBalance
        /\ record.totalBalance + DebitedDays = entitled
        /\ debits \in [Requests -> 0 .. MaxDebits] /\ MaxDebits \in Nat
    BY HcmLedgerAssumption DEF LInv, TypeOK, BooksRight
  <2>3. /\ debits' \in [Requests -> 0 .. MaxDebits]
        /\ debits'[i] = debits[i] + 1
        /\ \A k \in Requests \ {i} : debits'[k] = debits[k]
    BY <2>1, <2>2
  <2>4. debits \in [Requests -> Nat] /\ debits' \in [Requests -> Nat]
    BY <2>2, <2>3
  <2>5. DebitedDays' = DebitedDays + n /\ DebitedDays \in Nat
    <3>1. DebitedDays = Debited(debits) /\ DebitedDays \in Nat
      BY <2>4, DebitedIsSum, DebitedType
    <3>2. PICK e : e = debits'
      OBVIOUS
    <3>3. DebitedDays' = Debited(e)
      BY <3>2 DEF DebitedDays, Debited, SumFunction
    <3>4. Debited(e) = Debited(debits) + Days[i]
      <4>1. /\ e \in [Requests -> Nat] /\ e[i] = debits[i] + 1
            /\ \A k \in Requests \ {i} : e[k] = debits[k]
        BY <2>3, <2>4, <3>2
      <4>2. QED
        BY <2>4, <4>1, DebitedMore
    <3>5. QED
      BY <3>1, <3>3, <3>4
  <2>6. ~ Untouched'
    BY <2>2, <2>3 DEF Untouched
  <2>7. /\ ApprovedDays' = ApprovedDays
        /\ tx # None => OthersApproved(tx.id)' = OthersApproved(tx.id)
    BY <1>1 DEF ApprovedDays, OthersApproved, row
  <2>8. /\ record' \in [totalBalance : Nat, availableBalance : Nat]
        /\ record'.totalBalance = record'.availableBalance
        /\ record'.totalBalance = record.totalBalance - n
    BY <1>1, <2>1, <2>2
  <2> HIDE DEF n
  <2>9. BooksRight'
    BY <1>1, <2>2, <2>5, <2>6, <2>7, <2>8 DEF LInv, BooksRight, row
  <2>10. BatchRight'
    BY <1>1, <2>6 DEF LInv, BatchRight, row
  <2>11. TypeOK'
    BY <1>1, <2>3, <2>8 DEF LInv, TypeOK, row
  <2>12. FoundRight'
    BY <1>1, <2>6, <2>7 DEF LInv, FoundRight, row
  <2>13. QED
    BY <2>9, <2>10, <2>11, <2>12 DEF LInv
<1>4. QED
  BY <1>2, <1>3 DEF Put

LEMMA RefreshKeeps ==
  ASSUME LInv, NEW days \in Grants, AnniversaryRefresh(days)
  PROVE  LInv'
<1>1. days \in Nat
  BY HcmLedgerAssumption
<1>2. /\ record' = [totalBalance |-> record.totalBalance + days,
                    availableBalance |-> record.availableBalance + days]
      /\ entitled' = entitled + days
      /\ UNCHANGED <<row, calls, debits>>
  BY DEF AnniversaryRefresh
<1>3. /\ record.totalBalance \in Nat /\ record.availableBalance \in Nat
      /\ entitled \in Nat /\ unearned \in Nat /\ balance \in Row
      /\ tx # None => tx.found \in Row /\ tx.id \in Requests
      /\ snapshot # None => snapshot.total \in Nat
  BY DEF LInv, TypeOK, Transaction
<1>4. /\ record' \in [totalBalance : Nat, availableBalance : Nat]
      /\ record'.totalBalance = record.totalBalance + days
      /\ record'.availableBalance = record.availableBalance + days
  BY <1>1, <1>2, <1>3
<1>5. DebitedDays' = DebitedDays /\ (Untouched' <=> Untouched)
  BY <1>2, DebitsKept
<1>6. /\ ApprovedDays' = ApprovedDays
      /\ tx # None => OthersApproved(tx.id)' = OthersApproved(tx.id)
  BY <1>2 DEF ApprovedDays, OthersApproved, row
<1>7. DebitedDays \in Nat
  <2>1. debits \in [Requests -> Nat]
    BY DEF LInv, TypeOK
  <2>2. QED
    BY <2>1, DebitedIsSum, DebitedType
<1>8. \A b \in Row : Tracked(b) \in Nat
  BY DEF Row, Tracked
<1>9. BooksRight'
  <2>1. Tracked(balance) <= entitled' + unearned
    BY <1>1, <1>2, <1>3, <1>8 DEF LInv, BooksRight
  <2>2. QED
    BY <1>1, <1>2, <1>3, <1>4, <1>5, <1>6, <1>7, <2>1
       DEF LInv, BooksRight, Arrived, row
<1>10. BatchRight'
  <2>1. snapshot # None => snapshot.total <= entitled'
    BY <1>1, <1>2, <1>3 DEF LInv, BatchRight
  <2>2. QED
    BY <1>2, <1>5, <2>1 DEF LInv, BatchRight, row
<1>11. FoundRight'
  <2>1. tx # None => Tracked(tx.found) <= entitled' + unearned
    BY <1>1, <1>2, <1>3, <1>8 DEF LInv, FoundRight
  <2>2. QED
    BY <1>2, <1>5, <1>6, <2>1 DEF LInv, FoundRight, Arrived, row
<1>12. TypeOK'
  BY <1>1, <1>2, <1>3, <1>4 DEF LInv, TypeOK, row
<1>13. QED
  BY <1>9, <1>10, <1>11, <1>12 DEF LInv

-----------------------------------------------------------------------------
(* The steps of the batch.                                                 *)

LEMMA FetchKeeps ==
  ASSUME LInv, FetchSnapshot
  PROVE  LInv'
<1>1. /\ snapshot' = [total |-> record.totalBalance, entitled |-> entitled]
      /\ UNCHANGED <<balance, status, read, tx, seen, settled, unearned,
                     calls, record, debits, entitled>>
  BY DEF FetchSnapshot
<1>2. DebitedDays \in Nat /\ (Untouched => DebitedDays = 0)
  <2>1. debits \in [Requests -> Nat]
    BY DEF LInv, TypeOK
  <2>2. QED
    BY <2>1, DebitedIsSum, DebitedType, DebitedNothing DEF Untouched
<1>3. /\ record.totalBalance \in Nat /\ entitled \in Nat
      /\ record.totalBalance + DebitedDays = entitled
  BY DEF LInv, TypeOK, BooksRight
<1>4. /\ snapshot' \in [total : Nat, entitled : Nat]
      /\ snapshot'.total = record.totalBalance /\ snapshot'.entitled = entitled
  BY <1>1, <1>3
<1>5. BooksRight' /\ FoundRight'
  BY <1>1, BooksKept, FoundKept
<1>6. BatchRight'
  <2>1. snapshot' # None
    BY <1>4, HcmLedgerAssumption
  <2>2. Untouched' <=> Untouched
    BY <1>1, DebitsKept
  <2>3. QED
    BY <1>1, <1>2, <1>3, <1>4, <2>1, <2>2 DEF BatchRight
<1>7. TypeOK'
  BY <1>1, <1>4 DEF LInv, TypeOK
<1>8. QED
  BY <1>5, <1>6, <1>7 DEF LInv

LEMMA ReadKeeps ==
  ASSUME LInv, ReadRecord
  PROVE  LInv'
<1>1. /\ snapshot # None /\ read' = balance
      /\ UNCHANGED <<balance, status, snapshot, tx, seen, settled, unearned,
                     calls, record, debits, entitled>>
  BY DEF ReadRecord
<1>2. BooksRight' /\ FoundRight'
  BY <1>1, BooksKept, FoundKept
<1>3. BatchRight'
  BY <1>1, DebitsKept DEF LInv, BatchRight
<1>4. TypeOK'
  BY <1>1 DEF LInv, TypeOK
<1>5. QED
  BY <1>2, <1>3, <1>4 DEF LInv

LEMMA WriteKeeps ==
  ASSUME LInv, WriteRecord
  PROVE  LInv'
<1> DEFINE t == snapshot.total
<1>1. /\ read # None /\ snapshot' = None /\ read' = None
      /\ UNCHANGED <<status, tx, calls, record, debits, entitled>>
  BY DEF WriteRecord
<1>2. /\ read \in Row /\ balance \in Row /\ snapshot \in [total : Nat, entitled : Nat]
      /\ t \in Nat /\ snapshot.entitled \in Nat /\ entitled \in Nat /\ unearned \in Nat
      /\ t <= entitled /\ (Untouched => t = snapshot.entitled)
  BY <1>1 DEF LInv, TypeOK, BatchRight
<1>3. BatchRight'
  BY <1>1 DEF BatchRight
<1>4. CASE UNCHANGED <<balance, seen, settled, unearned>>
  <2>1. TypeOK'
    BY <1>1, <1>4 DEF LInv, TypeOK
  <2>2. BooksRight' /\ FoundRight'
    BY <1>1, <1>4, BooksKept, FoundKept
  <2>3. QED
    BY <1>3, <2>1, <2>2 DEF LInv
<1>5. CASE /\ balance' = Reconciled(balance, read, t)
           /\ seen' = snapshot.entitled
           /\ settled' = (balance = read)
           /\ unearned' = Larger(unearned, BookedSince(balance, read))
  <2> DEFINE since == BookedSince(balance, read)
  <2>0. since \in Int
    BY <1>2 DEF BookedSince, Row
  <2>1. unearned' \in Nat /\ unearned' >= unearned /\ unearned' >= since
    <3> HIDE DEF since
    <3>1. /\ Larger(unearned, since) \in Int /\ Larger(unearned, since) >= unearned
          /\ Larger(unearned, since) >= since
      <4>1. unearned \in Int /\ since \in Int
        BY <1>2, <2>0
      <4>2. QED
        BY <4>1, LargerIs
    <3>2. unearned' = Larger(unearned, since)
      BY <1>5 DEF since
    <3>3. QED
      BY <1>2, <3>1, <3>2
  <2>2. /\ balance' \in Row /\ balance'.pending = balance.pending
        /\ balance'.used = balance.used
        /\ Tracked(balance') = IF t > Tracked(read) THEN t + since ELSE Tracked(balance)
        /\ balance'.hasDiscrepancy <=> t < Tracked(read)
    <3> DEFINE n == Reconciled(balance, read, t)
    <3> HIDE DEF t
    <3>1. balance \in Row /\ read \in Row /\ t \in Nat
      BY <1>2
    <3>2. /\ n \in Row /\ n.pending = balance.pending /\ n.used = balance.used
          /\ Tracked(n) = IF t > Tracked(read) THEN t + since ELSE Tracked(balance)
          /\ n.hasDiscrepancy <=> t < Tracked(read)
      BY <3>1, ReconciledTracks
    <3>3. balance' = n
      BY <1>5
    <3> HIDE DEF n, since
    <3>4. QED
      BY <3>2, <3>3
  <2>3. Tracked(balance) \in Nat /\ Tracked(read) \in Nat
    BY <1>2 DEF Row, Tracked
  <2>4. Tracked(balance') <= entitled' + unearned'
    <3> HIDE DEF t, since
    <3>1. Tracked(balance) <= entitled + unearned
      BY DEF LInv, BooksRight
    <3>2. QED
      BY <1>1, <1>2, <2>0, <2>1, <2>2, <2>3, <3>1
  <2>5. Untouched' <=> Untouched
    BY <1>1, DebitsKept
  <2>6. Untouched' /\ settled' => Arrived(balance', seen')
    <3> SUFFICES ASSUME Untouched, balance = read
                 PROVE  Arrived(balance', snapshot.entitled)
      BY <1>5, <2>5 DEF Arrived
    <3>1. since = 0
      BY <1>2 DEF BookedSince, Row
    <3> HIDE DEF since
    <3>2. t = snapshot.entitled
      BY <1>2
    <3>3. QED
      BY <1>2, <2>2, <2>3, <3>1, <3>2 DEF Arrived
  <2> HIDE DEF since
  <2>7. ApprovedDays' = ApprovedDays /\ DebitedDays' = DebitedDays
    BY <1>1, StatusKept, DebitsKept
  <2>8. BooksRight'
    BY <1>1, <2>2, <2>4, <2>6, <2>7 DEF LInv, BooksRight
  <2>9. FoundRight'
    <3>1. /\ tx # None => OthersApproved(tx.id)' = OthersApproved(tx.id)
          /\ tx # None => tx.found \in Row
      BY <1>1 DEF OthersApproved, LInv, TypeOK, Transaction
    <3>2. tx # None => Tracked(tx.found) <= entitled' + unearned'
      <4>1. tx # None => Tracked(tx.found) \in Nat
        BY <3>1 DEF Row, Tracked
      <4>2. QED
        BY <1>1, <1>2, <2>1, <4>1 DEF LInv, FoundRight
    <3>3. QED
      BY <1>1, <2>2, <2>5, <3>1, <3>2 DEF LInv, FoundRight, Arrived
  <2>10. TypeOK'
    BY <1>1, <1>2, <1>5, <2>1, <2>2 DEF LInv, TypeOK
  <2>11. QED
    BY <1>3, <2>8, <2>9, <2>10 DEF LInv
<1>6. QED
  BY <1>4, <1>5 DEF WriteRecord

LEMMA StepKeepsLInv == LInv /\ [Next]_vars => LInv'
<1> SUFFICES ASSUME LInv, [Next]_vars PROVE LInv'
  OBVIOUS
<1>1. CASE UNCHANGED vars
  <2>1. TypeOK'
    BY <1>1 DEF LInv, TypeOK, vars, row
  <2>2. BooksRight' /\ BatchRight' /\ FoundRight'
    BY <1>1, BooksKept, BatchKept, FoundKept DEF vars, row
  <2>3. QED
    BY <2>1, <2>2 DEF LInv
<1>2. QED
  BY <1>1, FindKeeps, SaveKeeps, CommitKeeps, RollbackKeeps, RetryKeeps, PutKeeps,
     RefreshKeeps, FetchKeeps, ReadKeeps, WriteKeeps, RestartKeeps DEF Next

-----------------------------------------------------------------------------
(* The types of the two ledgers: neither ever goes below zero.             *)
THEOREM TypeCorrect == Spec => []TypeOK
<1>1. LInv => TypeOK
  BY DEF LInv
<1>2. QED
  BY <1>1, InitLInv, StepKeepsLInv, PTL DEF Spec

(* What is approved is among the days the row tracks; those are at most    *)
(* HCM's grants and what was never earned; HCM's grants it still holds or  *)
(* has debited; and what it has debited was approved or is misdebited.     *)
LEMMA BooksCoverApprovals == LInv => ApprovalsAreCovered
<1> SUFFICES ASSUME LInv
             PROVE  DaysOver({i \in Requests : status[i] = "APPROVED" /\ debits[i] = 0})
                      <= record.availableBalance + Misdebited + unearned
  BY DEF ApprovalsAreCovered
<1> DEFINE A == {i \in Requests : status[i] = "APPROVED"}
           S == {i \in A : debits[i] = 0}
           U == {i \in Requests : status[i] = "APPROVED" /\ debits[i] = 0}
           spurious == [i \in Requests |->
                          (debits[i] - (IF i \in A /\ debits[i] > 0 THEN 1 ELSE 0)) * Days[i]]
<1>1. /\ debits \in [Requests -> Nat] /\ balance \in Row
      /\ record.availableBalance \in Nat /\ entitled \in Nat /\ unearned \in Nat
  BY DEF LInv, TypeOK
<1>2. S = U
  OBVIOUS
<1>3. Misdebited = SumFunctionOnSet(spurious, Requests)
  <2>1. \A i \in Requests : i \in A <=> status[i] = "APPROVED"
    OBVIOUS
  <2>2. spurious = [i \in Requests |-> Spurious(i) * Days[i]]
    BY <2>1 DEF Spurious
  <2> HIDE DEF spurious
  <2>3. QED
    BY <2>2 DEF Misdebited, SumFunction
<1>4. ApprovedDays = DaysOver(A) /\ DebitedDays = Debited(debits)
  BY DebitedIsSum DEF ApprovedDays
<1>5. DaysOver(A) - DaysOver(S) = Debited(debits) - SumFunctionOnSet(spurious, Requests)
  <2>1. spurious = [i \in Requests |->
                      (debits[i] - (IF i \in A /\ debits[i] > 0 THEN 1 ELSE 0)) * Days[i]]
    OBVIOUS
  <2> HIDE DEF A, spurious
  <2>2. QED
    BY <1>1, <2>1, BooksSplit
<1>6. DaysOver(A) \in Int /\ DaysOver(S) \in Int /\ Debited(debits) \in Nat
  <2> HIDE DEF A, S
  <2>1. QED
    BY <1>1, DaysOverType, DebitedType
<1>7. Misdebited \in Int
  <2>1. \A i \in Requests : spurious[i] \in Int
    BY <1>1, DaysNat
  <2> HIDE DEF spurious
  <2>2. QED
    BY <1>3, <2>1, RequestsAssumption, SumType
<1>8. /\ record.availableBalance + DebitedDays = entitled
      /\ balance.used = ApprovedDays /\ Tracked(balance) <= entitled + unearned
  BY DEF LInv, BooksRight
<1>9. balance.used <= Tracked(balance) /\ balance.used \in Nat /\ Tracked(balance) \in Nat
  BY <1>1 DEF Row, Tracked
<1> HIDE DEF A, S, U, spurious
<1>10. DaysOver(U) <= record.availableBalance + Misdebited + unearned
  BY <1>1, <1>2, <1>3, <1>4, <1>5, <1>6, <1>7, <1>8, <1>9
<1>11. QED
  BY <1>10 DEF U

(* ApprovalsAreCovered, for any seed, requests, grants and number of       *)
(* debits, with rollbacks, crossed reads and writes, and restarts: what    *)
(* HCM cannot pay of the approvals it has not been told of is no more than *)
(* what it was debited without an approval and what was never earned.      *)
THEOREM ApprovalsCovered == Spec => []ApprovalsAreCovered
BY BooksCoverApprovals, InitLInv, StepKeepsLInv, PTL DEF Spec

(* AccrualsArriveFirst: as long as HCM has debited nothing, a batch that   *)
(* reconciles the row as it is brings it up to HCM's total and flags only  *)
(* an excess, and no transaction, rolled back or not, changes that.        *)
THEOREM AccrualsFirst == Spec => []AccrualsArriveFirst
<1>1. LInv => AccrualsArriveFirst
  BY DEF LInv, BooksRight, Untouched, Arrived, Tracked, AccrualsArriveFirst
<1>2. QED
  BY <1>1, InitLInv, StepKeepsLInv, PTL DEF Spec
=============================================================================
