---------------------------- MODULE FunctionSums ----------------------------
(***************************************************************************)
(* What a sum over a finite set does when the function summed, or the set, *)
(* changes: the facts about the community modules' SumFunctionOnSet that   *)
(* the balance counters, HCM's books and the rate limiters are proved with.*)
(*                                                                         *)
(* The library defines the sum by a fold, a recursive function chosen on   *)
(* the subsets of the index set.  Its equation is proved first, then the   *)
(* laws of a sum.  The inductions are arguments about a minimal            *)
(* counterexample: strict inclusion is well-founded on the finite sets.    *)
(***************************************************************************)
EXTENDS Functions, FiniteSetTheorems, TLAPS

(* A minimal element in place of induction: every non-empty collection of  *)
(* subsets of a finite set has one that has no other below it.             *)
LEMMA MinimalSubset ==
  ASSUME NEW S, IsFiniteSet(S), NEW T, T \subseteq SUBSET S, T # {}
  PROVE  \E s \in T : \A t \in T : ~ (t \subseteq s /\ t # s)
<1>1. T \subseteq FiniteSubsetsOf(S)
  BY FS_FiniteSubsetsOfFinite
<1>2. PICK s \in T : \A t \in T : <<t, s>> \notin StrictSubsetOrdering(S)
  BY <1>1, WFMin, FS_StrictSubsetOrderingWellFounded
<1>3. QED
  BY <1>2 DEF StrictSubsetOrdering

(* The table of partial sums that the library's fold computes.             *)
Some(s) == CHOOSE x \in s : TRUE

IsTable(g, f, S) ==
  g = [s \in SUBSET S |-> IF s = {} THEN 0 ELSE f[Some(s)] + g[s \ {Some(s)}]]

LEMMA FoldIsTable ==
  ASSUME NEW f, NEW S
  PROVE  SumFunctionOnSet(f, S) = (CHOOSE g : IsTable(g, f, S))[S]
BY DEF SumFunctionOnSet, FoldFunctionOnSet, MapThenFoldSet, IsTable, Some

LEMMA SomeIsMember == ASSUME NEW s, s # {} PROVE Some(s) \in s
BY DEF Some

LEMMA TableIsUnique ==
  ASSUME NEW S, IsFiniteSet(S), NEW f, NEW g, NEW h,
         IsTable(g, f, S), IsTable(h, f, S)
  PROVE  \A s \in SUBSET S : g[s] = h[s]
<1> DEFINE T == {s \in SUBSET S : g[s] # h[s]}
<1> SUFFICES ASSUME T # {} PROVE FALSE
  OBVIOUS
<1>1. PICK s \in T : \A t \in T : ~ (t \subseteq s /\ t # s)
  <2> HIDE DEF T
  <2>1. T \subseteq SUBSET S
    BY DEF T
  <2>2. QED
    BY <2>1, MinimalSubset
<1>2. /\ g[s] = IF s = {} THEN 0 ELSE f[Some(s)] + g[s \ {Some(s)}]
      /\ h[s] = IF s = {} THEN 0 ELSE f[Some(s)] + h[s \ {Some(s)}]
  BY DEF IsTable
<1>3. s # {}
  BY <1>2
<1>4. s \ {Some(s)} \subseteq s /\ s \ {Some(s)} # s
  BY <1>3, SomeIsMember
<1>5. g[s \ {Some(s)}] = h[s \ {Some(s)}]
  BY <1>1, <1>4
<1>6. QED
  BY <1>2, <1>5

(* The fold over a finite set is a table of the folds over its subsets.    *)
SumTable(f, S) == [s \in SUBSET S |-> SumFunctionOnSet(f, s)]

LEMMA SumsMakeTable ==
  ASSUME NEW S, IsFiniteSet(S), NEW f
  PROVE  IsTable(SumTable(f, S), f, S)
<1> DEFINE T == {s \in SUBSET S : ~ IsTable(SumTable(f, s), f, s)}
<1> SUFFICES ASSUME T # {} PROVE FALSE
  BY DEF T
<1>1. PICK U \in T : \A t \in T : ~ (t \subseteq U /\ t # U)
  <2> HIDE DEF T
  <2>1. T \subseteq SUBSET S
    BY DEF T
  <2>2. QED
    BY <2>1, MinimalSubset
<1>2. IsFiniteSet(U)
  BY FS_Subset
<1>3. \A s \in SUBSET U : s # U =>
        SumFunctionOnSet(f, s) =
          IF s = {} THEN 0 ELSE f[Some(s)] + SumFunctionOnSet(f, s \ {Some(s)})
  <2> SUFFICES ASSUME NEW s \in SUBSET U, s # U
               PROVE  SumFunctionOnSet(f, s) =
                        IF s = {} THEN 0
                        ELSE f[Some(s)] + SumFunctionOnSet(f, s \ {Some(s)})
    OBVIOUS
  <2>1. IsTable(SumTable(f, s), f, s)
    BY <1>1
  <2>2. SumTable(f, s)[s] =
          IF s = {} THEN 0 ELSE f[Some(s)] + SumTable(f, s)[s \ {Some(s)}]
    BY <2>1 DEF IsTable
  <2>3. QED
    BY <2>2 DEF SumTable
<1> DEFINE last == IF U = {} THEN 0
                   ELSE f[Some(U)] + SumFunctionOnSet(f, U \ {Some(U)})
           g == [s \in SUBSET U |->
                   IF s = U THEN last ELSE SumFunctionOnSet(f, s)]
<1>4. IsTable(g, f, U)
  <2>1. \A s \in SUBSET U :
          g[s] = IF s = {} THEN 0 ELSE f[Some(s)] + g[s \ {Some(s)}]
    <3> SUFFICES ASSUME NEW s \in SUBSET U
                 PROVE  g[s] = IF s = {} THEN 0 ELSE f[Some(s)] + g[s \ {Some(s)}]
      OBVIOUS
    <3>1. s # {} => /\ s \ {Some(s)} \in SUBSET U /\ s \ {Some(s)} # U
                    /\ g[s \ {Some(s)}] = SumFunctionOnSet(f, s \ {Some(s)})
      BY SomeIsMember
    <3>2. CASE s = U
      BY <3>1, <3>2
    <3>3. CASE s # U
      BY <3>1, <3>3, <1>3
    <3>4. QED
      BY <3>2, <3>3
  <2>2. QED
    BY <2>1 DEF IsTable
<1> DEFINE h == CHOOSE k : IsTable(k, f, U)
<1>5. IsTable(h, f, U)
  BY <1>4
<1>6. \A s \in SUBSET U : h[s] = g[s]
  <2> HIDE DEF g, h
  <2>1. QED
    BY <1>2, <1>4, <1>5, TableIsUnique
<1>7. SumFunctionOnSet(f, U) = h[U]
  BY FoldIsTable
<1>8. SumFunctionOnSet(f, U) = last
  BY <1>6, <1>7
<1>9. SumTable(f, U) = g
  BY <1>8 DEF SumTable
<1>10. QED
  BY <1>1, <1>4, <1>9

LEMMA SumUnfolds ==
  ASSUME NEW S, IsFiniteSet(S), NEW f
  PROVE  SumFunctionOnSet(f, S) =
           IF S = {} THEN 0
           ELSE f[Some(S)] + SumFunctionOnSet(f, S \ {Some(S)})
<1> DEFINE g == SumTable(f, S)
<1>1. IsTable(g, f, S)
  BY SumsMakeTable
<1>2. g[S] = IF S = {} THEN 0 ELSE f[Some(S)] + g[S \ {Some(S)}]
  <2> HIDE DEF g
  <2>1. QED
    BY <1>1 DEF IsTable
<1>3. \A s \in SUBSET S : g[s] = SumFunctionOnSet(f, s)
  BY DEF SumTable
<1>4. QED
  BY <1>2, <1>3

-----------------------------------------------------------------------------
(* What the proofs about counters use.                                     *)

LEMMA SumOfEmpty == ASSUME NEW f PROVE SumFunctionOnSet(f, {}) = 0
BY SumUnfolds, FS_EmptySet

(* Whole numbers add up to a whole number.                                 *)
LEMMA SumType ==
  ASSUME NEW S, IsFiniteSet(S), NEW f, \A x \in S : f[x] \in Int
  PROVE  SumFunctionOnSet(f, S) \in Int
<1> DEFINE T == {s \in SUBSET S : SumFunctionOnSet(f, s) \notin Int}
<1> SUFFICES ASSUME T # {} PROVE FALSE
  BY DEF T
<1>1. PICK s \in T : \A t \in T : ~ (t \subseteq s /\ t # s)
  <2> HIDE DEF T
  <2>1. T \subseteq SUBSET S
    BY DEF T
  <2>2. QED
    BY <2>1, MinimalSubset
<1>2. IsFiniteSet(s)
  BY FS_Subset
<1>3. SumFunctionOnSet(f, s) =
        IF s = {} THEN 0 ELSE f[Some(s)] + SumFunctionOnSet(f, s \ {Some(s)})
  BY <1>2, SumUnfolds
<1>4. CASE s = {}
  BY <1>3, <1>4
<1>5. CASE s # {}
  <2>1. Some(s) \in S /\ s \ {Some(s)} \subseteq s /\ s \ {Some(s)} # s
    BY <1>5, SomeIsMember
  <2>2. SumFunctionOnSet(f, s \ {Some(s)}) \in Int
    BY <1>1, <2>1
  <2>3. QED
    BY <1>3, <1>5, <2>1, <2>2
<1>6. QED
  BY <1>4, <1>5

(* The order of summation does not matter.                                 *)
LEMMA SumRemove ==
  ASSUME NEW S, IsFiniteSet(S), NEW f, \A x \in S : f[x] \in Int, NEW x \in S
  PROVE  SumFunctionOnSet(f, S) = f[x] + SumFunctionOnSet(f, S \ {x})
<1> DEFINE sum == SumTable(f, S)
           T == {s \in SUBSET S : \E y \in s : sum[s] # f[y] + sum[s \ {y}]}
<1>1. \A s \in SUBSET S : sum[s] = SumFunctionOnSet(f, s)
  BY DEF SumTable
<1>2. \A s \in SUBSET S : IsFiniteSet(s) /\ sum[s] \in Int
  BY <1>1, FS_Subset, SumType
<1>3. \A s \in SUBSET S : s # {} =>
        Some(s) \in s /\ sum[s] = f[Some(s)] + sum[s \ {Some(s)}]
  <2> SUFFICES ASSUME NEW s \in SUBSET S, s # {}
               PROVE  Some(s) \in s /\ sum[s] = f[Some(s)] + sum[s \ {Some(s)}]
    OBVIOUS
  <2>1. Some(s) \in s
    BY SomeIsMember
  <2>2. SumFunctionOnSet(f, s) =
          f[Some(s)] + SumFunctionOnSet(f, s \ {Some(s)})
    BY <1>2, SumUnfolds
  <2>3. QED
    BY <2>1, <2>2, <1>1
<1> HIDE DEF sum
<1>4. CASE T # {}
  <2>1. PICK s \in T : \A t \in T : ~ (t \subseteq s /\ t # s)
    <3>1. T \subseteq SUBSET S
      OBVIOUS
    <3> HIDE DEF T
    <3>2. QED
      BY <1>4, <3>1, MinimalSubset
  <2>2. PICK y \in s : sum[s] # f[y] + sum[s \ {y}]
    OBVIOUS
  <2>3. ASSUME NEW t \in SUBSET s, t # s, NEW z \in t
        PROVE  sum[t] = f[z] + sum[t \ {z}]
    BY <2>1, <2>3
  <2>4. PICK c \in s : sum[s] = f[c] + sum[s \ {c}]
    BY <1>3
  <2>5. c # y
    BY <2>2, <2>4
  <2> DEFINE z == sum[(s \ {c}) \ {y}]
  <2>6. sum[s \ {c}] = f[y] + z
    BY <2>3, <2>5
  <2>7. sum[s \ {y}] = f[c] + z
    <3>1. (s \ {c}) \ {y} = (s \ {y}) \ {c}
      OBVIOUS
    <3>2. QED
      BY <2>3, <2>5, <3>1
  <2>8. f[c] \in Int /\ f[y] \in Int /\ z \in Int
    BY <1>2
  <2> HIDE DEF T, z
  <2>9. f[c] + (f[y] + z) = f[y] + (f[c] + z)
    BY <2>8
  <2>10. sum[s] = f[y] + sum[s \ {y}]
    BY <2>4, <2>6, <2>7, <2>9
  <2>11. QED
    BY <2>2, <2>10
<1>5. CASE T = {}
  <2>1. sum[S] = f[x] + sum[S \ {x}]
    BY <1>5
  <2>2. QED
    BY <1>1, <2>1
<1>6. QED
  BY <1>4, <1>5

(* Only the values on the set count.                                       *)
LEMMA SumOfEqual ==
  ASSUME NEW S, IsFiniteSet(S), NEW f, NEW g, \A x \in S : f[x] = g[x]
  PROVE  SumFunctionOnSet(f, S) = SumFunctionOnSet(g, S)
<1> DEFINE T == {s \in SUBSET S : SumFunctionOnSet(f, s) # SumFunctionOnSet(g, s)}
<1> SUFFICES ASSUME T # {} PROVE FALSE
  BY DEF T
<1>1. PICK s \in T : \A t \in T : ~ (t \subseteq s /\ t # s)
  <2> HIDE DEF T
  <2>1. T \subseteq SUBSET S
    BY DEF T
  <2>2. QED
    BY <2>1, MinimalSubset
<1>2. IsFiniteSet(s)
  BY FS_Subset
<1>3. /\ SumFunctionOnSet(f, s) =
           IF s = {} THEN 0 ELSE f[Some(s)] + SumFunctionOnSet(f, s \ {Some(s)})
      /\ SumFunctionOnSet(g, s) =
           IF s = {} THEN 0 ELSE g[Some(s)] + SumFunctionOnSet(g, s \ {Some(s)})
  BY <1>2, SumUnfolds
<1>4. s # {}
  BY <1>3
<1>5. Some(s) \in S /\ s \ {Some(s)} \subseteq s /\ s \ {Some(s)} # s
  BY <1>4, SomeIsMember
<1>6. SumFunctionOnSet(f, s \ {Some(s)}) = SumFunctionOnSet(g, s \ {Some(s)})
  BY <1>1, <1>5
<1>7. QED
  BY <1>3, <1>4, <1>5, <1>6

(* Nothing adds up to nothing.                                             *)
LEMMA SumOfZeros ==
  ASSUME NEW S, IsFiniteSet(S), NEW f, \A x \in S : f[x] = 0
  PROVE  SumFunctionOnSet(f, S) = 0
<1> DEFINE T == {s \in SUBSET S : SumFunctionOnSet(f, s) # 0}
<1> SUFFICES ASSUME T # {} PROVE FALSE
  BY DEF T
<1>1. PICK s \in T : \A t \in T : ~ (t \subseteq s /\ t # s)
  <2> HIDE DEF T
  <2>1. T \subseteq SUBSET S
    BY DEF T
  <2>2. QED
    BY <2>1, MinimalSubset
<1>2. IsFiniteSet(s)
  BY FS_Subset
<1>3. SumFunctionOnSet(f, s) =
        IF s = {} THEN 0 ELSE f[Some(s)] + SumFunctionOnSet(f, s \ {Some(s)})
  BY <1>2, SumUnfolds
<1>4. s # {}
  BY <1>3
<1>5. Some(s) \in S /\ s \ {Some(s)} \subseteq s /\ s \ {Some(s)} # s
  BY <1>4, SomeIsMember
<1>6. SumFunctionOnSet(f, s \ {Some(s)}) = 0
  BY <1>1, <1>5
<1>7. QED
  BY <1>3, <1>4, <1>5, <1>6

(* One value changes: the sum changes by the difference.                   *)
LEMMA SumOfChanged ==
  ASSUME NEW S, IsFiniteSet(S), NEW x \in S, NEW f, NEW g,
         \A y \in S : f[y] \in Int /\ g[y] \in Int,
         \A y \in S \ {x} : f[y] = g[y]
  PROVE  SumFunctionOnSet(g, S) = SumFunctionOnSet(f, S) - f[x] + g[x]
<1>1. IsFiniteSet(S \ {x})
  BY FS_RemoveElement
<1>2. SumFunctionOnSet(f, S \ {x}) = SumFunctionOnSet(g, S \ {x})
  BY <1>1, SumOfEqual
<1>3. /\ SumFunctionOnSet(f, S) = f[x] + SumFunctionOnSet(f, S \ {x})
      /\ SumFunctionOnSet(g, S) = g[x] + SumFunctionOnSet(g, S \ {x})
  BY SumRemove
<1>4. /\ SumFunctionOnSet(f, S \ {x}) \in Int
      /\ f[x] \in Int /\ g[x] \in Int
  BY <1>1, SumType
<1>5. QED
  BY <1>2, <1>3, <1>4

(* A sum of numbers none of which is negative is not negative, and is at   *)
(* least each of them.                                                     *)
LEMMA SumOfNaturals ==
  ASSUME NEW S, IsFiniteSet(S), NEW f, \A x \in S : f[x] \in Nat
  PROVE  /\ SumFunctionOnSet(f, S) \in Nat
         /\ \A x \in S : f[x] <= SumFunctionOnSet(f, S)
<1> DEFINE T == {s \in SUBSET S : SumFunctionOnSet(f, s) \notin Nat}
<1>1. T = {}
  <2> SUFFICES ASSUME T # {} PROVE FALSE
    OBVIOUS
  <2>1. PICK s \in T : \A t \in T : ~ (t \subseteq s /\ t # s)
    <3> HIDE DEF T
    <3>1. T \subseteq SUBSET S
      BY DEF T
    <3>2. QED
      BY <3>1, MinimalSubset
  <2>2. IsFiniteSet(s)
    BY FS_Subset
  <2>3. SumFunctionOnSet(f, s) =
          IF s = {} THEN 0 ELSE f[Some(s)] + SumFunctionOnSet(f, s \ {Some(s)})
    BY <2>2, SumUnfolds
  <2>4. s # {}
    BY <2>3
  <2>5. Some(s) \in S /\ s \ {Some(s)} \subseteq s /\ s \ {Some(s)} # s
    BY <2>4, SomeIsMember
  <2>6. SumFunctionOnSet(f, s \ {Some(s)}) \in Nat
    BY <2>1, <2>5
  <2>7. QED
    BY <2>3, <2>4, <2>5, <2>6
<1>2. \A s \in SUBSET S : SumFunctionOnSet(f, s) \in Nat
  BY <1>1
<1>3. ASSUME NEW x \in S
      PROVE  f[x] <= SumFunctionOnSet(f, S)
  <2>1. SumFunctionOnSet(f, S) = f[x] + SumFunctionOnSet(f, S \ {x})
    BY SumRemove
  <2>2. QED
    BY <1>2, <2>1
<1>4. QED
  BY <1>2, <1>3

(* Sums add up pointwise.                                                  *)
LEMMA SumOfSums ==
  ASSUME NEW S, IsFiniteSet(S), NEW f, NEW g, NEW h,
         \A x \in S : f[x] \in Int /\ g[x] \in Int /\ h[x] = f[x] + g[x]
  PROVE  SumFunctionOnSet(h, S) = SumFunctionOnSet(f, S) + SumFunctionOnSet(g, S)
<1> DEFINE T == {s \in SUBSET S : SumFunctionOnSet(h, s) #
                   SumFunctionOnSet(f, s) + SumFunctionOnSet(g, s)}
<1> SUFFICES ASSUME T # {} PROVE FALSE
  BY DEF T
<1>1. PICK s \in T : \A t \in T : ~ (t \subseteq s /\ t # s)
  <2> HIDE DEF T
  <2>1. T \subseteq SUBSET S
    BY DEF T
  <2>2. QED
    BY <2>1, MinimalSubset
<1>2. IsFiniteSet(s)
  BY FS_Subset
<1>3. s # {}
  <2> SUFFICES ASSUME s = {} PROVE FALSE
    OBVIOUS
  <2>1. /\ SumFunctionOnSet(f, s) = 0 /\ SumFunctionOnSet(g, s) = 0
        /\ SumFunctionOnSet(h, s) = 0
    BY <1>2, SumUnfolds
  <2>2. SumFunctionOnSet(h, s) # SumFunctionOnSet(f, s) + SumFunctionOnSet(g, s)
    BY DEF T
  <2>3. QED
    BY <2>1, <2>2
<1> DEFINE x == Some(s)
           rest == s \ {x}
<1>4. x \in s /\ x \in S /\ rest \subseteq s /\ rest # s
  BY <1>3, SomeIsMember
<1>5. /\ SumFunctionOnSet(f, s) = f[x] + SumFunctionOnSet(f, rest)
      /\ SumFunctionOnSet(g, s) = g[x] + SumFunctionOnSet(g, rest)
      /\ SumFunctionOnSet(h, s) = h[x] + SumFunctionOnSet(h, rest)
  BY <1>2, <1>3, SumUnfolds
<1>6. SumFunctionOnSet(h, rest) = SumFunctionOnSet(f, rest) + SumFunctionOnSet(g, rest)
  BY <1>1, <1>4
<1>7. SumFunctionOnSet(f, rest) \in Int /\ SumFunctionOnSet(g, rest) \in Int
  <2>1. IsFiniteSet(rest) /\ \A y \in rest : f[y] \in Int /\ g[y] \in Int
    BY <1>2, <1>4, FS_Subset
  <2>2. QED
    BY <2>1, SumType
<1>8. f[x] \in Int /\ g[x] \in Int /\ h[x] = f[x] + g[x]
  BY <1>4
<1> HIDE DEF x, rest
<1>9. SumFunctionOnSet(h, s) = SumFunctionOnSet(f, s) + SumFunctionOnSet(g, s)
  BY <1>5, <1>6, <1>7, <1>8
<1>10. QED
  BY <1>1, <1>9

(* The sum over a set is that over a part and that over the rest.          *)
LEMMA SumOfParts ==
  ASSUME NEW S, IsFiniteSet(S), NEW W \in SUBSET S, NEW f, \A x \in S : f[x] \in Int
  PROVE  SumFunctionOnSet(f, S) = SumFunctionOnSet(f, W) + SumFunctionOnSet(f, S \ W)
<1> DEFINE T == {s \in SUBSET S : SumFunctionOnSet(f, S) #
                   SumFunctionOnSet(f, s) + SumFunctionOnSet(f, S \ s)}
<1> SUFFICES ASSUME T # {} PROVE FALSE
  BY DEF T
<1>1. PICK s \in T : \A t \in T : ~ (t \subseteq s /\ t # s)
  <2> HIDE DEF T
  <2>1. T \subseteq SUBSET S
    BY DEF T
  <2>2. QED
    BY <2>1, MinimalSubset
<1>2. \A s1 \in SUBSET S : IsFiniteSet(s1) /\ SumFunctionOnSet(f, s1) \in Int
  BY FS_Subset, SumType
<1>3. s # {}
  <2> SUFFICES ASSUME s = {} PROVE FALSE
    OBVIOUS
  <2>1. SumFunctionOnSet(f, s) = 0 /\ S \ s = S
    BY SumOfEmpty
  <2>2. QED
    BY <1>2, <2>1
<1> DEFINE x == Some(s)
           rest == s \ {x}
           others == S \ rest
<1>4. /\ x \in s /\ x \in S /\ rest \subseteq s /\ rest # s /\ rest \in SUBSET S
      /\ others \in SUBSET S /\ x \in others /\ others \ {x} = S \ s
  BY <1>3, SomeIsMember
<1>5. SumFunctionOnSet(f, S) = SumFunctionOnSet(f, rest) + SumFunctionOnSet(f, others)
  BY <1>1, <1>4
<1>6. SumFunctionOnSet(f, s) = f[x] + SumFunctionOnSet(f, rest)
  <2>1. \A y \in s : f[y] \in Int
    OBVIOUS
  <2> HIDE DEF x
  <2>2. QED
    BY <1>2, <1>4, <2>1, SumRemove
<1>7. SumFunctionOnSet(f, others) = f[x] + SumFunctionOnSet(f, S \ s)
  <2>1. \A y \in others : f[y] \in Int
    OBVIOUS
  <2> HIDE DEF x, others
  <2>2. SumFunctionOnSet(f, others) = f[x] + SumFunctionOnSet(f, others \ {x})
    BY <1>2, <1>4, <2>1, SumRemove
  <2>3. QED
    BY <1>4, <2>2
<1>8. /\ f[x] \in Int /\ SumFunctionOnSet(f, rest) \in Int
      /\ SumFunctionOnSet(f, S \ s) \in Int
  BY <1>2, <1>4
<1> HIDE DEF x, rest, others
<1>9. SumFunctionOnSet(f, S) = SumFunctionOnSet(f, s) + SumFunctionOnSet(f, S \ s)
  BY <1>5, <1>6, <1>7, <1>8
<1>10. QED
  BY <1>1, <1>9

(* A part of a sum of naturals is at most the whole.                       *)
LEMMA SumOfSubset ==
  ASSUME NEW S, IsFiniteSet(S), NEW W \in SUBSET S, NEW f, \A x \in S : f[x] \in Nat
  PROVE  SumFunctionOnSet(f, W) <= SumFunctionOnSet(f, S)
<1>1. SumFunctionOnSet(f, S) = SumFunctionOnSet(f, W) + SumFunctionOnSet(f, S \ W)
  BY SumOfParts
<1>2. IsFiniteSet(W) /\ IsFiniteSet(S \ W)
  BY FS_Subset
<1>3. SumFunctionOnSet(f, W) \in Nat /\ SumFunctionOnSet(f, S \ W) \in Nat
  BY <1>2, SumOfNaturals
<1>4. QED
  BY <1>1, <1>3
=============================================================================
