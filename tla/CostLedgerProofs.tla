-------------------------- MODULE CostLedgerProofs --------------------------
(***************************************************************************)
(* Proofs about CostLedger for any limits, estimates and number of calls   *)
(* and days.  The laws of sums come first: they are proved by induction    *)
(* over sets (of numbers, of subsets), each made with a least element of a *)
(* well-founded order.                                                     *)
(***************************************************************************)
EXTENDS CostLedger, FiniteSetTheorems, TLAPS

LEMMA NatSets ==
    ASSUME NEW P \in SUBSET Nat, 0 \in P, \A n \in P : n + 1 \in P
    PROVE  P = Nat
<1> DEFINE Q == Nat \ P
<1> SUFFICES ASSUME Q # {} PROVE FALSE
    OBVIOUS
<1>1. \E x \in Q : \A y \in Q : ~ (<<y, x>> \in OpToRel(<, Nat))
  <2> Q \subseteq Nat OBVIOUS
  <2> HIDE DEF Q
  <2> QED BY NatLessThanWellFounded, WFMin
<1>2. PICK x \in Q : \A y \in Q : ~ (<<y, x>> \in OpToRel(<, Nat))
    BY <1>1
<1>3. x - 1 \in Q
    OBVIOUS
<1>4. <<x - 1, x>> \in OpToRel(<, Nat)
    BY <1>3 DEF OpToRel
<1> QED
    BY <1>2, <1>3, <1>4

\* The same for the subsets of a finite set, one element at a time.
LEMMA SubsetsOf ==
    ASSUME NEW S, IsFiniteSet(S), NEW P \in SUBSET (SUBSET S), {} \in P,
           \A T \in P, x \in S : x \notin T => T \cup {x} \in P
    PROVE  P = SUBSET S
<1> DEFINE Q == (SUBSET S) \ P
<1> SUFFICES ASSUME Q # {} PROVE FALSE
    OBVIOUS
<1>1. PICK T \in Q : \A U \in Q : ~ (<<U, T>> \in StrictSubsetOrdering(S))
  <2>1. IsWellFoundedOn(StrictSubsetOrdering(S), SUBSET S)
    BY FS_StrictSubsetOrderingWellFounded, FS_FiniteSubsetsOfFinite
  <2>2. Q \subseteq SUBSET S
    OBVIOUS
  <2> HIDE DEF Q
  <2> QED
    BY <2>1, <2>2, WFMin
<1>2. PICK x \in T : TRUE
  <2>1. T # {}
    BY <1>1
  <2> QED
    BY <2>1
<1>3. <<T \ {x}, T>> \in StrictSubsetOrdering(S)
    BY <1>2 DEF StrictSubsetOrdering
<1>4. T \ {x} \in P
    BY <1>1, <1>3
<1>5. T = (T \ {x}) \cup {x}
    BY <1>2
<1>6. T \in P
  <2>1. x \in S /\ x \notin T \ {x}
    BY <1>1, <1>2
  <2> QED
    BY <2>1, <1>4, <1>5
<1> QED
    BY <1>1, <1>6

First(s) == CHOOSE i \in s : TRUE
Sums(g, f, S) ==
    g = [s \in SUBSET S |-> IF s = {} THEN 0 ELSE f[First(s)] + g[s \ {First(s)}]]

LEMMA FirstIn == ASSUME NEW s, s # {} PROVE First(s) \in s
BY DEF First

Sized(s) ==
    /\ Cardinality(s) \in Nat
    /\ Cardinality(s) <= 0 => s = {}
    /\ s # {} => /\ First(s) \in s
                 /\ Cardinality(s \ {First(s)}) = Cardinality(s) - 1

LEMMA SizedSet ==
    ASSUME NEW s, IsFiniteSet(s)
    PROVE  Sized(s)
BY FS_CardinalityType, FS_EmptySet, FS_RemoveElement, FirstIn DEF Sized

LEMMA SumsExist ==
    ASSUME NEW f, NEW S, IsFiniteSet(S)
    PROVE  \E g : Sums(g, f, S)
<1> DEFINE Small(n) == {s \in SUBSET S : Cardinality(s) <= n}
           Upto(g, n) == g = [s \in Small(n) |->
                                 IF s = {} THEN 0 ELSE f[First(s)] + g[s \ {First(s)}]]
           P == {n \in Nat : \E g : Upto(g, n)}
<1>0. \A s \in SUBSET S : Sized(s)
    BY FS_Subset, SizedSet
<1> USE DEF Sized
<1>1. 0 \in P
  <2> DEFINE g == [s \in Small(0) |-> 0]
  <2>1. \A s \in Small(0) : s = {}
    BY <1>0
  <2>2. Upto(g, 0)
    BY <2>1
  <2> QED
    BY <2>2
<1>2. \A n \in P : n + 1 \in P
  <2>0. \A n \in Nat : n + 1 \in Nat
    OBVIOUS
  <2> SUFFICES ASSUME NEW n \in Nat, NEW g, Upto(g, n)
               PROVE  \E h : Upto(h, n + 1)
    BY <2>0
  <2> DEFINE h == [s \in Small(n + 1) |->
                      IF s = {} THEN 0 ELSE f[First(s)] + g[s \ {First(s)}]]
  <2>1. ASSUME NEW s \in Small(n + 1), s # {}
        PROVE  /\ s \ {First(s)} \in Small(n)
               /\ s \ {First(s)} \in Small(n + 1)
    BY <2>1, <1>0
  <2>2. ASSUME NEW s \in Small(n)
        PROVE  s \in Small(n + 1) /\ h[s] = g[s]
    <3>1. s \in Small(n + 1)
      <4>1. s \in SUBSET S /\ Cardinality(s) <= n
        BY <2>2
      <4>2. Cardinality(s) \in Nat
        BY <4>1, <1>0
      <4>3. Cardinality(s) <= n + 1
        BY <4>1, <4>2
      <4> QED
        BY <4>1, <4>3
    <3>2. g[s] = IF s = {} THEN 0 ELSE f[First(s)] + g[s \ {First(s)}]
      BY <2>2
    <3> QED
      BY <3>1, <3>2
  <2>3. \A s \in Small(n + 1) : s # {} => h[s \ {First(s)}] = g[s \ {First(s)}]
    BY <2>1, <2>2
  <2> HIDE DEF Small
  <2>4. Upto(h, n + 1)
    BY <2>3
  <2> QED
    BY <2>4
<1>3. P = Nat
  <2> P \in SUBSET Nat
    OBVIOUS
  <2> HIDE DEF P
  <2> QED
    BY <1>1, <1>2, NatSets
<1>4. PICK g : Upto(g, Cardinality(S))
    BY <1>0, <1>3
<1>5. Small(Cardinality(S)) = SUBSET S
    BY FS_Subset
<1> HIDE DEF Small
<1> QED
    BY <1>4, <1>5 DEF Sums

LEMMA SumIs ==
    ASSUME NEW f, NEW S, IsFiniteSet(S)
    PROVE  \E g : Sums(g, f, S) /\ SumFunctionOnSet(f, S) = g[S]
<1> DEFINE iter == CHOOSE g : Sums(g, f, S)
<1>1. Sums(iter, f, S)
   BY SumsExist
<1>2. SumFunctionOnSet(f, S) = iter[S]
   BY DEF Sums, SumFunctionOnSet, FoldFunctionOnSet, MapThenFoldSet, First
<1> QED
   BY <1>1, <1>2

\* Two such functions agree where both are defined.
LEMMA SumsAgree ==
    ASSUME NEW f, NEW S, IsFiniteSet(S), NEW T \in SUBSET S,
           NEW g, Sums(g, f, S), NEW h, Sums(h, f, T)
    PROVE  g[T] = h[T]
<1> DEFINE P == {n \in Nat : \A s \in SUBSET T : Cardinality(s) <= n => g[s] = h[s]}
<1>0. \A s \in SUBSET T : Sized(s)
    BY FS_Subset, SizedSet
<1> USE DEF Sized
<1>1. \A s \in SUBSET T :
         /\ g[s] = IF s = {} THEN 0 ELSE f[First(s)] + g[s \ {First(s)}]
         /\ h[s] = IF s = {} THEN 0 ELSE f[First(s)] + h[s \ {First(s)}]
    BY DEF Sums
<1>2. 0 \in P
    BY <1>0, <1>1
<1>3. \A n \in P : n + 1 \in P
  <2> SUFFICES ASSUME NEW n \in P, NEW s \in SUBSET T, Cardinality(s) <= n + 1
               PROVE  g[s] = h[s]
    OBVIOUS
  <2>1. CASE s = {}
    BY <2>1, <1>1
  <2>2. CASE s # {}
    <3>1. s \ {First(s)} \in SUBSET T /\ Cardinality(s \ {First(s)}) <= n
      BY <2>2, <1>0
    <3> QED
      BY <2>2, <3>1, <1>1
  <2> QED
    BY <2>1, <2>2
<1>4. P = Nat
  <2> P \in SUBSET Nat
    OBVIOUS
  <2> HIDE DEF P
  <2> QED
    BY <1>2, <1>3, NatSets
<1>5. Cardinality(T) \in P
    BY <1>0, <1>4
<1> QED
    BY <1>0, <1>5

\* The sum of no value is nothing ...
LEMMA SumOfNone ==
    ASSUME NEW f
    PROVE  SumFunctionOnSet(f, {}) = 0
<1>1. PICK g : Sums(g, f, {}) /\ SumFunctionOnSet(f, {}) = g[{}]
    BY SumIs, FS_EmptySet
<1> QED
    BY <1>1 DEF Sums

\* ... and the sum over a set is its first value plus the rest.
LEMMA SumUnfolds ==
    ASSUME NEW f, NEW S, IsFiniteSet(S), S # {}
    PROVE  SumFunctionOnSet(f, S) =
               f[First(S)] + SumFunctionOnSet(f, S \ {First(S)})
<1> DEFINE T == S \ {First(S)}
<1>1. IsFiniteSet(T) /\ T \in SUBSET S
    BY FS_Subset
<1>2. PICK g : Sums(g, f, S) /\ SumFunctionOnSet(f, S) = g[S]
    BY SumIs
<1>3. PICK h : Sums(h, f, T) /\ SumFunctionOnSet(f, T) = h[T]
    BY SumIs, <1>1
<1>4. g[T] = h[T]
  <2> HIDE DEF T
  <2> QED
    BY <1>1, <1>2, <1>3, SumsAgree
<1>5. g[S] = f[First(S)] + g[T]
    BY <1>2 DEF Sums
<1> QED
    BY <1>2, <1>3, <1>4, <1>5

\* Sums of natural numbers are natural numbers.
LEMMA SumInNat ==
    ASSUME NEW f, NEW S, IsFiniteSet(S), \A i \in S : f[i] \in Nat
    PROVE  SumFunctionOnSet(f, S) \in Nat
<1> DEFINE P == {n \in Nat : \A s \in SUBSET S :
                     Cardinality(s) <= n => SumFunctionOnSet(f, s) \in Nat}
<1>0. \A s \in SUBSET S : IsFiniteSet(s) /\ Sized(s)
    BY FS_Subset, SizedSet
<1>1. SumFunctionOnSet(f, {}) \in Nat
    BY SumOfNone
<1> USE DEF Sized
<1>2. 0 \in P
    BY <1>0, <1>1
<1>3. \A n \in P : n + 1 \in P
  <2>1. \A n \in Nat : n + 1 \in Nat
    OBVIOUS
  <2> SUFFICES ASSUME NEW n \in P, NEW s \in SUBSET S, Cardinality(s) <= n + 1
               PROVE  SumFunctionOnSet(f, s) \in Nat
    BY <2>1
  <2>2. CASE s = {}
    BY <2>2, <1>1
  <2>3. CASE s # {}
    <3>1. s \ {First(s)} \in SUBSET S /\ Cardinality(s \ {First(s)}) <= n
      BY <2>3, <1>0
    <3>2. SumFunctionOnSet(f, s \ {First(s)}) \in Nat
      BY <3>1
    <3>3. f[First(s)] \in Nat
      BY <2>3, <1>0
    <3>4. SumFunctionOnSet(f, s) = f[First(s)] + SumFunctionOnSet(f, s \ {First(s)})
      BY <2>3, <1>0, SumUnfolds
    <3> QED
      BY <3>2, <3>3, <3>4
  <2> QED
    BY <2>2, <2>3
<1>4. P = Nat
  <2> P \in SUBSET Nat
    OBVIOUS
  <2> HIDE DEF P
  <2> QED
    BY <1>2, <1>3, NatSets
<1>5. Cardinality(S) \in P
    BY <1>4, FS_CardinalityType
<1> QED
    BY <1>0, <1>5

\* Which value is taken first makes no difference.
LEMMA SumWithout ==
    ASSUME NEW f, NEW S, IsFiniteSet(S), \A i \in S : f[i] \in Nat, NEW x \in S
    PROVE  SumFunctionOnSet(f, S) = f[x] + SumFunctionOnSet(f, S \ {x})
<1> DEFINE Any(s) == \A y \in s :
                        SumFunctionOnSet(f, s) = f[y] + SumFunctionOnSet(f, s \ {y})
           P == {n \in Nat : \A s \in SUBSET S : Cardinality(s) <= n => Any(s)}
<1>0. \A s \in SUBSET S : IsFiniteSet(s) /\ Sized(s) /\ SumFunctionOnSet(f, s) \in Nat
    BY FS_Subset, SizedSet, SumInNat
<1> USE DEF Sized
<1>2. 0 \in P
    BY <1>0
<1>3. \A n \in P : n + 1 \in P
  <2>1. \A n \in Nat : n + 1 \in Nat
    OBVIOUS
  <2> SUFFICES ASSUME NEW n \in P, NEW s \in SUBSET S, Cardinality(s) <= n + 1,
                      NEW y \in s
               PROVE  SumFunctionOnSet(f, s) = f[y] + SumFunctionOnSet(f, s \ {y})
    BY <2>1
  <2> DEFINE z == First(s)
  <2>2. z \in s
    BY <1>0
  <2>3. SumFunctionOnSet(f, s) = f[z] + SumFunctionOnSet(f, s \ {z})
    BY <1>0, SumUnfolds
  <2> HIDE DEF z
  <2>4. CASE y = z
    BY <2>3, <2>4
  <2>5. CASE y # z
    <3> DEFINE both == s \ {y, z}
    <3>1. s \ {z} \in SUBSET S /\ Cardinality(s \ {z}) <= n
      BY <2>2, <1>0 DEF z
    <3>2. s \ {y} \in SUBSET S /\ Cardinality(s \ {y}) <= n
      <4>1. Cardinality(s \ {y}) = Cardinality(s) - 1
        BY <1>0, FS_RemoveElement
      <4>2. Cardinality(s) \in Nat
        BY <1>0
      <4> QED
        BY <4>1, <4>2
    <3>3. Any(s \ {z}) /\ Any(s \ {y})
      BY <3>1, <3>2
    <3>4. (s \ {z}) \ {y} = both /\ (s \ {y}) \ {z} = both
      OBVIOUS
    <3>5. SumFunctionOnSet(f, s \ {z}) = f[y] + SumFunctionOnSet(f, both)
      BY <3>3, <3>4, <2>5
    <3>6. SumFunctionOnSet(f, s \ {y}) = f[z] + SumFunctionOnSet(f, both)
      BY <3>3, <3>4, <2>5, <2>2
    <3>7. f[y] \in Nat /\ f[z] \in Nat /\ SumFunctionOnSet(f, both) \in Nat
      BY <2>2, <1>0
    <3> QED
      BY <2>3, <3>5, <3>6, <3>7
  <2> QED
    BY <2>4, <2>5
<1>4. P = Nat
  <2> P \in SUBSET Nat
    OBVIOUS
  <2> HIDE DEF P
  <2> QED
    BY <1>2, <1>3, NatSets
<1>5. Cardinality(S) \in P
    BY <1>4, FS_CardinalityType
<1> QED
    BY <1>0, <1>5

\* A sum over more values, each at least as large, is at least as large.
LEMMA SumGrows ==
    ASSUME NEW f, NEW g, NEW T, IsFiniteSet(T), NEW S \in SUBSET T,
           \A i \in T : g[i] \in Nat, \A i \in S : f[i] \in Nat /\ f[i] <= g[i]
    PROVE  SumFunctionOnSet(f, S) <= SumFunctionOnSet(g, T)
<1> DEFINE Below(s) == SumFunctionOnSet(f, s \cap S) <= SumFunctionOnSet(g, s)
           P == {s \in SUBSET T : Below(s)}
<1>0. \A s \in SUBSET T :
         /\ IsFiniteSet(s) /\ SumFunctionOnSet(g, s) \in Nat
         /\ IsFiniteSet(s \cap S) /\ SumFunctionOnSet(f, s \cap S) \in Nat
    BY FS_Subset, SumInNat
<1>1. {} \in P
  <2>1. {} \cap S = {}
    OBVIOUS
  <2> QED
    BY <2>1, SumOfNone
<1>2. \A s \in P, x \in T : x \notin s => s \cup {x} \in P
  <2> SUFFICES ASSUME NEW s \in P, NEW x \in T, x \notin s
               PROVE  Below(s \cup {x})
    OBVIOUS
  <2> DEFINE t == s \cup {x}
  <2>1. t \in SUBSET T /\ x \in t /\ t \ {x} = s
    OBVIOUS
  <2> HIDE DEF t
  <2>2. SumFunctionOnSet(g, t) = g[x] + SumFunctionOnSet(g, s)
    BY <2>1, <1>0, SumWithout
  <2>3. SumFunctionOnSet(f, s \cap S) <= SumFunctionOnSet(g, s)
    OBVIOUS
  <2>4. g[x] \in Nat /\ SumFunctionOnSet(g, s) \in Nat
        /\ SumFunctionOnSet(f, s \cap S) \in Nat
    BY <1>0
  <2>5. ASSUME x \in S PROVE Below(t)
    <3>1. (t \cap S) \ {x} = s \cap S /\ x \in t \cap S
      BY <2>1, <2>5
    <3>2. SumFunctionOnSet(f, t \cap S) = f[x] + SumFunctionOnSet(f, s \cap S)
      BY <2>1, <3>1, <1>0, SumWithout
    <3>3. f[x] \in Nat /\ f[x] <= g[x]
      BY <2>5
    <3> QED
      BY <2>2, <2>3, <2>4, <3>2, <3>3
  <2>6. ASSUME x \notin S PROVE Below(t)
    <3>1. t \cap S = s \cap S
      BY <2>1, <2>6
    <3>2. SumFunctionOnSet(f, t \cap S) = SumFunctionOnSet(f, s \cap S)
      BY <3>1, Zenon
    <3> QED
      BY <2>2, <2>3, <2>4, <3>2
  <2>7. Below(t)
    BY <2>5, <2>6
  <2> QED
    BY <2>7 DEF t
<1>3. P = SUBSET T
  <2> P \in SUBSET (SUBSET T)
    OBVIOUS
  <2> HIDE DEF P
  <2> QED
    BY <1>1, <1>2, SubsetsOf
<1>4. T \in P
    BY <1>3
<1>5. T \cap S = S
    OBVIOUS
<1> QED
    BY <1>4, <1>5

\* A sum depends on the values it adds only.
LEMMA SumOfSame ==
    ASSUME NEW f, NEW g, NEW S, IsFiniteSet(S),
           \A i \in S : f[i] \in Nat /\ f[i] = g[i]
    PROVE  SumFunctionOnSet(f, S) = SumFunctionOnSet(g, S)
<1>1. /\ SumFunctionOnSet(f, S) <= SumFunctionOnSet(g, S)
      /\ SumFunctionOnSet(g, S) <= SumFunctionOnSet(f, S)
    BY SumGrows
<1>2. SumFunctionOnSet(f, S) \in Nat /\ SumFunctionOnSet(g, S) \in Nat
    BY SumInNat
<1> QED
    BY <1>1, <1>2

-----------------------------------------------------------------------------
USE DEF journal

LEMMA InitTypeOK == Init => TypeOK
BY CostAssumption DEF Init, TypeOK, Days

LEMMA AmountsOf ==
    ASSUME NEW e \in Estimates \cup {0}, NEW c \in 0..e
    PROVE  c \in Amounts \cup {0}
<1>1. CASE e \in Estimates
    BY <1>1 DEF Amounts
<1>2. CASE e = 0
    BY <1>2
<1> QED
    BY <1>1, <1>2

LEMMA NextTypeOK == TypeOK /\ [Next]_vars => TypeOK'
<1> SUFFICES ASSUME TypeOK, [Next]_vars
             PROVE  TypeOK'
    OBVIOUS
<1> USE CostAssumption
<1>1. ASSUME NEW e \in Estimates, BeginCall(e)
      PROVE  TypeOK'
    BY <1>1 DEF TypeOK, BeginCall
<1>2. CASE CheckBudget
    BY <1>2 DEF TypeOK, CheckBudget
<1>3. ASSUME NEW i \in Ids, Reserve(i)
      PROVE  TypeOK'
    BY <1>3 DEF TypeOK, Reserve
<1>4. CASE Send
  <2>1. PICK cost \in 0..call.estimate : billed' = [billed EXCEPT ![call.id] = cost]
    BY <1>4 DEF Send
  <2>2. cost \in Amounts \cup {0}
    BY <2>1, AmountsOf DEF TypeOK
  <2> QED
    BY <1>4, <2>1, <2>2 DEF Send, TypeOK
<1>5. CASE Commit
  <2>1. PICK cost \in billed[call.id]..estimated[call.id] :
               actual' = [actual EXCEPT ![call.id] = cost]
    BY <1>5 DEF Commit
  <2>2. call.id \in Ids
    BY <1>5 DEF Commit, TypeOK
  <2>3. billed[call.id] \in Nat
    BY <2>2 DEF TypeOK, Amounts
  <2>4. cost \in Amounts \cup {0}
    <3>1. estimated[call.id] \in Estimates \cup {0}
      BY <2>2 DEF TypeOK
    <3>2. cost \in 0..estimated[call.id]
      BY <2>1, <2>3, <3>1
    <3> QED
      BY <3>1, <3>2, AmountsOf
  <2> QED
    BY <1>5, <2>1, <2>2, <2>4 DEF Commit, TypeOK
<1>6. CASE Refund
    BY <1>6 DEF TypeOK, Refund
<1>7. CASE Crash
    BY <1>7 DEF TypeOK, Crash
<1>8. CASE Midnight
    BY <1>8 DEF TypeOK, Midnight, Days
<1>9. CASE UNCHANGED vars
    BY <1>9 DEF TypeOK, vars
<1> QED
    BY <1>1, <1>2, <1>3, <1>4, <1>5, <1>6, <1>7, <1>8, <1>9 DEF Next

\* Every variable keeps its type: what is charged and billed stays within the
\* estimates (PersistentDailyCostLedger).
THEOREM TypeCorrect == Spec => []TypeOK
    BY InitTypeOK, NextTypeOK, PTL DEF Spec

-----------------------------------------------------------------------------
LEMMA CallsAreCounted ==
    ASSUME BudgetInv, NEW d
    PROVE  IsFiniteSet(OfDay(d)) /\ Calls(d) \in Nat
<1>1. OfDay(d) \subseteq {i \in Ids : status[i] # "none"}
    BY DEF OfDay
<1> QED
    BY <1>1, FS_Subset, FS_CardinalityType DEF BudgetInv, Calls

LEMMA InitBudgetInv == Init => BudgetInv
<1> SUFFICES ASSUME Init PROVE BudgetInv
    OBVIOUS
<1>1. {i \in Ids : status[i] # "none"} = {}
    BY DEF Init
<1>2. \A d : Calls(d) = 0
    BY <1>1, FS_EmptySet DEF Calls, OfDay
<1> QED
    BY <1>1, <1>2, FS_EmptySet, CostAssumption DEF Init, BudgetInv

LEMMA ReserveKeeps ==
    ASSUME TypeOK, BudgetInv, NEW i \in Ids, Reserve(i)
    PROVE  BudgetInv'
<1> USE CostAssumption
<1>1. /\ pc = "checked" /\ pc' = "reserved" /\ today' = today
      /\ call.day \in Days /\ call'.day = call.day /\ call.day <= today
      /\ status[i] = "none" /\ status'[i] = "reserved" /\ day'[i] = call.day
      /\ \A j \in Ids : j # i => status'[j] = status[j] /\ day'[j] = day[j]
    BY DEF Reserve, TypeOK, BudgetInv
<1>2. {j \in Ids : status'[j] # "none"} = {j \in Ids : status[j] # "none"} \cup {i}
    BY <1>1
<1>3. IsFiniteSet({j \in Ids : status'[j] # "none"})
    BY <1>2, FS_AddElement DEF BudgetInv
<1>4. \A d : d # call.day => Calls(d)' = Calls(d)
  <2> SUFFICES ASSUME NEW d, d # call.day
               PROVE  OfDay(d)' = OfDay(d)
    BY DEF Calls
  <2> QED
    BY <1>1 DEF OfDay
<1>5. Calls(call.day)' = Calls(call.day) + 1
  <2>1. OfDay(call.day)' = OfDay(call.day) \cup {i} /\ i \notin OfDay(call.day)
    BY <1>1 DEF OfDay
  <2>2. Cardinality(OfDay(call.day) \cup {i}) = Cardinality(OfDay(call.day)) + 1
    BY <2>1, CallsAreCounted, FS_AddElement
  <2> QED
    BY <1>1, <2>1, <2>2 DEF Calls
<1>6. Calls(call.day) \in Nat
    BY CallsAreCounted
<1>7. Calls(today)' <= MaxCalls
    BY <1>1, <1>4, <1>5, <1>6 DEF BudgetInv
<1>8. \A d \in Days : Calls(d)' <= MaxCalls + 1
    BY <1>1, <1>4, <1>5, <1>6 DEF BudgetInv
<1>9. \A j \in Ids : status'[j] # "none" => day'[j] <= today
    BY <1>1 DEF BudgetInv
<1> QED
    BY <1>1, <1>3, <1>7, <1>8, <1>9 DEF BudgetInv

LEMMA MidnightKeeps ==
    ASSUME TypeOK, BudgetInv, Midnight
    PROVE  BudgetInv'
<1> USE CostAssumption
<1>1. /\ today' = today + 1 /\ today \in Nat /\ day \in [Ids -> Nat]
      /\ pc' = pc /\ call' = call /\ call.day \in Nat
      /\ status' = status /\ day' = day
    BY DEF Midnight, TypeOK, Days
<1>2. \A d : OfDay(d)' = OfDay(d)
    BY <1>1 DEF OfDay
<1>3. \A d : Calls(d)' = Calls(d)
    BY <1>2 DEF Calls
<1>4. OfDay(today + 1) = {}
    BY <1>1 DEF OfDay, BudgetInv
<1>5. Calls(today + 1) = 0
    BY <1>4, FS_EmptySet DEF Calls
<1>6. Calls(today)' = 0
    BY <1>1, <1>2, <1>5 DEF Calls
<1>7. call.day <= today => call.day # today + 1
    BY <1>1
<1> QED
    BY <1>1, <1>3, <1>6, <1>7 DEF BudgetInv

LEMMA NextBudgetInv == TypeOK /\ BudgetInv /\ [Next]_vars => BudgetInv'
<1> SUFFICES ASSUME TypeOK, BudgetInv, [Next]_vars
             PROVE  BudgetInv'
    OBVIOUS
<1>1. ASSUME NEW i \in Ids, Reserve(i)
      PROVE  BudgetInv'
    BY <1>1, ReserveKeeps
<1>2. CASE Midnight
    BY <1>2, MidnightKeeps
<1>3. ASSUME \/ \E e \in Estimates : BeginCall(e)
             \/ CheckBudget \/ Send \/ Commit \/ Refund \/ Crash
             \/ UNCHANGED vars
      PROVE  BudgetInv'
  <2>1. /\ today' = today /\ day' = day
        /\ \A i \in Ids : status'[i] # "none" <=> status[i] # "none"
    BY <1>3 DEF BeginCall, CheckBudget, Send, Commit, Refund, Crash, vars, TypeOK
  <2>2. \A d : OfDay(d)' = OfDay(d)
    BY <2>1 DEF OfDay
  <2>3. \A d : Calls(d)' = Calls(d)
    BY <2>2 DEF Calls
  <2>4. {i \in Ids : status'[i] # "none"} = {i \in Ids : status[i] # "none"}
    BY <2>1
  <2>5. /\ pc' # "idle" => call'.day <= today
        /\ pc' \in {"dated", "checked"} => Calls(call'.day) <= MaxCalls
        /\ pc' = "checked" /\ call'.day = today => Calls(today) + 1 <= MaxCalls
    <3>1. CASE \E e \in Estimates : BeginCall(e)
      BY <3>1 DEF BeginCall, BudgetInv, TypeOK, Days
    <3>2. CASE CheckBudget
      BY <3>2 DEF CheckBudget, BudgetInv
    <3>3. CASE Send \/ Commit \/ Refund \/ Crash
      BY <3>3 DEF Send, Commit, Refund, Crash, BudgetInv
    <3>4. CASE UNCHANGED vars
      BY <3>4 DEF vars, BudgetInv
    <3> QED
      BY <1>3, <3>1, <3>2, <3>3, <3>4
  <2>6. Calls(today)' = Calls(today) /\ Calls(call.day)' = Calls(call'.day)
    BY <2>1, <2>2 DEF Calls
  <2> QED
    BY <2>1, <2>3, <2>4, <2>5, <2>6 DEF BudgetInv
<1> QED
    BY <1>1, <1>2, <1>3 DEF Next

\* The call limit holds for the day in progress, and a past day exceeds it by
\* one at most: calls under way, failures, crashes and midnight included
\* (PersistentDailyCostLedger.reserve).
THEOREM CallLimitHolds == Spec => []BudgetInv
<1>1. Init => TypeOK /\ BudgetInv
    BY InitTypeOK, InitBudgetInv
<1>2. TypeOK /\ BudgetInv /\ [Next]_vars => (TypeOK /\ BudgetInv)'
    BY NextTypeOK, NextBudgetInv
<1> QED
    BY <1>1, <1>2, PTL DEF Spec

LEMMA KeepCounting == TypeOK /\ [Next]_vars => CallsKeepCounting
<1> SUFFICES ASSUME TypeOK, [Next]_vars,
                    NEW i \in Ids, status[i] # "none"
             PROVE  /\ status'[i] # "none" /\ day'[i] = day[i]
                    /\ Charge(i)' # Charge(i) =>
                          /\ status[i] = "reserved"
                          /\ Charge(i)' \in billed[i]..Charge(i)
    BY DEF CallsKeepCounting
<1>1. ASSUME NEW j \in Ids, Reserve(j)
      PROVE  /\ status'[i] # "none" /\ day'[i] = day[i] /\ Charge(i)' = Charge(i)
    BY <1>1 DEF Reserve, TypeOK, Charge
<1>2. CASE Commit
    BY <1>2 DEF Commit, TypeOK, Charge
<1>3. CASE Refund
    BY <1>3 DEF Refund, TypeOK, Charge
<1>4. CASE \/ \E e \in Estimates : BeginCall(e)
           \/ CheckBudget \/ Send \/ Crash \/ Midnight \/ UNCHANGED vars
    BY <1>4 DEF BeginCall, CheckBudget, Send, Crash, Midnight, vars, Charge
<1> QED
    BY <1>1, <1>2, <1>3, <1>4 DEF Next

\* A call once reserved counts for ever, and only its commit lowers its charge,
\* never below the bill (commit, refund, and a crash before either).
THEOREM ReservationsStay == Spec => NothingIsForgotten
<1>1. TypeOK /\ [Next]_vars => [CallsKeepCounting]_vars
    BY KeepCounting
<1> QED
    BY <1>1, TypeCorrect, PTL DEF Spec, NothingIsForgotten

-----------------------------------------------------------------------------
(* Costs of a day.                                                         *)

\* Costs are sums of finitely many natural numbers.
CostsAreNumbers ==
    /\ call.estimate \in Nat
    /\ \A i \in Ids : /\ actual[i] \in Nat /\ estimated[i] \in Nat
                      /\ billed[i] \in Nat /\ Charge(i) \in Nat
    /\ \A d : IsFiniteSet(OfDay(d)) /\ OfDay(d) \subseteq Ids /\ Cost(d) \in Nat

LEMMA CostsAreCounted == TypeOK /\ BudgetInv => CostsAreNumbers
<1> SUFFICES ASSUME TypeOK, BudgetInv PROVE CostsAreNumbers
    OBVIOUS
<1>0. call.estimate \in Nat
  <2>1. call.estimate \in Estimates \cup {0} /\ Estimates \cup {0} \subseteq Nat
    BY CostAssumption DEF TypeOK
  <2> QED
    BY <2>1, Zenon
<1>1. \A i \in Ids : actual[i] \in Nat /\ estimated[i] \in Nat /\ billed[i] \in Nat
  <2>1. Amounts \cup {0} \subseteq Nat /\ Estimates \cup {0} \subseteq Nat
    BY CostAssumption DEF Amounts
  <2> QED
    BY <2>1 DEF TypeOK
<1>2. \A d : IsFiniteSet(OfDay(d)) /\ OfDay(d) \subseteq Ids
    BY CallsAreCounted DEF OfDay
<1>3. \A i \in Ids : Charge(i) \in Nat
    BY <1>1 DEF Charge
<1>4. ASSUME NEW d PROVE Cost(d) \in Nat
  <2>1. \A i \in OfDay(d) : [j \in Ids |-> Charge(j)][i] \in Nat
    BY <1>2, <1>3
  <2> QED
    BY <2>1, <1>2, SumInNat DEF Cost
<1> QED
    BY <1>0, <1>1, <1>2, <1>3, <1>4 DEF CostsAreNumbers

\* As long as no call is reserved, costs can only fall.
LEMMA CostsFall ==
    ASSUME CostsAreNumbers, CostsAreNumbers', day' = day,
           \A i \in Ids : /\ status'[i] # "none" <=> status[i] # "none"
                          /\ Charge(i)' <= Charge(i)
    PROVE  \A d : Cost(d)' <= Cost(d)
<1> SUFFICES ASSUME NEW d
             PROVE  Cost(d)' <= Cost(d)
    OBVIOUS
<1>1. OfDay(d)' = OfDay(d)
    BY DEF OfDay
<1> DEFINE f == [i \in Ids |-> Charge(i)']
           g == [i \in Ids |-> Charge(i)]
<1>2. /\ IsFiniteSet(OfDay(d))
      /\ \A i \in OfDay(d) : f[i] \in Nat /\ f[i] <= g[i] /\ g[i] \in Nat
    BY DEF CostsAreNumbers
<1>3. Cost(d) = SumFunctionOnSet(g, OfDay(d))
    BY DEF Cost
<1>4. Cost(d)' = SumFunctionOnSet(f, OfDay(d))
    BY <1>1 DEF Cost
<1> HIDE DEF f, g
<1> QED
    BY <1>2, <1>3, <1>4, SumGrows

\* A reservation adds its estimate to the cost of its day.
LEMMA ReserveAdds ==
    ASSUME CostsAreNumbers, CostsAreNumbers', TypeOK, NEW i \in Ids, Reserve(i)
    PROVE  \A d : /\ d = call.day => Cost(d)' = Cost(d) + call.estimate
                  /\ d # call.day => Cost(d)' = Cost(d)
<1> DEFINE f == [j \in Ids |-> Charge(j)']
           g == [j \in Ids |-> Charge(j)]
<1>1. /\ status[i] = "none" /\ status'[i] = "reserved" /\ day'[i] = call.day
      /\ estimated'[i] = call.estimate /\ actual' = actual
      /\ \A j \in Ids : j # i =>
            status'[j] = status[j] /\ day'[j] = day[j] /\ estimated'[j] = estimated[j]
    BY DEF Reserve, TypeOK
<1>2. /\ Charge(i)' = call.estimate
      /\ \A j \in Ids : j # i => Charge(j)' = Charge(j)
    BY <1>1 DEF Charge
<1>3. \A d : /\ Cost(d) = SumFunctionOnSet(g, OfDay(d))
             /\ Cost(d)' = SumFunctionOnSet(f, OfDay(d)')
             /\ IsFiniteSet(OfDay(d)) /\ IsFiniteSet(OfDay(d)')
    BY DEF Cost, CostsAreNumbers
<1>4. \A d : i \notin OfDay(d)
    BY <1>1 DEF OfDay
<1>5. \A j \in Ids : f[j] \in Nat /\ g[j] \in Nat /\ (j # i => f[j] = g[j])
    BY <1>2 DEF CostsAreNumbers
<1>6. \A d : OfDay(d) \subseteq Ids /\ OfDay(d)' \subseteq Ids
    BY DEF OfDay
<1>7. f[i] = call.estimate
    BY <1>2
<1> HIDE DEF f, g
<1>8. \A d : SumFunctionOnSet(f, OfDay(d)) = SumFunctionOnSet(g, OfDay(d))
  <2> SUFFICES ASSUME NEW d
               PROVE  SumFunctionOnSet(f, OfDay(d)) = SumFunctionOnSet(g, OfDay(d))
    OBVIOUS
  <2>1. \A j \in OfDay(d) : f[j] \in Nat /\ f[j] = g[j]
    BY <1>4, <1>5, <1>6
  <2> QED
    BY <2>1, <1>3, SumOfSame
<1>9. ASSUME NEW d, d = call.day
      PROVE  Cost(d)' = Cost(d) + call.estimate
  <2> DEFINE later == OfDay(d)'
  <2>1. later \ {i} = OfDay(d) /\ i \in later
    BY <1>1, <1>9 DEF OfDay
  <2>2. IsFiniteSet(later) /\ \A j \in later : f[j] \in Nat
    BY <1>3, <1>5, <1>6
  <2>3. Cost(d) = SumFunctionOnSet(g, OfDay(d)) /\ Cost(d)' = SumFunctionOnSet(f, later)
    BY <1>3
  <2> HIDE DEF later
  <2>4. SumFunctionOnSet(f, later) = f[i] + SumFunctionOnSet(f, later \ {i})
    BY <2>1, <2>2, SumWithout
  <2>5. SumFunctionOnSet(f, later \ {i}) = SumFunctionOnSet(g, OfDay(d))
    BY <2>1, <1>8, Zenon
  <2>6. Cost(d) \in Nat /\ call.estimate \in Nat
    BY <1>5, <1>7 DEF CostsAreNumbers
  <2> QED
    BY <2>3, <2>4, <2>5, <2>6, <1>7
<1>10. ASSUME NEW d, d # call.day
       PROVE  Cost(d)' = Cost(d)
  <2>1. OfDay(d)' = OfDay(d)
    BY <1>1, <1>10 DEF OfDay
  <2> QED
    BY <2>1, <1>3, <1>8
<1> QED
    BY <1>9, <1>10

-----------------------------------------------------------------------------
(* The cost limit.                                                         *)

LEMMA InitMoneyInv == Init => MoneyInv
<1> SUFFICES ASSUME Init PROVE MoneyInv
    OBVIOUS
<1>1. \A d : OfDay(d) = {}
    BY DEF Init, OfDay
<1>2. \A d : Cost(d) = 0
    BY <1>1, SumOfNone DEF Cost
<1> QED
    BY <1>2, CostAssumption DEF Init, MoneyInv, EachIsCovered, UnderWay, CostInv, Charge

LEMMA CoveredStays ==
    ASSUME TypeOK, CostsAreNumbers, EachIsCovered, UnderWay, [Next]_vars
    PROVE  EachIsCovered'
<1>1. ASSUME NEW i \in Ids, Reserve(i)
      PROVE  EachIsCovered'
    BY <1>1 DEF Reserve, EachIsCovered, TypeOK, Charge, CostsAreNumbers
<1>2. CASE Send
  <2>1. /\ call.id \in Ids /\ status[call.id] = "reserved"
        /\ estimated[call.id] = call.estimate
    BY <1>2 DEF Send, TypeOK, UnderWay
  <2>2. PICK cost \in 0..call.estimate : billed' = [billed EXCEPT ![call.id] = cost]
    BY <1>2 DEF Send
  <2> QED
    BY <1>2, <2>1, <2>2 DEF Send, EachIsCovered, TypeOK, Charge
<1>3. CASE Commit
  <2>1. call.id \in Ids /\ status[call.id] = "reserved"
    BY <1>3 DEF Commit, TypeOK
  <2>2. PICK cost \in billed[call.id]..estimated[call.id] :
               actual' = [actual EXCEPT ![call.id] = cost]
    BY <1>3 DEF Commit
  <2>3. cost \in Nat /\ billed[call.id] <= cost /\ cost <= estimated[call.id]
    BY <2>1, <2>2 DEF CostsAreNumbers
  <2> QED
    BY <1>3, <2>1, <2>2, <2>3 DEF Commit, EachIsCovered, TypeOK, Charge
<1>4. CASE Refund
    BY <1>4 DEF Refund, EachIsCovered, TypeOK, Charge
<1>5. CASE \/ \E e \in Estimates : BeginCall(e)
           \/ CheckBudget \/ Crash \/ Midnight \/ UNCHANGED vars
    BY <1>5 DEF BeginCall, CheckBudget, Crash, Midnight, vars, EachIsCovered, Charge
<1> QED
    BY <1>1, <1>2, <1>3, <1>4, <1>5 DEF Next

LEMMA UnderWayStays ==
    ASSUME TypeOK, UnderWay, [Next]_vars
    PROVE  UnderWay'
<1>1. ASSUME NEW i \in Ids, Reserve(i)
      PROVE  UnderWay'
    BY <1>1 DEF Reserve, UnderWay, TypeOK
<1>2. CASE \/ \E e \in Estimates : BeginCall(e)
           \/ CheckBudget \/ Send \/ Commit \/ Refund \/ Crash \/ Midnight
           \/ UNCHANGED vars
    BY <1>2 DEF BeginCall, CheckBudget, Send, Commit, Refund, Crash, Midnight, vars, UnderWay
<1> QED
    BY <1>1, <1>2 DEF Next

LEMMA ReserveWithinCost ==
    ASSUME TypeOK, BudgetInv, CostsAreNumbers, CostsAreNumbers', CostInv,
           NEW i \in Ids, Reserve(i)
    PROVE  CostInv'
<1>1. /\ pc = "checked" /\ pc' = "reserved" /\ today' = today
      /\ call.day \in Days /\ today \in Days /\ call.estimate \in Nat
    BY DEF Reserve, TypeOK, CostsAreNumbers
<1>2. \A d : /\ d = call.day => Cost(d)' = Cost(d) + call.estimate
             /\ d # call.day => Cost(d)' = Cost(d)
    BY ReserveAdds
<1>3. \A d : Cost(d) \in Nat
    BY DEF CostsAreNumbers
<1>4. \A d \in Days : Cost(d)' <= 2 * MaxCost
    BY <1>1, <1>2, <1>3, CostAssumption DEF CostInv
<1>5. ASSUME NEW d, d = today
      PROVE  Cost(d)' <= MaxCost
    BY <1>1, <1>2, <1>3, <1>5 DEF CostInv
<1>6. Cost(today)' <= MaxCost
    BY <1>1, <1>5
<1> QED
    BY <1>1, <1>4, <1>6 DEF CostInv

LEMMA MidnightWithinCost ==
    ASSUME TypeOK, BudgetInv, CostsAreNumbers, CostInv, Midnight
    PROVE  CostInv'
<1> USE CostAssumption
<1>1. /\ today' = today + 1 /\ today \in Nat /\ day \in [Ids -> Nat]
      /\ pc' = pc /\ call' = call /\ call.day \in Nat
      /\ UNCHANGED <<status, day, estimated, actual>>
    BY DEF Midnight, TypeOK, Days
<1>2. \A d : OfDay(d)' = OfDay(d)
    BY <1>1 DEF OfDay
<1>3. \A d : Cost(d)' = Cost(d)
    BY <1>1, <1>2 DEF Cost, Charge
<1>4. OfDay(today + 1) = {}
    BY <1>1 DEF OfDay, BudgetInv
<1>5. Cost(today + 1) = 0
    BY <1>4, SumOfNone DEF Cost
<1>6. Cost(today)' = 0 /\ Cost(call.day)' = Cost(call.day)
    BY <1>1, <1>2, <1>5 DEF Cost, Charge
<1>7. pc \in {"dated", "checked"} => call.day # today + 1
    BY <1>1 DEF BudgetInv
<1> QED
    BY <1>1, <1>3, <1>6, <1>7 DEF CostInv

LEMMA CostInvStays ==
    ASSUME TypeOK, BudgetInv, CostsAreNumbers, CostsAreNumbers', EachIsCovered,
           CostInv, [Next]_vars
    PROVE  CostInv'
<1>1. ASSUME NEW i \in Ids, Reserve(i)
      PROVE  CostInv'
    BY <1>1, ReserveWithinCost
<1>2. CASE Midnight
    BY <1>2, MidnightWithinCost
<1>3. CASE \/ \E e \in Estimates : BeginCall(e)
           \/ CheckBudget \/ Send \/ Commit \/ Refund \/ Crash
           \/ UNCHANGED vars
  <2>1. /\ today' = today /\ today \in Days /\ day' = day
        /\ \A i \in Ids : status'[i] # "none" <=> status[i] # "none"
    BY <1>3 DEF BeginCall, CheckBudget, Send, Commit, Refund, Crash, vars, TypeOK
  <2>2. \A i \in Ids : Charge(i)' <= Charge(i)
    <3>1. CASE Commit
      <4>1. PICK cost \in billed[call.id]..estimated[call.id] :
                   actual' = [actual EXCEPT ![call.id] = cost]
        BY <3>1 DEF Commit
      <4>2. call.id \in Ids /\ cost \in Nat /\ cost <= estimated[call.id]
        BY <3>1, <4>1 DEF Commit, TypeOK, CostsAreNumbers
      <4> QED
        BY <3>1, <4>1, <4>2 DEF Commit, Charge, TypeOK, CostsAreNumbers
    <3>2. CASE Refund
      BY <3>2 DEF Refund, Charge, TypeOK, CostsAreNumbers
    <3>3. CASE \/ \E e \in Estimates : BeginCall(e)
               \/ CheckBudget \/ Send \/ Crash \/ UNCHANGED vars
      BY <3>3 DEF BeginCall, CheckBudget, Send, Crash, vars, Charge, CostsAreNumbers
    <3> QED
      BY <1>3, <3>1, <3>2, <3>3
  <2>3. \A d : Cost(d)' <= Cost(d) /\ Cost(d)' \in Nat /\ Cost(d) \in Nat
    BY <2>1, <2>2, CostsFall DEF CostsAreNumbers
  <2>4. Cost(today)' <= Cost(today)
    BY <2>1, <2>3
  <2>5. /\ pc' \in {"dated", "checked"} => Cost(call'.day) <= MaxCost
        /\ pc' = "checked" => call'.estimate <= MaxCost
        /\ pc' = "checked" /\ call'.day = today =>
              Cost(today) + call'.estimate <= MaxCost
    <3>1. CASE \E e \in Estimates : BeginCall(e)
      BY <3>1 DEF BeginCall, CostInv
    <3>2. CASE CheckBudget
      BY <3>2, <2>3, CostAssumption DEF CheckBudget, CostInv, CostsAreNumbers
    <3>3. CASE Send \/ Commit \/ Refund \/ Crash
      BY <3>3 DEF Send, Commit, Refund, Crash, CostInv
    <3>4. CASE UNCHANGED vars
      BY <3>4 DEF vars, CostInv
    <3> QED
      BY <1>3, <3>1, <3>2, <3>3, <3>4
  <2>6. ASSUME NEW d, d = call'.day
        PROVE  Cost(call.day)' <= Cost(d)
    BY <2>3, <2>6
  <2>7. call'.day = call'.day /\ Cost(call.day)' \in Nat /\ Cost(call'.day) \in Nat
    BY <2>3
  <2>8. Cost(call.day)' <= Cost(call'.day)
    BY <2>6
  <2>9. \A d \in Days : Cost(d)' <= 2 * MaxCost
    BY <2>3, CostAssumption DEF CostInv
  <2>10. Cost(today)' \in Nat /\ Cost(today) \in Nat
    BY <2>1, <2>3
  <2>11. call'.estimate \in Nat
    BY DEF CostsAreNumbers
  <2> QED
    BY <2>1, <2>4, <2>5, <2>7, <2>8, <2>9, <2>10, <2>11, CostAssumption DEF CostInv
<1> QED
    BY <1>1, <1>2, <1>3 DEF Next

LEMMA MoneyIsHeld == TypeOK /\ BudgetInv /\ MoneyInv => BudgetHolds
<1> SUFFICES ASSUME TypeOK, BudgetInv, MoneyInv PROVE BudgetHolds
    OBVIOUS
<1>1. CostsAreNumbers
    BY CostsAreCounted
<1>2. ASSUME NEW d \in Days
      PROVE  SumFunctionOnSet(billed, {i \in Ids : billed[i] > 0 /\ day[i] = d}) <= Cost(d)
  <2> DEFINE g == [i \in Ids |-> Charge(i)]
             made == {i \in Ids : billed[i] > 0 /\ day[i] = d}
  <2>1. made \subseteq OfDay(d)
    BY <1>1 DEF OfDay, MoneyInv, EachIsCovered
  <2>2. /\ IsFiniteSet(OfDay(d))
        /\ \A i \in OfDay(d) : g[i] \in Nat
        /\ \A i \in made : billed[i] \in Nat /\ billed[i] <= g[i]
    BY <1>1 DEF CostsAreNumbers, MoneyInv, EachIsCovered
  <2>3. Cost(d) = SumFunctionOnSet(g, OfDay(d))
    BY DEF Cost
  <2> HIDE DEF g, made
  <2>4. SumFunctionOnSet(billed, made) <= SumFunctionOnSet(g, OfDay(d))
    BY <2>1, <2>2, SumGrows
  <2> QED
    BY <2>3, <2>4 DEF made
<1> QED
    BY <1>2 DEF BudgetHolds, TodayWithinLimit, OverdraftIsOneCall, ChargeCoversBill,
                BudgetInv, MoneyInv, CostInv

\* The limits bound what is spent, whatever a call's outcome and whenever a
\* crash or midnight comes: the day in progress is within both, a past day
\* exceeds them by one call at most, and no day shows less than what its calls
\* were billed (reserve, commit, refund).
THEOREM CostLimitHolds == Spec => []BudgetHolds
<1> DEFINE Inv == TypeOK /\ BudgetInv /\ MoneyInv
<1>1. Init => Inv
    BY InitTypeOK, InitBudgetInv, InitMoneyInv
<1>2. Inv /\ [Next]_vars => Inv'
  <2> SUFFICES ASSUME TypeOK, BudgetInv, MoneyInv, [Next]_vars
               PROVE  Inv'
    OBVIOUS
  <2>1. TypeOK' /\ BudgetInv'
    BY NextTypeOK, NextBudgetInv
  <2>2. CostsAreNumbers
    BY CostsAreCounted
  <2>3. CostsAreNumbers'
    BY <2>1, CostsAreCounted, PTL
  <2>4. EachIsCovered' /\ UnderWay' /\ CostInv'
    BY <2>2, <2>3, CoveredStays, UnderWayStays, CostInvStays DEF MoneyInv
  <2> QED
    BY <2>1, <2>4 DEF MoneyInv
<1>3. Inv => BudgetHolds
    BY MoneyIsHeld
<1> QED
    BY <1>1, <1>2, <1>3, PTL DEF Spec
=============================================================================
