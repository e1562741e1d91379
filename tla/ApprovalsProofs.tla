-------------------------- MODULE ApprovalsProofs ---------------------------
(***************************************************************************)
(* Proofs about Approvals for any drafts, versions and lifetimes and any   *)
(* number of records, also past the hundred that a list returns.           *)
(***************************************************************************)
EXTENDS Approvals, FiniteSetTheorems, FunctionTheorems, NaturalsInduction,
        WellFoundedInduction, TLAPS

USE DEF env

LEMMA InitTypeOK == Init => TypeOK
BY ApprovalAssumption DEF Init, TypeOK, Time

LEMMA NextTypeOK == TypeOK /\ ApprovalInv /\ [Next]_vars => TypeOK'
<1> SUFFICES ASSUME TypeOK, ApprovalInv, [Next]_vars
             PROVE  TypeOK'
    OBVIOUS
<1> USE ApprovalAssumption
<1>1. ASSUME NEW d \in Draft, NEW id \in Ids, NEW s \in Lifetimes,
             Approve(d, id, s)
      PROVE  TypeOK'
  <2>1. now \in Nat /\ now + s \in Nat
    BY DEF TypeOK, Time
  <2>2. [draft |-> d, id |-> id, at |-> now, until |-> now + s] \in Approval
    BY <2>1 DEF TypeOK, Approval
  <2> QED
    BY <1>1, <2>2 DEF Approve, TypeOK
<1>2. ASSUME NEW d \in Draft, StartTyping(d)
      PROVE  TypeOK'
    BY <1>2 DEF StartTyping, TypeOK
<1>3. CASE Type
  <2>1. typed[cur.id] + 1 \in Nat
    BY <1>3 DEF Type, TypeOK, Approval
  <2> QED
    BY <1>3, <2>1 DEF Type, TypeOK
<1>4. CASE TypingFails
  <2>1. \A n \in {0, 1} : typed[cur.id] + n \in Nat
    BY <1>4 DEF TypingFails, TypeOK, Approval
  <2> QED
    BY <1>4, <2>1 DEF TypingFails, TypeOK
<1>5. CASE RecordTyping
  <2>1. cur \in Approval
    BY <1>5 DEF RecordTyping, TypeOK
  <2>2. \A id \in Ids : [draft |-> cur.draft, id |-> id, at |-> now,
                         approval |-> cur.id] \in Typing
    BY <2>1 DEF Approval, Typing, TypeOK
  <2> QED
    BY <1>5, <2>2 DEF RecordTyping, TypeOK
<1>6. CASE Drift \/ Crash
    BY <1>6 DEF Drift, Crash, TypeOK
<1>7. CASE \/ \E v \in Version : Activate(v)
           \/ \E m \in {"approve", "other"} : Reconfigure(m)
           \/ Tick \/ UNCHANGED vars
    BY <1>7 DEF Activate, Reconfigure, Tick, vars, TypeOK, Time
<1> QED
    BY <1>1, <1>2, <1>3, <1>4, <1>5, <1>6, <1>7 DEF Next

-----------------------------------------------------------------------------
(* Lists.                                                                  *)

LEMMA RecordTypes ==
    ASSUME TypeOK
    PROVE  /\ \A a \in approvals : a.id \in Nat /\ a.at \in Nat /\ a.draft \in Draft
           /\ \A t \in typings : t.id \in Nat /\ t.at \in Nat /\ t.draft \in Draft
BY ApprovalAssumption DEF TypeOK, Approval, Typing, Time, Ids

\* A set of records that is no longer than a list is listed in full.
LEMMA ListedInFull ==
    ASSUME NEW S, IsFiniteSet(S), Cardinality(S) <= ListLimit,
           \A x \in S : x.id \in Nat /\ x.at \in Nat
    PROVE  Listed(S) = S
<1> USE ApprovalAssumption
<1>1. ASSUME NEW x \in S
      PROVE  Cardinality({y \in S : Sooner(y, x)}) < ListLimit
  <2> DEFINE T == {y \in S : Sooner(y, x)}
  <2>1. x \notin T
    BY DEF Sooner
  <2>2. T \subseteq S /\ T # S
    BY <2>1
  <2>3. /\ Cardinality(T) <= Cardinality(S) /\ Cardinality(T) # Cardinality(S)
        /\ Cardinality(T) \in Nat /\ Cardinality(S) \in Nat
    BY <2>2, FS_Subset, FS_CardinalityType
  <2> QED
    BY <2>3
<1> QED
    BY <1>1 DEF Listed

\* A draft has no more uses than approvals, while each has at most one.
LEMMA UsesWithin ==
    ASSUME TypeOK, ApprovalInv, WithinList, NEW d \in Draft
    PROVE  /\ IsFiniteSet({t \in typings : t.draft = d})
           /\ Cardinality({t \in typings : t.draft = d}) <= ListLimit
<1> USE ApprovalAssumption
<1> DEFINE T == {t \in typings : t.draft = d}
           A == {a \in approvals : a.draft = d}
           f == [t \in T |-> CHOOSE a \in A : a.id = t.approval]
<1>1. \A t \in T : \E a \in A : a.id = t.approval
    BY DEF ApprovalInv
<1>2. \A t \in T : f[t] \in A /\ f[t].id = t.approval
    BY <1>1
<1>3. \A t, u \in T : t.approval = u.approval => t = u
    BY DEF ApprovalInv, RecordedOnce
<1>4. f \in [T -> A]
    BY <1>2
<1>5. ASSUME NEW t \in T, NEW u \in T, f[t] = f[u] PROVE t = u
  <2>1. t.approval = u.approval
    BY <1>2, <1>5
  <2> QED
    BY <1>3, <2>1
<1> HIDE DEF f
<1>6. f \in Injection(T, A)
    BY <1>4, <1>5 DEF Injection, IsInjective
<1>7. IsFiniteSet(A) /\ Cardinality(A) <= ListLimit /\ Cardinality(A) \in Nat
    BY FS_Subset, FS_CardinalityType DEF ApprovalInv, WithinList
<1>8. IsFiniteSet(T) /\ Cardinality(T) <= Cardinality(A)
    BY <1>6, <1>7, FS_Injection
<1> QED
    BY <1>7, <1>8, FS_CardinalityType

\* An approval that passes the check has no recorded use, and authority.
LEMMA UsableIsUnused ==
    ASSUME TypeOK, ApprovalInv, NEW d \in Draft, NEW a \in approvals, Usable(a, d)
    PROVE  /\ a.draft = d
           /\ WithinList => \A t \in typings : t.approval # a.id
           /\ bound[d] # NoVersion /\ active = bound[d]
<1>1. ASSUME NEW t \in typings, t.approval = a.id
      PROVE  t.draft = a.draft
    BY <1>1 DEF ApprovalInv
<1>2. a.draft = d
    BY DEF Usable, IsLatest, ApprovalsOf, Listed
<1>3. ASSUME WithinList
      PROVE  \A t \in typings : t.approval # a.id
  <2>1. TypingsOf(d) = {t \in typings : t.draft = d}
    BY <1>3, RecordTypes, UsesWithin, ListedInFull DEF TypingsOf
  <2> QED
    BY <1>1, <1>2, <2>1 DEF Usable, Consumed
<1> QED
    BY <1>2, <1>3 DEF Usable

-----------------------------------------------------------------------------
(* The latest of a list.                                                   *)

LEMMA LeastNat ==
    ASSUME NEW P \in SUBSET Nat, P # {}
    PROVE  \E n \in P : \A m \in P : n <= m
<1>1. \E n \in P : \A m \in P : ~ (<<m, n>> \in OpToRel(<, Nat))
    BY NatLessThanWellFounded, WFMin
<1>2. PICK n \in P : \A m \in P : ~ (<<m, n>> \in OpToRel(<, Nat))
    BY <1>1
<1>3. \A m \in P : ~ (m < n)
    BY <1>2 DEF OpToRel
<1> QED
    BY <1>3

LEMMA Soonest ==
    ASSUME NEW S, S # {}, \A x \in S : x.id \in Nat /\ x.at \in Nat
    PROVE  \E m \in S : \A x \in S : ~ Sooner(x, m)
<1>1. PICK n \in {x.at : x \in S} : \A k \in {x.at : x \in S} : n <= k
    BY LeastNat
<1> DEFINE E == {x \in S : x.at = n}
<1>2. PICK i \in {x.id : x \in E} : \A k \in {x.id : x \in E} : i <= k
    BY <1>1, LeastNat
<1>3. PICK m \in E : m.id = i
    BY <1>2
<1>4. ASSUME NEW x \in S, Sooner(x, m) PROVE FALSE
  <2>1. n <= x.at /\ n = m.at /\ n \in Nat
    BY <1>1, <1>3
  <2>2. x.at = m.at /\ x.id < m.id
    BY <1>4, <2>1 DEF Sooner
  <2>3. i <= x.id
    BY <1>2, <2>1, <2>2
  <2> QED
    BY <1>3, <2>2, <2>3
<1> QED
    BY <1>3, <1>4

\* An approval that is the latest has few of an earlier second before it.
LEMMA LatestIsReached ==
    ASSUME TypeOK, ApprovalInv, NEW d \in Draft, NEW a \in approvals, IsLatest(a, d)
    PROVE  Reached(a)
<1> USE ApprovalAssumption
<1> DEFINE S == {b \in approvals : b.draft = d}
           T == {b \in approvals : b.draft = a.draft /\ b.at < a.at}
           U == {b \in S : Sooner(b, a)}
<1>1. a.draft = d /\ Cardinality(U) < ListLimit
    BY DEF IsLatest, ApprovalsOf, Listed
<1>2. T \subseteq U
    BY <1>1 DEF Sooner
<1>3. IsFiniteSet(U)
    BY FS_Subset DEF ApprovalInv
<1>4. Cardinality(T) <= Cardinality(U) /\ Cardinality(T) \in Nat
      /\ Cardinality(U) \in Nat
    BY <1>2, <1>3, FS_Subset, FS_CardinalityType
<1>5. Cardinality(T) < ListLimit
    BY <1>1, <1>4
<1> QED
    BY <1>5 DEF Reached

\* Nothing with few before it is of a later second than the latest of the list:
\* the first record that is not earlier than it is on the list.
LEMMA LatestIsForward ==
    ASSUME TypeOK, ApprovalInv, NEW d \in Draft, NEW a \in approvals, IsLatest(a, d),
           NEW b \in approvals, b.draft = d, Reached(b)
    PROVE  b.at <= a.at
<1> USE ApprovalAssumption
<1> DEFINE S == {x \in approvals : x.draft = d}
           L == {x \in S : x.at >= b.at}
<1>1. PICK m \in L : \A x \in L : ~ Sooner(x, m)
  <2>1. b \in L
    BY RecordTypes
  <2> QED
    BY <2>1, RecordTypes, Soonest
<1>2. {y \in S : Sooner(y, m)} \subseteq {x \in approvals : x.draft = b.draft /\ x.at < b.at}
    BY <1>1, RecordTypes
<1>3. IsFiniteSet({x \in approvals : x.draft = b.draft /\ x.at < b.at})
    BY FS_Subset DEF ApprovalInv
<1>4. Cardinality({y \in S : Sooner(y, m)}) < ListLimit
  <2> DEFINE V == {y \in S : Sooner(y, m)}
             W == {x \in approvals : x.draft = b.draft /\ x.at < b.at}
  <2>1. V \subseteq W /\ IsFiniteSet(W) /\ Cardinality(W) < ListLimit
    BY <1>2, <1>3 DEF Reached
  <2>2. Cardinality(V) <= Cardinality(W) /\ Cardinality(V) \in Nat
        /\ Cardinality(W) \in Nat
    BY <2>1, FS_Subset, FS_CardinalityType
  <2> QED
    BY <2>1, <2>2
<1>5. m \in ApprovalsOf(d)
    BY <1>1, <1>4 DEF ApprovalsOf, Listed
<1>6. m = a \/ Sooner(m, a)
    BY <1>5 DEF IsLatest
<1> QED
    BY <1>1, <1>6, RecordTypes DEF Sooner

\* A command starts on an approval that is not older than one already used.
LEMMA StartsForward ==
    ASSUME TypeOK, ApprovalInv, NEW d \in Draft, NEW a \in approvals, IsLatest(a, d)
    PROVE  \A t \in typings, b \in approvals :
              (b.id = t.approval /\ b.draft = d) => b.at <= a.at
<1> SUFFICES ASSUME NEW t \in typings, NEW b \in approvals, b.id = t.approval,
                    b.draft = d
             PROVE  b.at <= a.at
    OBVIOUS
<1>1. Reached(b)
    BY DEF ApprovalInv
<1> QED
    BY <1>1, LatestIsForward

\* More approvals of now change nothing for the ones that are there.
LEMMA ApproveKeeps ==
    ASSUME TypeOK, ApprovalInv, NEW d \in Draft, NEW id \in Ids, NEW s \in Lifetimes,
           Approve(d, id, s)
    PROVE  /\ IsFiniteSet(approvals')
           /\ \A a \in approvals : Reached(a) => Reached(a)'
           /\ WithinList' => WithinList
<1> USE ApprovalAssumption
<1> DEFINE new == [draft |-> d, id |-> id, at |-> now, until |-> now + s]
<1>1. approvals' = approvals \cup {new} /\ new.at = now
    BY DEF Approve
<1> HIDE DEF new
<1>2. IsFiniteSet(approvals')
    BY <1>1, FS_AddElement DEF ApprovalInv
<1>3. ASSUME NEW a \in approvals, Reached(a) PROVE Reached(a)'
  <2>1. a.at <= now /\ a.at \in Nat /\ now \in Nat
    BY RecordTypes DEF ApprovalInv, TypeOK, Time
  <2>2. {b \in approvals' : b.draft = a.draft /\ b.at < a.at}
          = {b \in approvals : b.draft = a.draft /\ b.at < a.at}
    BY <1>1, <2>1
  <2> QED
    BY <1>3, <2>2 DEF Reached
<1>4. ASSUME WithinList' PROVE WithinList
  <2> SUFFICES ASSUME NEW e \in Draft
               PROVE  Cardinality({a \in approvals : a.draft = e}) <= ListLimit
    BY DEF WithinList
  <2> DEFINE V == {a \in approvals : a.draft = e}
             W == {a \in approvals' : a.draft = e}
  <2>1. V \subseteq W /\ IsFiniteSet(W) /\ Cardinality(W) <= ListLimit
    BY <1>1, <1>2, <1>4, FS_Subset DEF WithinList
  <2>2. Cardinality(V) <= Cardinality(W) /\ Cardinality(V) \in Nat
        /\ Cardinality(W) \in Nat
    BY <2>1, FS_Subset, FS_CardinalityType
  <2> QED
    BY <2>1, <2>2
<1> QED
    BY <1>2, <1>3, <1>4

LEMMA StateKept ==
    ASSUME UNCHANGED approvals
    PROVE  /\ \A a : Reached(a)' = Reached(a)
           /\ WithinList' = WithinList
BY Zenon DEF Reached, WithinList

-----------------------------------------------------------------------------
LEMMA InitApprovalInv == Init => ApprovalInv
BY FS_EmptySet DEF Init, ApprovalInv, RecordedOnce

LEMMA NextApprovalInv == TypeOK /\ ApprovalInv /\ [Next]_vars => ApprovalInv'
<1> SUFFICES ASSUME TypeOK, ApprovalInv, [Next]_vars
             PROVE  ApprovalInv'
    OBVIOUS
<1>1. ASSUME NEW d \in Draft, NEW id \in Ids, NEW s \in Lifetimes,
             Approve(d, id, s)
      PROVE  ApprovalInv'
  <2>1. /\ IsFiniteSet(approvals') /\ pc' = "idle"
        /\ \A a \in approvals : Reached(a) => Reached(a)'
        /\ WithinList' => WithinList
        /\ typings' = typings /\ approvals \subseteq approvals'
    BY <1>1, ApproveKeeps DEF Approve
  <2>2. \A a, b \in approvals' : a.id = b.id => a = b
    BY <1>1 DEF Approve, ApprovalInv
  <2>3. \A t \in typings :
          \E a \in approvals' : a.id = t.approval /\ a.draft = t.draft /\ Reached(a)'
    BY <2>1 DEF ApprovalInv
  <2>4. \A a \in approvals' : a.at <= now'
    BY <1>1, ApprovalAssumption DEF Approve, ApprovalInv, TypeOK, Time
  <2>5. RecordedOnce'
    BY <2>1 DEF ApprovalInv, RecordedOnce
  <2> QED
    BY <2>1, <2>2, <2>3, <2>4, <2>5 DEF ApprovalInv
<1>2. ASSUME NEW d \in Draft, StartTyping(d)
      PROVE  ApprovalInv'
  <2>1. PICK a \in approvals : Usable(a, d) /\ cur' = a
    BY <1>2 DEF StartTyping
  <2>2. /\ a.draft = d
        /\ WithinList => \A t \in typings : t.approval # a.id
        /\ bound[d] # NoVersion /\ active = bound[d]
    BY <2>1, UsableIsUnused
  <2>3. /\ Reached(a)
        /\ \A t \in typings, b \in approvals :
              (b.id = t.approval /\ b.draft = d) => b.at <= a.at
    BY <2>1, LatestIsReached, StartsForward DEF Usable
  <2>4. UNCHANGED <<now, mode, active, bound, approvals, typings>>
    BY <1>2 DEF StartTyping
  <2>5. (\A x : Reached(x)' = Reached(x)) /\ WithinList' = WithinList
    BY <2>4, StateKept
  <2>6. Reached(cur)'
    BY <2>1, <2>3, <2>4 DEF Reached
  <2> QED
    BY <2>1, <2>2, <2>3, <2>4, <2>5, <2>6 DEF ApprovalInv, RecordedOnce
<1>3. CASE RecordTyping
  <2>1. PICK id \in Ids :
          /\ \A t \in typings : t.id # id
          /\ typings' = typings \cup
                {[draft |-> cur.draft, id |-> id, at |-> now,
                  approval |-> cur.id]}
    BY <1>3 DEF RecordTyping
  <2>2. /\ cur \in approvals /\ pc' = "idle" /\ approvals' = approvals /\ now' = now
        /\ WithinList => \A t \in typings : t.approval # cur.id
        /\ Reached(cur)
    BY <1>3 DEF RecordTyping, TypeOK, ApprovalInv
  <2>3. \A t, u \in typings' : t.id = u.id => t = u
    BY <2>1 DEF ApprovalInv
  <2>4. WithinList => \A t, u \in typings' : t.approval = u.approval => t = u
    BY <2>1, <2>2 DEF ApprovalInv, RecordedOnce
  <2>5. \A t \in typings' :
          \E a \in approvals : a.id = t.approval /\ a.draft = t.draft /\ Reached(a)
    BY <2>1, <2>2 DEF ApprovalInv
  <2>6. (\A x : Reached(x)' = Reached(x)) /\ WithinList' = WithinList
    BY <2>2, StateKept
  <2> QED
    BY <2>2, <2>3, <2>4, <2>5, <2>6 DEF ApprovalInv, RecordedOnce
<1>4. CASE \/ Type \/ Drift \/ TypingFails \/ Crash
           \/ \E v \in Version : Activate(v)
           \/ \E m \in {"approve", "other"} : Reconfigure(m)
           \/ Tick \/ UNCHANGED vars
  <2>1. UNCHANGED <<approvals, typings, bound>>
    BY <1>4 DEF Type, Drift, TypingFails, Crash, Activate, Reconfigure, Tick, vars
  <2>2. /\ now' = now \/ now' = now + 1
        /\ pc' # "idle" => pc # "idle" /\ cur' = cur /\ active' = active
    BY <1>4 DEF Type, Drift, TypingFails, Crash, Activate, Reconfigure, Tick, vars
  <2>3. (\A x : Reached(x)' = Reached(x)) /\ WithinList' = WithinList
    BY <2>1, StateKept
  <2>4. \A a \in approvals : a.at <= now'
    BY <2>2, RecordTypes, ApprovalAssumption DEF ApprovalInv, TypeOK, Time
  <2>5. pc' # "idle" => Reached(cur)'
    BY <2>1, <2>2 DEF Reached, ApprovalInv
  <2> QED
    BY <2>1, <2>2, <2>3, <2>4, <2>5 DEF ApprovalInv, RecordedOnce
<1> QED
    BY <1>1, <1>2, <1>3, <1>4 DEF Next

\* Types, identifiers and the check that was made before typing are inductive.
LEMMA Safe == Spec => [](TypeOK /\ ApprovalInv)
<1>1. Init => TypeOK /\ ApprovalInv
    BY InitTypeOK, InitApprovalInv
<1>2. TypeOK /\ ApprovalInv /\ [Next]_vars => (TypeOK /\ ApprovalInv)'
    BY NextTypeOK, NextApprovalInv
<1> QED
    BY <1>1, <1>2, PTL DEF Spec

\* Every approval, its use and the command at work keep their types
\* (approve_draft, typing_validate_draft).
THEOREM TypeCorrect == Spec => []TypeOK
    BY Safe, PTL

\* Identifiers stay unique, a use names its approval, and the command types
\* only on what it checked (_latest_approval under the state lock).
THEOREM ApprovalsAreSound == Spec => []ApprovalInv
    BY Safe, PTL

\* While no draft has more approvals than a list returns, an approval has at
\* most one recorded use (_latest_approval).
THEOREM UseIsRecordedOnce == Spec => []RecordedOnce
    BY Safe, PTL DEF ApprovalInv

LEMMA TypingStep ==
    TypeOK /\ ApprovalInv /\ [Next]_vars => TypedOnAuthority /\ NotGoingBack
<1> SUFFICES ASSUME TypeOK, ApprovalInv, [Next]_vars, typed' # typed
             PROVE  pc # "idle"
    BY DEF ApprovalInv, TypedOnAuthority, NotGoingBack
<1> QED
    BY DEF Next, Approve, StartTyping, Type, Drift, TypingFails, RecordTyping,
           Crash, Activate, Reconfigure, Tick, vars

\* The reply is typed only under the identity of the draft and, while no list
\* is cut, on an approval without a recorded use (typing_validate_draft under
\* the state lock).
THEOREM TypingHasAuthority == Spec => TypingIsAuthorised
<1>1. TypeOK /\ ApprovalInv /\ [Next]_vars => [TypedOnAuthority]_vars
    BY TypingStep
<1> QED
    BY <1>1, Safe, PTL DEF Spec, TypingIsAuthorised

\* Typing never goes back to an approval older than one already used, however
\* many approvals share a second and however many there are (_latest_approval,
\* list_runtime_records).
THEOREM TypingAlwaysGoesForward == Spec => TypingGoesForward
<1>1. TypeOK /\ ApprovalInv /\ [Next]_vars => [NotGoingBack]_vars
    BY TypingStep
<1> QED
    BY <1>1, Safe, PTL DEF Spec, TypingGoesForward
=============================================================================
