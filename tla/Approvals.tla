----------------------------- MODULE Approvals ------------------------------
(***************************************************************************)
(* Approving a draft and typing it for validation (operations.py,          *)
(* approve_draft and typing_validate_draft).                               *)
(*                                                                         *)
(* Both are commands under the state lock.  An approval and its use are    *)
(* records of the ledger; in between, the reply is typed into WeChat, which*)
(* may fail, or the process may die.                                       *)
(***************************************************************************)
EXTENDS Integers, FiniteSets

CONSTANTS
    Draft,        \* drafts that wait for approval, of one contact
    Version,      \* identity versions of the contact
    NoVersion,
    Lifetimes,    \* expiry an approval may be given    (1..600 s)
    ListLimit,    \* records an action list returns     (100)
    MaxRecords,   \* bound: approvals, and typing results
    MaxUses,      \* bound: uses of one approval
    MaxTime       \* bound: clock

Time == 0..MaxTime
Ids == 1..MaxRecords   \* random identifiers, in their alphabetical order

ASSUME ApprovalAssumption ==
    /\ NoVersion \notin Version
    /\ Lifetimes \subseteq Nat \ {0}
    /\ ListLimit \in Nat \ {0}
    /\ MaxRecords \in Nat /\ MaxUses \in Nat /\ MaxTime \in Nat

VARIABLES
    now,        \* the clock, in seconds
    mode,       \* the mode of the configuration file
    active,     \* ledger: active identity version
    bound,      \* ledger: identity version each draft was made under
    approvals,  \* ledger: "approved" records
    typings,    \* ledger: "typing_validation" records
    pc,         \* typing-validate: next step
    cur,        \* typing-validate: draft and approval
    typed       \* the screen: commands that typed the reply, per approval

env == <<now, mode, active>>
vars == <<env, bound, approvals, typings, pc, cur, typed>>

Approval == [draft : Draft, id : Ids, at : Time, until : Nat]
Typing == [draft : Draft, id : Ids, at : Time, approval : Ids]

TypeOK ==
    /\ now \in Time
    /\ mode \in {"approve", "other"}
    /\ active \in Version \cup {NoVersion}
    /\ bound \in [Draft -> Version \cup {NoVersion}]
    /\ approvals \subseteq Approval
    /\ typings \subseteq Typing
    /\ pc \in {"idle", "type", "fallback", "record"}
    /\ pc # "idle" => cur \in approvals
    /\ typed \in [Ids -> Nat]

Init ==
    /\ now = 0
    /\ mode \in {"approve", "other"}
    /\ active \in Version \cup {NoVersion}
    /\ bound \in [Draft -> Version \cup {NoVersion}]
    /\ approvals = {} /\ typings = {}
    /\ pc = "idle" /\ cur = <<>>
    /\ typed = [i \in Ids |-> 0]

-----------------------------------------------------------------------------
(* list_runtime_records returns the first records by second and identifier.*)

Sooner(x, y) == x.at < y.at \/ (x.at = y.at /\ x.id < y.id)

Listed(S) == {x \in S : Cardinality({y \in S : Sooner(y, x)}) < ListLimit}

ApprovalsOf(d) == Listed({a \in approvals : a.draft = d})
TypingsOf(d) == Listed({t \in typings : t.draft = d})

\* Mutant: a use counts for the second of the approval only.
ConsumedAtOnce(a) ==
    \E t \in TypingsOf(a.draft) : t.approval = a.id /\ t.at = a.at

Consumed(a) == \E t \in TypingsOf(a.draft) : t.approval = a.id

\* Mutant: the last approval without a use instead of the last one.
IsLatestUnused(a, d) ==
    /\ a \in ApprovalsOf(d) /\ ~ Consumed(a)
    /\ \A b \in ApprovalsOf(d) \ {a} : Consumed(b) \/ Sooner(b, a)

IsLatest(a, d) ==
    /\ a \in ApprovalsOf(d)
    /\ \A b \in ApprovalsOf(d) \ {a} : Sooner(b, a)

Usable(a, d) ==
    /\ mode = "approve"
    /\ IsLatest(a, d) /\ ~ Consumed(a) /\ a.until >= now
    /\ bound[d] # NoVersion /\ active = bound[d]

-----------------------------------------------------------------------------
(* Commands.                                                               *)

Approve(d, id, seconds) ==
    /\ pc = "idle"
    /\ mode = "approve"
    /\ \A a \in approvals : a.id # id
    /\ approvals' = approvals \cup
          {[draft |-> d, id |-> id, at |-> now, until |-> now + seconds]}
    /\ UNCHANGED <<env, bound, typings, pc, cur, typed>>

StartTyping(d) ==
    /\ pc = "idle"
    /\ \E a \in approvals :
          Usable(a, d) /\ typed[a.id] < MaxUses /\ cur' = a
    /\ pc' = "type"
    /\ UNCHANGED <<env, bound, approvals, typings, typed>>

\* The sender has typed the reply and read it back.
Type ==
    /\ pc \in {"type", "fallback"}
    /\ typed' = [typed EXCEPT ![cur.id] = @ + 1]
    /\ pc' = "record"
    /\ UNCHANGED <<env, bound, approvals, typings, cur>>

\* The first backend finds another window layout than it expects and leaves
\* the draft to the second one.
Drift ==
    /\ pc = "type"
    /\ pc' = "fallback"
    /\ UNCHANGED <<env, bound, approvals, typings, cur, typed>>

\* The command ends with an error, before or after the reply was typed.
TypingFails ==
    /\ pc \in {"type", "fallback"}
    /\ \E n \in {0, 1} : typed' = [typed EXCEPT ![cur.id] = @ + n]
    /\ pc' = "idle"
    /\ UNCHANGED <<env, bound, approvals, typings, cur>>

RecordTyping ==
    /\ pc = "record"
    /\ \E id \in Ids :
          /\ \A t \in typings : t.id # id
          /\ typings' = typings \cup
                {[draft |-> cur.draft, id |-> id, at |-> now,
                  approval |-> cur.id]}
    /\ pc' = "idle"
    /\ UNCHANGED <<env, bound, approvals, cur, typed>>

Crash ==
    /\ pc # "idle"
    /\ pc' = "idle"
    /\ UNCHANGED <<env, bound, approvals, typings, cur, typed>>

\* Mutant: a version can be activated while a draft is typed.
ActivateUnlocked(v) ==
    /\ active' = v
    /\ UNCHANGED <<now, mode, bound, approvals, typings, pc, cur, typed>>

\* distill activate, rollback, a correction: under the state lock.
Activate(v) ==
    /\ pc = "idle"
    /\ active' = v
    /\ UNCHANGED <<now, mode, bound, approvals, typings, pc, cur, typed>>

Reconfigure(m) ==
    /\ mode' = m
    /\ UNCHANGED <<now, active, bound, approvals, typings, pc, cur, typed>>

Tick ==
    /\ now < MaxTime
    /\ now' = now + 1
    /\ UNCHANGED <<mode, active, bound, approvals, typings, pc, cur, typed>>

Next ==
    \/ \E d \in Draft, id \in Ids, s \in Lifetimes : Approve(d, id, s)
    \/ \E d \in Draft : StartTyping(d)
    \/ Type \/ Drift \/ TypingFails \/ RecordTyping \/ Crash
    \/ \E v \in Version : Activate(v)
    \/ \E m \in {"approve", "other"} : Reconfigure(m)
    \/ Tick

Spec == Init /\ [][Next]_vars

-----------------------------------------------------------------------------
(* Properties.                                                             *)

\* No draft has more approvals than a list returns.  Past it the list is cut:
\* an approval of the second of the hundredth may displace another one, and a
\* use may be missing from the list of uses.
WithinList ==
    \A d \in Draft : Cardinality({a \in approvals : a.draft = d}) <= ListLimit

\* No approval has two recorded uses, whatever failed in between.
RecordedOnce ==
    WithinList => \A t, u \in typings : t.approval = u.approval => t = u

\* What is typed is typed on an approval without a recorded use, and under the
\* identity its draft was made with: nothing changes between check and typing.
TypedOnAuthority ==
    typed' # typed =>
        /\ WithinList => \A t \in typings : t.approval # cur.id
        /\ bound[cur.draft] # NoVersion /\ active = bound[cur.draft]

TypingIsAuthorised == [][TypedOnAuthority]_vars

\* Typing never goes back: once an approval of a draft was used, nothing is
\* typed on one given in an earlier second, unused or not.  This is what is
\* left of "the latest approval" when several share a second, and are in the
\* order of their random identifiers, or are more than the list returns.
NotGoingBack ==
    typed' # typed =>
        \A t \in typings, b \in approvals :
            (b.id = t.approval /\ b.draft = cur.draft) => b.at <= cur.at

TypingGoesForward == [][NotGoingBack]_vars

\* README.md: "An approve-draft approval ... is consumed once by
\* typing-validate".
UsedOnce == \A i \in Ids : typed[i] <= 1

-----------------------------------------------------------------------------
(* The inductive invariant.                                                *)

\* Fewer approvals of its draft than a list returns are of an earlier second:
\* true of every approval that was ever the latest, and it stays true.
Reached(a) ==
    Cardinality({b \in approvals : b.draft = a.draft /\ b.at < a.at}) < ListLimit

ApprovalInv ==
    /\ IsFiniteSet(approvals)
    /\ \A a \in approvals : a.at <= now
    /\ \A a, b \in approvals : a.id = b.id => a = b
    /\ \A t, u \in typings : t.id = u.id => t = u
    /\ \A t \in typings :
          \E a \in approvals : a.id = t.approval /\ a.draft = t.draft /\ Reached(a)
    /\ pc # "idle" =>
          /\ WithinList => \A t \in typings : t.approval # cur.id
          /\ bound[cur.draft] # NoVersion /\ active = bound[cur.draft]
          /\ Reached(cur)
          /\ \A t \in typings, b \in approvals :
                (b.id = t.approval /\ b.draft = cur.draft) => b.at <= cur.at
    /\ RecordedOnce
=============================================================================
