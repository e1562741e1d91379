---------------------------- MODULE Distillation ----------------------------
(***************************************************************************)
(* Versioned distillation (distillation.py, over LedgerDistillationReposi- *)
(* tory of runtime_state.py) in one scope: a domain, and for a relationship*)
(* one contact.  Versions are immutable and form a forest; one of them is  *)
(* active.  Adding and activating are two transactions of the ledger.      *)
(*                                                                         *)
(* Versions are numbered in the order of their creation, which is the order*)
(* of list_versions when they are made in different seconds; 0 stands for  *)
(* no version.                                                             *)
(***************************************************************************)
EXTENDS Integers, Sequences, FiniteSets

CONSTANTS
    Correction,    \* user corrections of drafts
    MaxValue       \* bound: values of a user's field

ASSUME DistillationAssumption == MaxValue \in Nat /\ IsFiniteSet(Correction)

VARIABLES
    domain,        \* the domain of the scope
    versions,      \* ledger: the versions of the scope
    active         \* ledger: the active version of the scope, or 0

Domains == {"stable_facts", "language_style", "relationship", "emotion_cycle"}

CorrectionTypes == {"automatic", "user_confirmed"}

\* A payload's fields: the boundaries and taboos of the user, how often each
\* correction is counted, and the latest observation of the messages.
Field == {"boundaries", "taboos", "learned", "observed"}

Payload == [boundaries : 0..MaxValue, taboos : 0..MaxValue,
            learned : [Correction -> Nat], observed : Nat]

Empty == [boundaries |-> 0, taboos |-> 0,
          learned |-> [c \in Correction |-> 0], observed |-> 0]

Version == [parent : Nat, type : CorrectionTypes, payload : Payload,
            protects : SUBSET Field, evidence : SUBSET Correction]

DistillationTypeOK ==
    /\ domain \in Domains
    /\ versions \in Seq(Version)
    /\ \A v \in 1..Len(versions) : versions[v].parent \in 0..(v - 1)
    /\ active \in 0..Len(versions)

DistillationInit ==
    /\ domain \in Domains
    /\ versions = <<>>
    /\ active = 0

-----------------------------------------------------------------------------
(* Reading.                                                                *)

PayloadOf(v) == IF v = 0 THEN Empty ELSE versions[v].payload

ProtectsOf(v) == IF v = 0 THEN {} ELSE versions[v].protects

ParentOf(v) == IF v = 0 THEN 0 ELSE versions[v].parent

\* v and its ancestors.
Lineage(v) ==
    LET L[u \in 0..Len(versions)] ==
          IF u = 0 THEN {} ELSE {u} \cup L[versions[u].parent]
    IN  L[v]

\* What the user confirmed last on the way to v.
Confirmed(v) ==
    LET C[u \in 0..Len(versions)] ==
          CASE u = 0 -> Empty
            [] u # 0 /\ versions[u].type = "user_confirmed" ->
                 versions[u].payload
            [] OTHER -> C[versions[u].parent]
    IN  C[v]

-----------------------------------------------------------------------------
(* Protection.  Every path of a fact is protected; of a relationship, the  *)
(* boundaries.                                                             *)

Mandatory ==
    CASE domain = "stable_facts" -> Field
      [] domain = "relationship" -> {"boundaries"}
      [] OTHER -> {}

Protections(parent, requested) ==
    Mandatory \cup ProtectsOf(parent) \cup requested

\* Mutant: only the mandatory fields are compared.
TouchesMandatory(parent, payload, protects) ==
    \E f \in Mandatory : PayloadOf(parent)[f] # payload[f]

Touches(parent, payload, protects) ==
    \E f \in protects : PayloadOf(parent)[f] # payload[f]

\* create_version makes a version of the active one; ProtectedFieldError else.
Permitted(type, payload, requested) ==
    type = "automatic" =>
        ~ Touches(active, payload, Protections(active, requested))

Created(type, payload, requested, evidence) ==
    [parent |-> active, type |-> type, payload |-> payload,
     protects |-> Protections(active, requested), evidence |-> evidence]

-----------------------------------------------------------------------------
(* The transactions.                                                       *)

Add(type, payload, requested, evidence) ==
    /\ Permitted(type, payload, requested)
    /\ versions' = Append(versions,
                          Created(type, payload, requested, evidence))
    /\ UNCHANGED <<domain, active>>

Activatable(v) ==
    versions[v].type = "automatic" =>
        ~ Touches(versions[v].parent, versions[v].payload,
                  versions[v].protects)

SetActive(v) ==
    /\ Activatable(v)
    /\ active' = v
    /\ UNCHANGED <<domain, versions>>

Rollback(v) ==
    /\ active # 0
    /\ v \in Lineage(active)
    /\ active' = v
    /\ UNCHANGED <<domain, versions>>

=============================================================================
