----------------------------- MODULE BundleProofs -----------------------------
(***************************************************************************)
(* Proofs about Bundle: the lock of the state directory is enough.  With   *)
(* any number of commands, each raising or dying where it may, the secret  *)
(* is made once, no draft is lost and the manifest describes what is there.*)
(* And about ServiceControl, which takes no lock: what its commands leave   *)
(* behind, wherever any number of them died.                               *)
(***************************************************************************)
EXTENDS Bundle, ServiceControl, TLAPS

-----------------------------------------------------------------------------
(* The plans.                                                              *)

LEMMA BuildPlan ==
    /\ Len(Plan["build"]) = 11
    /\ \A i \in 1..11 :
          /\ Plan["build"][i] = "prepare" <=> i = 1
          /\ Plan["build"][i] = "marker" <=> i = 2
          /\ Plan["build"][i] = "lock" <=> i = 3
          /\ Plan["build"][i] = "secret" <=> i = 4
          /\ Plan["build"][i] = "style_context" <=> i = 5
          /\ Plan["build"][i] = "events" <=> i = 6
          /\ Plan["build"][i] = "triage_queue" <=> i = 7
          /\ Plan["build"][i] = "drafts" <=> i = 8
          /\ Plan["build"][i] = "manifest" <=> i = 9
          /\ Plan["build"][i] = "emotion_dashboard" <=> i = 10
          /\ Plan["build"][i] = "audit" <=> i = 11
          /\ Plan["build"][i] \notin {"state", "read"}
<1>1. Plan["build"] = BuildSteps
    BY DEF Plan
<1>2. Len(BuildSteps) = 11
    BY DEF BuildSteps
<1>3. ASSUME NEW i \in 1..11
      PROVE  /\ BuildSteps[i] = "prepare" <=> i = 1
             /\ BuildSteps[i] = "marker" <=> i = 2
             /\ BuildSteps[i] = "lock" <=> i = 3
             /\ BuildSteps[i] = "secret" <=> i = 4
             /\ BuildSteps[i] = "style_context" <=> i = 5
             /\ BuildSteps[i] = "events" <=> i = 6
             /\ BuildSteps[i] = "triage_queue" <=> i = 7
             /\ BuildSteps[i] = "drafts" <=> i = 8
             /\ BuildSteps[i] = "manifest" <=> i = 9
             /\ BuildSteps[i] = "emotion_dashboard" <=> i = 10
             /\ BuildSteps[i] = "audit" <=> i = 11
             /\ BuildSteps[i] \notin {"state", "read"}
    BY DEF BuildSteps
<1> QED
    BY <1>1, <1>2, <1>3

LEMMA DraftPlan ==
    \A what \in {"draft", "review"} :
        /\ Len(Plan[what]) = 5
        /\ \A i \in 1..5 :
              /\ Plan[what][i] = "state" <=> i = 1
              /\ Plan[what][i] = "lock" <=> i = 2
              /\ Plan[what][i] = "read" <=> i = 3
              /\ Plan[what][i] = "drafts" <=> i = 4
              /\ Plan[what][i] = "audit" <=> i = 5
              /\ Plan[what][i] \notin Generated \cup {"prepare", "marker", "secret"}
<1>1. \A what \in {"draft", "review"} : Plan[what] = DraftSteps
    BY DEF Plan
<1>2. Len(DraftSteps) = 5
    BY DEF DraftSteps
<1>3. ASSUME NEW i \in 1..5
      PROVE  /\ DraftSteps[i] = "state" <=> i = 1
             /\ DraftSteps[i] = "lock" <=> i = 2
             /\ DraftSteps[i] = "read" <=> i = 3
             /\ DraftSteps[i] = "drafts" <=> i = 4
             /\ DraftSteps[i] = "audit" <=> i = 5
             /\ DraftSteps[i] \notin Generated \cup {"prepare", "marker", "secret"}
    BY DEF DraftSteps, Generated
<1> QED
    BY <1>1, <1>2, <1>3

\* Where a command is, by the name of its step.
LEMMA Where ==
    ASSUME BundleTypeOK, NEW c \in Command, running[c].what # "idle"
    PROVE  /\ running[c].at \in Nat /\ running[c].at >= 1
           /\ \/ running[c].what = "build" /\ running[c].at \in 1..11
              \/ running[c].what \in {"draft", "review"} /\ running[c].at \in 1..5
           /\ Step(c) = "prepare" => running[c].what = "build" /\ running[c].at = 1
           /\ Step(c) = "marker" => running[c].what = "build" /\ running[c].at = 2
           /\ Step(c) = "secret" => running[c].what = "build" /\ running[c].at = 4
           /\ Step(c) \in Generated => running[c].what = "build" /\ running[c].at > 4
           /\ Step(c) = "style_context" <=>
                running[c].what = "build" /\ running[c].at = 5
           /\ Step(c) = "events" <=> running[c].what = "build" /\ running[c].at = 6
           /\ Step(c) = "triage_queue" <=>
                running[c].what = "build" /\ running[c].at = 7
           /\ Step(c) = "manifest" <=> running[c].what = "build" /\ running[c].at = 9
           /\ Step(c) = "lock" <=> IF running[c].what = "build" THEN running[c].at = 3
                                   ELSE running[c].at = 2
           /\ Step(c) = "drafts" <=> IF running[c].what = "build" THEN running[c].at = 8
                                     ELSE running[c].at = 4
           /\ Step(c) = "audit" <=> IF running[c].what = "build" THEN running[c].at = 11
                                    ELSE running[c].at = 5
           /\ Step(c) = "read" => running[c].what # "build" /\ running[c].at = 3
           /\ Step(c) = "state" => running[c].what # "build" /\ running[c].at = 1
           /\ Step(c) = "secret" <=> running[c].what = "build" /\ running[c].at = 4
<1>1. running[c] \in Run
    BY DEF BundleTypeOK
<1>2. running[c].at \in 1..11 /\ running[c].what \in {"idle", "build", "draft", "review"}
    BY <1>1 DEF Run
<1>3. running[c].at <= Len(Plan[running[c].what])
    BY DEF BundleTypeOK
<1>4. CASE running[c].what = "build"
    BY <1>2, <1>3, <1>4, BuildPlan DEF Step, Generated
<1>5. CASE running[c].what \in {"draft", "review"}
    <2>1. running[c].at \in 1..5
        <3>1. Len(Plan[running[c].what]) = 5
            BY <1>5, DraftPlan
        <3> QED
            BY <1>2, <1>3, <3>1
    <2> QED
        BY <1>5, <2>1, DraftPlan DEF Step
<1> QED
    BY <1>2, <1>4, <1>5

-----------------------------------------------------------------------------
(* How a command goes on.                                                  *)

LEMMA IdleType == NotRunning \in Run
BY BundleAssumption DEF NotRunning, Run, NoDrafts, Store, DraftStatuses

LEMMA IdleFacts ==
    NotRunning.what = "idle" /\ NotRunning.at = 1 /\ NotRunning.temp = FALSE
BY DEF NotRunning

LEMMA GoesFacts ==
    ASSUME BundleTypeOK, NEW c \in Command, running[c].what # "idle",
           NEW next \in Run, next.what = running[c].what, next.at = running[c].at,
           Goes(c, next)
    PROVE  /\ running' \in [Command -> Run]
           /\ \A d \in Command : d # c => running'[d] = running[d]
           /\ \/ /\ running'[c] = NotRunning
                 /\ lock' = IF lock = c THEN 0 ELSE lock
                 /\ running[c].at = Len(Plan[running[c].what])
              \/ /\ running[c].at < Len(Plan[running[c].what])
                 /\ running'[c] = [next EXCEPT !.at = running[c].at + 1]
                 /\ running'[c] \in Run
                 /\ lock' = lock
<1>1. running \in [Command -> Run]
    BY DEF BundleTypeOK
<1>2. running[c].at <= Len(Plan[running[c].what])
      /\ Len(Plan[running[c].what]) \in {5, 11}
    BY BuildPlan, DraftPlan, <1>1 DEF BundleTypeOK, Run
<1>3. running[c].at \in Nat
    BY <1>1 DEF Run
<1>4. CASE running[c].at = Len(Plan[running[c].what])
    BY <1>1, <1>4, IdleType DEF Goes
<1>5. CASE running[c].at # Len(Plan[running[c].what])
    <2>1. running[c].at < Len(Plan[running[c].what]) /\ running[c].at + 1 \in 1..11
        <3>1. CASE Len(Plan[running[c].what]) = 5
            BY <1>2, <1>3, <1>5, <3>1
        <3>2. CASE Len(Plan[running[c].what]) = 11
            BY <1>2, <1>3, <1>5, <3>2
        <3> QED
            BY <1>2, <3>1, <3>2
    <2>2. /\ running' = [running EXCEPT ![c] = [next EXCEPT !.at = running[c].at + 1]]
          /\ lock' = lock
        BY <1>5 DEF Goes
    <2>3. [next EXCEPT !.at = running[c].at + 1] \in Run
        BY <2>1 DEF Run
    <2> QED
        BY <1>1, <2>1, <2>2, <2>3
<1> QED
    BY <1>4, <1>5

-----------------------------------------------------------------------------
(* Types.                                                                  *)

\* The Boolean variables.
Flags == marked \in BOOLEAN /\ styled \in BOOLEAN /\ leftovers \in BOOLEAN

FieldsOK ==
    /\ files \in [Generated -> 0..MaxBuilds]
    /\ secret \in Command \cup {0}
    /\ drafts \in Store \cup {<<>>}
    /\ audit \subseteq (Draft \cup {0}) \X (DraftStatuses \cup {"built"})
    /\ lock \in Command \cup {0}
    /\ builds \in 0..MaxBuilds /\ faults \in 0..MaxFaults

RunsOK ==
    /\ running \in [Command -> Run]
    /\ \A c \in Command : running[c].what # "idle" =>
          running[c].at <= Len(Plan[running[c].what])

LEMMA TypeParts ==
    /\ BundleTypeOK <=> FieldsOK /\ Flags /\ RunsOK
    /\ BundleTypeOK' <=> FieldsOK' /\ Flags' /\ RunsOK'
BY Zenon DEF BundleTypeOK, FieldsOK, Flags, RunsOK

LEMMA BundleInitType == BundleInit => BundleTypeOK
<1> SUFFICES ASSUME BundleInit PROVE BundleTypeOK
    OBVIOUS
<1>1. FieldsOK
    BY BundleAssumption DEF BundleInit, FieldsOK
<1>2. Flags
    BY DEF BundleInit, Flags
<1>3. RunsOK
    BY IdleType, IdleFacts DEF BundleInit, RunsOK
<1> QED
    BY <1>1, <1>2, <1>3, TypeParts

LEMMA RunType ==
    ASSUME BundleTypeOK, NEW c \in Command
    PROVE  running[c] \in Run
BY DEF BundleTypeOK

LEMMA FlagsType == BundleTypeOK /\ [BundleNext]_bundleVars => Flags'
<1> SUFFICES ASSUME BundleTypeOK, [BundleNext]_bundleVars PROVE Flags'
    OBVIOUS
<1>0. Flags
    BY TypeParts
<1>1. ASSUME NEW c, NEW w, NEW d, NEW s, NEW b, Start(c, w, d, s, b) PROVE Flags'
    BY <1>0, <1>1, Zenon DEF Start, dir, Flags
<1>2. ASSUME NEW c,
             \/ Prepare(c) \/ StateDir(c) \/ Lock(c) \/ ReadDrafts(c)
             \/ Skip(c) \/ WriteTemp(c) \/ WriteAudit(c)
             \/ Refused(c) \/ Raise(c)
      PROVE  Flags'
    BY <1>0, <1>2, Zenon DEF Prepare, StateDir, Lock, ReadDrafts, Skip, WriteTemp,
                       WriteAudit, Refused, Raise, dir, Flags
<1>3. ASSUME NEW c \in Command, Replace(c) PROVE Flags'
    <2>1. marked' \in BOOLEAN /\ leftovers' = leftovers
        BY <1>3 DEF Replace
    <2>2. styled' = IF Step(c) = "manifest" THEN running[c].style ELSE styled
        BY <1>3 DEF Replace
    <2>3. running[c].style \in BOOLEAN
        BY <1>3, RunType DEF Run
    <2>4. styled' \in BOOLEAN
        BY <1>0, <2>2, <2>3, Zenon DEF Flags
    <2> QED
        BY <1>0, <2>1, <2>4, Zenon DEF Flags
<1>4. ASSUME NEW c, CommandDies(c) PROVE Flags'
    <2>1. marked' = marked /\ styled' = styled /\ leftovers' \in BOOLEAN
        BY <1>4 DEF CommandDies, dir
    <2> QED
        BY <1>0, <2>1, Zenon DEF Flags
<1>5. CleanUp => Flags'
    BY <1>0, Zenon DEF CleanUp, dir, Flags
<1>6. UNCHANGED bundleVars => Flags'
    BY <1>0, Zenon DEF bundleVars, dir, Flags
<1> QED
    BY <1>1, <1>2, <1>3, <1>4, <1>5, <1>6 DEF BundleNext

\* A command that goes on, or ends, is well formed.
LEMMA GoesType ==
    ASSUME BundleTypeOK, NEW c \in Command, running[c].what # "idle",
           NEW next \in Run, next.what = running[c].what, next.at = running[c].at,
           Goes(c, next)
    PROVE  RunsOK' /\ lock' \in Command \cup {0}
<1>1. running' \in [Command -> Run]
    BY GoesFacts
<1>2. \A d \in Command : d # c => running'[d] = running[d]
    BY GoesFacts
<1>3. running'[c].what # "idle" => running'[c].at <= Len(Plan[running'[c].what])
    <2>1. CASE running'[c] = NotRunning
        BY <2>1, IdleFacts
    <2>2. CASE /\ running[c].at < Len(Plan[running[c].what])
               /\ running'[c] = [next EXCEPT !.at = running[c].at + 1]
        <3>1. running'[c].what = running[c].what /\ running'[c].at = running[c].at + 1
            BY <2>2 DEF Run
        <3>2. running[c].at \in Nat
            BY Where
        <3>3. Len(Plan[running[c].what]) \in Nat
            BY Where, BuildPlan, DraftPlan
        <3> QED
            BY <2>2, <3>1, <3>2, <3>3
    <2> QED
        BY <2>1, <2>2, GoesFacts
<1>4. lock' \in Command \cup {0}
    BY GoesFacts DEF BundleTypeOK
<1> QED
    BY <1>1, <1>2, <1>3, <1>4 DEF RunsOK, BundleTypeOK

\* A command that ends.
LEMMA EndsType ==
    ASSUME BundleTypeOK, NEW c \in Command,
           running' = [running EXCEPT ![c] = NotRunning]
    PROVE  RunsOK'
BY IdleType, IdleFacts DEF RunsOK, BundleTypeOK

\* Steps that touch no file.
LEMMA QuietType ==
    ASSUME BundleTypeOK, Flags', RunsOK', lock' \in Command \cup {0},
           UNCHANGED <<files, styled, secret, drafts, audit, builds>>,
           faults' \in 0..MaxFaults
    PROVE  BundleTypeOK'
BY TypeParts DEF FieldsOK

LEMMA StartType ==
    ASSUME BundleTypeOK, Flags', NEW c \in Command,
           NEW what \in {"build", "draft", "review"}, NEW draft \in Draft \cup {0},
           NEW sets \in DraftStatuses, NEW style \in BOOLEAN,
           Start(c, what, draft, sets, style)
    PROVE  BundleTypeOK'
<1> DEFINE r == [NotRunning EXCEPT !.what = what, !.draft = draft,
                                   !.sets = sets, !.style = style]
<1>1. running' = [running EXCEPT ![c] = r]
    BY DEF Start
<1>2. r \in Run /\ r.what = what /\ r.at = 1
    BY IdleType DEF NotRunning, Run
<1> HIDE DEF r
<1>3. Len(Plan[what]) \in Nat /\ 1 <= Len(Plan[what])
    BY BuildPlan, DraftPlan
<1>4. RunsOK'
    BY <1>1, <1>2, <1>3 DEF RunsOK, BundleTypeOK
<1> QED
    BY <1>4, QuietType DEF Start, dir, BundleTypeOK

LEMMA LockType ==
    ASSUME BundleTypeOK, Flags', NEW c \in Command, Lock(c)
    PROVE  BundleTypeOK'
<1>1. /\ running[c].what # "idle" /\ Step(c) = "lock" /\ lock' = c
      /\ builds' = IF running[c].what = "build" THEN builds + 1 ELSE builds
      /\ running[c].what = "build" => builds < MaxBuilds
      /\ running' = [running EXCEPT ![c].at = running[c].at + 1, ![c].build = builds']
    BY DEF Lock, At
<1>2. builds' \in 0..MaxBuilds
    BY <1>1, BundleAssumption DEF BundleTypeOK
<1>3. /\ running[c].at + 1 \in 1..11
      /\ running[c].at + 1 <= Len(Plan[running[c].what])
    <2>1. CASE running[c].what = "build"
        <3>1. running[c].at = 3
            BY <1>1, <2>1, Where
        <3> QED
            BY <2>1, <3>1, BuildPlan
    <2>2. CASE running[c].what # "build"
        <3>1. running[c].at = 2 /\ running[c].what \in {"draft", "review"}
            BY <1>1, <2>2, Where
        <3>2. Len(Plan[running[c].what]) = 5
            BY <3>1, DraftPlan
        <3> QED
            BY <3>1, <3>2
    <2> QED
        BY <2>1, <2>2
<1>4. running'[c] = [running[c] EXCEPT !.at = running[c].at + 1, !.build = builds']
    BY <1>1 DEF BundleTypeOK
<1>5. running'[c] \in Run /\ running'[c].what = running[c].what
      /\ running'[c].at = running[c].at + 1
    <2>1. running[c] \in Run
        BY RunType
    <2> QED
        BY <1>2, <1>3, <1>4, <2>1 DEF Run
<1>6. \A d \in Command : d # c => running'[d] = running[d]
    BY <1>1 DEF BundleTypeOK
<1>7. running' = [d \in Command |-> running'[d]]
    BY <1>1 DEF BundleTypeOK
<1>8. RunsOK'
    BY <1>3, <1>5, <1>6, <1>7 DEF RunsOK, BundleTypeOK
<1>9. FieldsOK'
    BY <1>1, <1>2 DEF Lock, dir, FieldsOK, BundleTypeOK
<1> QED
    BY <1>8, <1>9, TypeParts

LEMMA ReadType ==
    ASSUME BundleTypeOK, Flags', NEW c \in Command, ReadDrafts(c)
    PROVE  BundleTypeOK'
<1> DEFINE r == [drafts EXCEPT ![running[c].draft] = running[c].sets]
           next == [running[c] EXCEPT !.read = r]
<1>1. running[c].what # "idle" /\ Goes(c, next) /\ drafts # <<>>
    BY DEF ReadDrafts, At
<1>2. running[c] \in Run /\ drafts \in Store
    BY <1>1, RunType DEF BundleTypeOK
<1>3. r \in Store
    BY <1>2 DEF Store, Run
<1> HIDE DEF r
<1>4. next \in Run /\ next.what = running[c].what /\ next.at = running[c].at
    BY <1>2, <1>3 DEF Run
<1> HIDE DEF next
<1>5. RunsOK' /\ lock' \in Command \cup {0}
    BY <1>1, <1>4, GoesType
<1> QED
    BY <1>5, QuietType DEF ReadDrafts, dir, BundleTypeOK

LEMMA TempType ==
    ASSUME BundleTypeOK, Flags', NEW c \in Command, WriteTemp(c)
    PROVE  BundleTypeOK'
<1>1. running' = [running EXCEPT ![c] = [running[c] EXCEPT !.temp = TRUE]]
    BY DEF WriteTemp, BundleTypeOK
<1>2. [running[c] EXCEPT !.temp = TRUE] \in Run
    BY RunType DEF Run
<1>3. RunsOK'
    BY <1>1, <1>2 DEF RunsOK, BundleTypeOK, Run
<1> QED
    BY <1>3, QuietType DEF WriteTemp, dir, BundleTypeOK

LEMMA ReplaceType ==
    ASSUME BundleTypeOK, Flags', NEW c \in Command, running[c].what # "idle", Replace(c)
    PROVE  BundleTypeOK'
<1> DEFINE next == [running[c] EXCEPT !.temp = FALSE]
<1>1. running[c] \in Run
    BY RunType
<1>2. next \in Run /\ next.what = running[c].what /\ next.at = running[c].at
    BY <1>1 DEF Run
<1>3. Goes(c, next)
    BY DEF Replace
<1> HIDE DEF next
<1>4. RunsOK' /\ lock' \in Command \cup {0}
    BY <1>2, <1>3, GoesType
<1>5. files' \in [Generated -> 0..MaxBuilds]
    BY <1>1 DEF Replace, Run, BundleTypeOK
<1>6. secret' \in Command \cup {0}
    BY DEF Replace, BundleTypeOK
<1>7. NoDrafts \in Store
    BY DEF NoDrafts, Store, DraftStatuses
<1>8. drafts' \in Store \cup {<<>>}
    BY <1>1, <1>7 DEF Replace, Run, BundleTypeOK
<1>9. FieldsOK'
    BY <1>4, <1>5, <1>6, <1>8 DEF Replace, FieldsOK, BundleTypeOK
<1> QED
    BY <1>4, <1>9, TypeParts

LEMMA SkipType ==
    ASSUME BundleTypeOK, Flags', NEW c \in Command, Skip(c)
    PROVE  BundleTypeOK'
<1>1. running[c] \in Run /\ running[c].what # "idle" /\ Goes(c, running[c])
    BY RunType DEF Skip, Writes, Done
<1>2. RunsOK' /\ lock' \in Command \cup {0}
    BY <1>1, GoesType
<1>3. files' \in [Generated -> 0..MaxBuilds]
    <2>1. 0 \in 0..MaxBuilds
        BY BundleAssumption
    <2>2. files' = files \/ files' = [files EXCEPT !["style_context"] = 0]
        BY DEF Skip
    <2> QED
        BY <2>1, <2>2 DEF BundleTypeOK
<1>4. FieldsOK'
    BY <1>2, <1>3 DEF Skip, FieldsOK, BundleTypeOK
<1> QED
    BY <1>2, <1>4, TypeParts

LEMMA WriteAuditType ==
    ASSUME BundleTypeOK, Flags', NEW c \in Command, WriteAudit(c)
    PROVE  BundleTypeOK'
<1>1. running[c] \in Run /\ running[c].what # "idle" /\ Goes(c, running[c])
    BY RunType DEF WriteAudit, At, Done
<1>2. RunsOK' /\ lock' \in Command \cup {0}
    BY <1>1, GoesType
<1>3. <<running[c].draft, running[c].sets>>
          \in (Draft \cup {0}) \X (DraftStatuses \cup {"built"})
    BY <1>1 DEF Run
<1>4. audit' \subseteq (Draft \cup {0}) \X (DraftStatuses \cup {"built"})
    BY <1>3 DEF WriteAudit, BundleTypeOK
<1>5. FieldsOK'
    BY <1>2, <1>4 DEF WriteAudit, FieldsOK, BundleTypeOK
<1> QED
    BY <1>2, <1>5, TypeParts

\* A command that is refused, raises or dies.
EndsEarly(c) ==
    /\ running' = [running EXCEPT ![c] = NotRunning]
    /\ lock' = IF lock = c THEN 0 ELSE lock
    /\ UNCHANGED <<files, styled, secret, drafts, audit, builds>>

LEMMA EndingEnds ==
    ASSUME NEW c, Refused(c) \/ Raise(c) \/ CommandDies(c)
    PROVE  EndsEarly(c)
BY DEF Refused, Raise, CommandDies, dir, EndsEarly

LEMMA EndingType ==
    ASSUME BundleTypeOK, Flags', NEW c \in Command,
           Refused(c) \/ Raise(c) \/ CommandDies(c)
    PROVE  BundleTypeOK'
<1>1. EndsEarly(c)
    BY EndingEnds
<1>2. RunsOK' /\ lock' \in Command \cup {0}
    BY <1>1, EndsType DEF EndsEarly, BundleTypeOK
<1>3. faults' \in 0..MaxFaults
    BY BundleAssumption DEF Refused, Raise, CommandDies, BundleTypeOK
<1> QED
    BY <1>1, <1>2, <1>3, QuietType DEF EndsEarly

\* The steps by which a command only goes on.
Passes(c) == Prepare(c) \/ StateDir(c)

LEMMA PassesType ==
    ASSUME BundleTypeOK, Flags', NEW c \in Command, Passes(c)
    PROVE  BundleTypeOK'
<1>1. running[c] \in Run /\ running[c].what # "idle" /\ Goes(c, running[c])
    BY RunType DEF Passes, Prepare, StateDir, At, Done
<1>2. RunsOK' /\ lock' \in Command \cup {0}
    BY <1>1, GoesType
<1> QED
    BY <1>2, QuietType DEF Passes, Prepare, StateDir, dir, BundleTypeOK

-----------------------------------------------------------------------------
(* The inductive invariant: one command, and the files.                    *)

CommandInv(c) ==
    /\ Holds(c) => lock = c
    /\ running[c].temp => Writes(c) /\ Needed(c)
    /\ BuildInv(c) /\ DraftInv(c)

FilesInv ==
    /\ \A f \in Generated : files[f] <= builds
    /\ \A d \in Draft : <<d, "absent">> \notin audit
    /\ ManifestDescribes /\ AuditIsTrue

LEMMA BundleInvParts ==
    /\ BundleInv <=> (\A c \in Command : CommandInv(c)) /\ FilesInv
    /\ BundleInv' <=> (\A c \in Command : CommandInv(c)') /\ FilesInv'
BY DEF BundleInv, CommandInv, FilesInv

\* Before its lock a command writes the marker only.
LEMMA BeforeTheLock ==
    ASSUME BundleTypeOK, NEW c \in Command, ~Holds(c), Writes(c)
    PROVE  Step(c) = "marker"
<1>1. running[c].what # "idle"
    BY DEF Writes
<1>2. CASE running[c].what = "build"
    BY <1>1, <1>2, Where DEF Holds, Writes
<1>3. CASE running[c].what # "build"
    BY <1>1, <1>3, Where DEF Holds, Writes
<1> QED
    BY <1>2, <1>3

\* A command that does nothing keeps its invariant, if what changes does not
\* change under the lock it holds.
LEMMA OtherKept ==
    ASSUME BundleTypeOK, NEW d \in Command, CommandInv(d), running'[d] = running[d],
           Holds(d) => UNCHANGED <<files, secret, drafts, builds, lock>>
    PROVE  CommandInv(d)'
<1>1. Holds(d)' = Holds(d) /\ Step(d)' = Step(d) /\ Writes(d)' = Writes(d)
    BY DEF Holds, Step, Writes
<1>2. CASE Holds(d)
    <2>1. Needed(d)' = Needed(d)
        BY <1>1, <1>2 DEF Needed
    <2> QED
        BY <1>1, <1>2, <2>1 DEF CommandInv, BuildInv, DraftInv, Reviewable
<1>3. CASE ~Holds(d)
    <2>1. running[d].temp => Needed(d)'
        <3> SUFFICES ASSUME running[d].temp PROVE Needed(d)'
            OBVIOUS
        <3>1. Step(d) = "marker"
            BY <1>3, BeforeTheLock DEF CommandInv
        <3> QED
            BY <1>1, <3>1 DEF Needed
    <2>2. running[d].at \in Nat /\ (running[d].what = "build" => ~(running[d].at > 3))
          /\ (running[d].what \in {"draft", "review"} => ~(running[d].at > 2))
        BY <1>3, RunType DEF Holds, Run
    <2>3. BuildInv(d)'
        BY <2>2 DEF BuildInv
    <2>4. DraftInv(d)'
        BY <2>2 DEF CommandInv, DraftInv
    <2> QED
        BY <1>1, <1>3, <2>1, <2>3, <2>4 DEF CommandInv
<1> QED
    BY <1>2, <1>3

LEMMA IdleKept ==
    ASSUME NEW c, running'[c] = NotRunning
    PROVE  CommandInv(c)'
BY IdleFacts DEF CommandInv, Holds, BuildInv, DraftInv

\* What the step of a build has done once it is over.
BuildDid(c) ==
    /\ running[c].at >= 4 => secret' # 0
    /\ running[c].at >= 5 =>
         files'["style_context"] = IF running[c].style THEN builds ELSE 0
    /\ running[c].at >= 6 => files'["events"] = builds
    /\ running[c].at >= 7 => files'["triage_queue"] = builds
    /\ running[c].at >= 8 => drafts' # <<>>
    /\ running[c].at \in 4..8 => files'["manifest"] < builds
    /\ running[c].at = 9 => files'["manifest"] = builds

\* A command that goes on keeps its invariant if its step did its part.
LEMMA GoesInv ==
    ASSUME BundleTypeOK, NEW c \in Command, CommandInv(c),
           running[c].what # "idle", Step(c) # "lock",
           NEW next \in Run, Goes(c, next), next.temp = FALSE,
           next.what = running[c].what, next.at = running[c].at,
           next.build = running[c].build, next.draft = running[c].draft,
           next.sets = running[c].sets, next.style = running[c].style,
           builds' = builds, running[c].what = "build" => BuildDid(c),
           running[c].what # "build" =>
               /\ running[c].at = 3 =>
                    /\ drafts' # <<>> /\ Reviewable(drafts', next)
                    /\ next.read = [drafts' EXCEPT ![next.draft] = next.sets]
               /\ running[c].at = 4 =>
                    drafts' # <<>> /\ drafts'[next.draft] = next.sets
    PROVE  CommandInv(c)'
<1>1. CASE running'[c] = NotRunning
    BY <1>1, IdleKept
<1>2. CASE running'[c] # NotRunning
    <2>1. /\ running'[c] = [next EXCEPT !.at = running[c].at + 1]
          /\ lock' = lock
        BY <1>2, GoesFacts
    <2>2. /\ running'[c].what = running[c].what
          /\ running'[c].at = running[c].at + 1 /\ running'[c].temp = FALSE
          /\ running'[c].build = running[c].build
          /\ running'[c].draft = running[c].draft
          /\ running'[c].sets = running[c].sets
          /\ running'[c].style = running[c].style
          /\ running'[c].read = next.read
        BY <2>1 DEF Run
    <2>3. /\ running[c].at \in Nat
          /\ running[c].what \in {"build", "draft", "review"}
          /\ running[c].what = "build" => running[c].at # 3
          /\ running[c].what # "build" => running[c].at # 2
        BY Where
    <2>4. Holds(c)' => lock' = c
        <3>1. Holds(c)' => Holds(c)
            BY <2>2, <2>3 DEF Holds
        <3> QED
            BY <2>1, <3>1 DEF CommandInv
    <2>5. BuildInv(c)'
        <3>1. running[c].what = "build" /\ running[c].at + 1 > 3
              => running[c].build = builds
            BY <2>3 DEF CommandInv, BuildInv
        <3> QED
            BY <2>2, <2>3, <3>1 DEF BuildInv, BuildDid
    <2>6. DraftInv(c)'
        <3>1. Reviewable(drafts', next) => Reviewable(drafts', running'[c])
            BY <2>2 DEF Reviewable
        <3> QED
            BY <2>2, <2>3, <3>1 DEF CommandInv, DraftInv
    <2> QED
        BY <2>2, <2>4, <2>5, <2>6 DEF CommandInv
<1> QED
    BY <1>1, <1>2

\* The other commands, when c goes on or ends.
LEMMA OthersKept ==
    ASSUME BundleTypeOK, BundleInv, NEW c \in Command,
           \A d \in Command : d # c => running'[d] = running[d],
           lock' = lock \/ lock' = IF lock = c THEN 0 ELSE lock,
           Holds(c) \/ UNCHANGED <<files, secret, drafts, builds>>
    PROVE  \A d \in Command : d # c => CommandInv(d)'
<1> SUFFICES ASSUME NEW d \in Command, d # c
             PROVE  CommandInv(d)'
    OBVIOUS
<1>1. CommandInv(d) /\ CommandInv(c)
    BY BundleInvParts
<1>2. Holds(d) => lock = d /\ ~Holds(c)
    BY <1>1 DEF CommandInv
<1> QED
    BY <1>1, <1>2, OtherKept

-----------------------------------------------------------------------------
(* The inductive invariant: the actions.                                   *)

LEMMA InitInv == BundleInit => BundleInv
<1> SUFFICES ASSUME BundleInit PROVE BundleInv
    OBVIOUS
<1>1. \A c \in Command : CommandInv(c)
    BY IdleFacts DEF BundleInit, CommandInv, Holds, BuildInv, DraftInv
<1>2. FilesInv
    BY DEF BundleInit, FilesInv, ManifestDescribes, AuditIsTrue, Generated
<1> QED
    BY <1>1, <1>2, BundleInvParts

LEMMA FilesKept ==
    ASSUME FilesInv, UNCHANGED <<files, styled, secret, drafts, audit>>,
           BundleTypeOK, builds' = builds \/ builds' = builds + 1
    PROVE  FilesInv'
<1>1. \A f \in Generated : files'[f] <= builds'
    BY DEF FilesInv, BundleTypeOK
<1>2. ManifestDescribes'
    BY DEF FilesInv, ManifestDescribes, BundleTypeOK, Generated
<1>3. AuditIsTrue'
    BY DEF FilesInv, AuditIsTrue
<1> QED
    BY <1>1, <1>2, <1>3 DEF FilesInv

LEMMA StartInv ==
    ASSUME BundleTypeOK, BundleInv, NEW c \in Command,
           NEW what \in {"build", "draft", "review"}, NEW draft,
           NEW sets, NEW style, Start(c, what, draft, sets, style),
           what # "build" => draft \in Draft,
           what = "draft" => sets = "pending_approval",
           what = "review" => sets \in {"approved_for_manual_copy", "rejected"}
    PROVE  BundleInv'
<1>1. /\ running'[c].what = what /\ running'[c].at = 1 /\ running'[c].temp = FALSE
      /\ running'[c].draft = draft /\ running'[c].sets = sets
      /\ running[c] = NotRunning
      /\ \A d \in Command : d # c => running'[d] = running[d]
      /\ UNCHANGED <<files, styled, secret, drafts, audit, builds, lock>>
    BY DEF Start, dir, NotRunning, BundleTypeOK
<1>2. CommandInv(c)'
    BY <1>1 DEF CommandInv, Holds, BuildInv, DraftInv
<1>3. \A d \in Command : d # c => CommandInv(d)'
    BY <1>1, OthersKept
<1>4. FilesInv'
    BY <1>1, FilesKept, BundleInvParts
<1> QED
    BY <1>2, <1>3, <1>4, BundleInvParts

LEMMA LockInv ==
    ASSUME BundleTypeOK, BundleInv, NEW c \in Command, Lock(c)
    PROVE  BundleInv'
<1>1. /\ running[c].what # "idle" /\ Step(c) = "lock" /\ lock' = c /\ lock = 0
      /\ builds' = IF running[c].what = "build" THEN builds + 1 ELSE builds
      /\ running' = [running EXCEPT ![c].at = running[c].at + 1, ![c].build = builds']
      /\ UNCHANGED <<files, styled, secret, drafts, audit>>
    BY DEF Lock, At, dir
<1>2. /\ running'[c] = [running[c] EXCEPT !.at = running[c].at + 1, !.build = builds']
      /\ \A d \in Command : d # c => running'[d] = running[d]
    BY <1>1 DEF BundleTypeOK
<1>3. /\ running'[c].what = running[c].what /\ running'[c].at = running[c].at + 1
      /\ running'[c].temp = running[c].temp /\ running'[c].build = builds'
      /\ running'[c].draft = running[c].draft
      /\ running'[c].sets = running[c].sets
    BY <1>2, RunType DEF Run
<1>4. IF running[c].what = "build" THEN running[c].at = 3 ELSE running[c].at = 2
    BY <1>1, Where
<1>5. CommandInv(c)
    BY BundleInvParts
<1>6. ~ running[c].temp
    BY <1>1, <1>5 DEF CommandInv, Writes, Generated
<1>7. CommandInv(c)'
    <2>1. BuildInv(c)'
        <3>1. running[c].what = "build" => files'["manifest"] < builds'
            BY <1>1, BundleInvParts DEF FilesInv, BundleTypeOK, Generated
        <3> QED
            BY <1>3, <1>4, <3>1 DEF BuildInv
    <2>2. DraftInv(c)'
        BY <1>3, <1>4, <1>5 DEF CommandInv, DraftInv
    <2> QED
        BY <1>1, <1>3, <1>6, <2>1, <2>2 DEF CommandInv
<1>8. ASSUME NEW d \in Command, d # c PROVE CommandInv(d)'
    <2>1. CommandInv(d) /\ ~Holds(d)
        BY <1>1, BundleInvParts, BundleAssumption DEF CommandInv
    <2> QED
        BY <1>2, <1>8, <2>1, OtherKept
<1>9. FilesInv'
    BY <1>1, FilesKept, BundleInvParts
<1> QED
    BY <1>7, <1>8, <1>9, BundleInvParts

LEMMA EndingInv ==
    ASSUME BundleTypeOK, BundleInv, NEW c \in Command, EndsEarly(c)
    PROVE  BundleInv'
<1>1. /\ running'[c] = NotRunning
      /\ \A d \in Command : d # c => running'[d] = running[d]
    BY DEF EndsEarly, BundleTypeOK
<1>2. CommandInv(c)'
    BY <1>1, IdleKept
<1>3. \A d \in Command : d # c => CommandInv(d)'
    BY <1>1, OthersKept DEF EndsEarly
<1>4. FilesInv'
    BY FilesKept, BundleInvParts DEF EndsEarly
<1> QED
    BY <1>2, <1>3, <1>4, BundleInvParts

LEMMA TempInv ==
    ASSUME BundleTypeOK, BundleInv, NEW c \in Command, WriteTemp(c)
    PROVE  BundleInv'
<1>1. /\ running'[c] = [running[c] EXCEPT !.temp = TRUE]
      /\ \A d \in Command : d # c => running'[d] = running[d]
      /\ Writes(c) /\ Needed(c)
      /\ UNCHANGED <<files, styled, secret, drafts, audit, builds, lock>>
    BY DEF WriteTemp, dir, BundleTypeOK
<1>2. /\ running'[c].what = running[c].what /\ running'[c].at = running[c].at
      /\ running'[c].build = running[c].build /\ running'[c].style = running[c].style
      /\ running'[c].draft = running[c].draft
      /\ running'[c].sets = running[c].sets /\ running'[c].read = running[c].read
    BY <1>1, RunType DEF Run
<1>3. Step(c)' = Step(c)
    BY <1>2 DEF Step
<1>4. Writes(c)' /\ Needed(c)'
    BY <1>1, <1>2, <1>3 DEF Writes, Needed
<1>5. CommandInv(c)
    BY BundleInvParts
<1>6. CommandInv(c)'
    <2>1. Holds(c)' => lock' = c
        BY <1>1, <1>2, <1>5 DEF CommandInv, Holds
    <2>2. BuildInv(c)'
        BY <1>1, <1>2, <1>5 DEF CommandInv, BuildInv
    <2>3. DraftInv(c)'
        BY <1>1, <1>2, <1>5 DEF CommandInv, DraftInv, Reviewable
    <2> QED
        BY <1>4, <2>1, <2>2, <2>3 DEF CommandInv
<1>7. \A d \in Command : d # c => CommandInv(d)'
    BY <1>1, OthersKept
<1>8. FilesInv'
    BY <1>1, FilesKept, BundleInvParts
<1> QED
    BY <1>6, <1>7, <1>8, BundleInvParts

LEMMA PassesInv ==
    ASSUME BundleTypeOK, BundleInv, NEW c \in Command, Passes(c)
    PROVE  BundleInv'
<1>1. /\ running[c] \in Run /\ running[c].what # "idle" /\ Goes(c, running[c])
      /\ Step(c) \in {"prepare", "state"}
      /\ UNCHANGED <<files, styled, secret, drafts, audit, builds>>
    BY RunType DEF Passes, Prepare, StateDir, At, Done, dir
<1>2. running[c].at = 1
    BY <1>1, Where
<1>3. CommandInv(c)
    BY BundleInvParts
<1>4. running[c].temp = FALSE
    <2>1. ~Writes(c)
        BY <1>1 DEF Writes, Generated
    <2> QED
        BY <1>1, <1>3, <2>1 DEF CommandInv, Run
<1>5. CommandInv(c)'
    <2>1. /\ BuildDid(c)
          /\ running[c].at # 3 /\ running[c].at # 4 /\ Step(c) # "lock"
        BY <1>1, <1>2 DEF BuildDid
    <2> QED
        BY <1>1, <1>3, <1>4, <2>1, GoesInv
<1>6. \A d \in Command : d # c => CommandInv(d)'
    BY <1>1, GoesFacts, OthersKept
<1>7. FilesInv'
    BY <1>1, FilesKept, BundleInvParts
<1> QED
    BY <1>5, <1>6, <1>7, BundleInvParts

LEMMA ReadInv ==
    ASSUME BundleTypeOK, BundleInv, NEW c \in Command, ReadDrafts(c)
    PROVE  BundleInv'
<1> DEFINE r == [drafts EXCEPT ![running[c].draft] = running[c].sets]
           next == [running[c] EXCEPT !.read = r]
<1>1. /\ running[c] \in Run /\ running[c].what # "idle" /\ Goes(c, next)
      /\ Step(c) = "read" /\ drafts # <<>> /\ Reviewable(drafts, running[c])
      /\ UNCHANGED <<files, styled, secret, drafts, audit, builds>>
    BY RunType DEF ReadDrafts, At, dir
<1>2. running[c].at = 3 /\ running[c].what # "build"
    BY <1>1, Where
<1>3. CommandInv(c)
    BY BundleInvParts
<1>4. running[c].temp = FALSE
    <2>1. ~Writes(c)
        BY <1>1 DEF Writes, Generated
    <2> QED
        BY <1>1, <1>3, <2>1 DEF CommandInv, Run
<1>5. r \in Store
    BY <1>1 DEF Store, Run, BundleTypeOK
<1> HIDE DEF r
<1>6. /\ next \in Run /\ next.what = running[c].what /\ next.at = running[c].at
      /\ next.build = running[c].build /\ next.draft = running[c].draft
      /\ next.sets = running[c].sets /\ next.style = running[c].style
      /\ next.temp = FALSE /\ next.read = r
    BY <1>1, <1>4, <1>5 DEF Run
<1> HIDE DEF next
<1>7. Reviewable(drafts', next) /\ next.read = [drafts' EXCEPT ![next.draft] = next.sets]
    BY <1>1, <1>6 DEF Reviewable, r
<1>8. CommandInv(c)'
    <2>1. running[c].at # 4 /\ Step(c) # "lock" /\ drafts' # <<>> /\ builds' = builds
        BY <1>1, <1>2
    <2> QED
        BY <1>1, <1>2, <1>3, <1>6, <1>7, <2>1, GoesInv
<1>9. \A d \in Command : d # c => CommandInv(d)'
    BY <1>1, <1>6, GoesFacts, OthersKept
<1>10. FilesInv'
    BY <1>1, FilesKept, BundleInvParts
<1> QED
    BY <1>8, <1>9, <1>10, BundleInvParts

LEMMA SkipInv ==
    ASSUME BundleTypeOK, BundleInv, NEW c \in Command, Skip(c)
    PROVE  BundleInv'
<1>1. /\ running[c] \in Run /\ running[c].what # "idle" /\ Goes(c, running[c])
      /\ Writes(c) /\ ~Needed(c) /\ running[c].temp = FALSE
      /\ UNCHANGED <<styled, secret, drafts, audit, builds>>
    BY RunType DEF Skip, Writes, Done, Run
<1>2. /\ Step(c) \in {"secret", "drafts", "style_context"}
      /\ Step(c) = "secret" => secret # 0
      /\ Step(c) = "drafts" => running[c].what = "build" /\ drafts # <<>>
      /\ Step(c) = "style_context" => running[c].style = FALSE
    BY <1>1 DEF Needed, Run
<1>3. files' = IF Step(c) = "style_context"
               THEN [files EXCEPT !["style_context"] = 0] ELSE files
    BY DEF Skip
<1>4. CommandInv(c)
    BY BundleInvParts
<1>5. /\ running[c].what = "build" /\ running[c].at \in {4, 5, 8}
      /\ Step(c) = "secret" <=> running[c].at = 4
      /\ Step(c) = "style_context" <=> running[c].at = 5
    BY <1>1, <1>2, Where
<1>6. /\ files'["events"] = files["events"]
      /\ files'["triage_queue"] = files["triage_queue"]
      /\ files'["manifest"] = files["manifest"]
      /\ files'["emotion_dashboard"] = files["emotion_dashboard"]
      /\ files'["style_context"] = IF Step(c) = "style_context" THEN 0
                                   ELSE files["style_context"]
    BY <1>3 DEF BundleTypeOK, Generated
<1>7. CommandInv(c)'
    <2>1. BuildDid(c)
        BY <1>1, <1>2, <1>4, <1>5, <1>6, Where DEF CommandInv, BuildInv, BuildDid
    <2> QED
        BY <1>1, <1>2, <1>4, <1>5, <2>1, GoesInv
<1>8. Holds(c)
    BY <1>5 DEF Holds
<1>9. \A d \in Command : d # c => CommandInv(d)'
    BY <1>1, <1>8, GoesFacts, OthersKept
<1>10. FilesInv'
    <2>1. FilesInv
        BY BundleInvParts
    <2>2. \A f \in Generated : files'[f] <= builds
        BY <1>3, <2>1 DEF FilesInv, BundleTypeOK
    <2>3. ManifestDescribes'
        <3>1. Step(c) = "style_context" => files["manifest"] < builds
            BY <1>4, <1>5 DEF CommandInv, BuildInv
        <3>2. files["manifest"] \in Nat /\ files["style_context"] \in Nat
            BY DEF BundleTypeOK, Generated
        <3> QED
            BY <1>1, <1>6, <2>1, <3>1, <3>2 DEF FilesInv, ManifestDescribes
    <2>4. AuditIsTrue'
        BY <1>1, <2>1 DEF FilesInv, AuditIsTrue
    <2> QED
        BY <1>1, <2>1, <2>2, <2>3, <2>4 DEF FilesInv
<1> QED
    BY <1>7, <1>9, <1>10, BundleInvParts

LEMMA AuditInv ==
    ASSUME BundleTypeOK, BundleInv, NEW c \in Command, WriteAudit(c)
    PROVE  BundleInv'
<1>1. /\ running[c] \in Run /\ running[c].what # "idle" /\ Goes(c, running[c])
      /\ Step(c) = "audit"
      /\ UNCHANGED <<files, styled, secret, drafts, builds>>
    BY RunType DEF WriteAudit, At, Done
<1>2. IF running[c].what = "build" THEN running[c].at = 11 ELSE running[c].at = 5
    BY <1>1, Where
<1>3. running[c].at = Len(Plan[running[c].what])
    BY <1>1, <1>2, BuildPlan, DraftPlan DEF Run
<1>4. running'[c] = NotRunning
    <2>1. running[c].at \in Nat /\ ~(running[c].at < Len(Plan[running[c].what]))
        BY <1>1, <1>2, <1>3 DEF Run
    <2> QED
        BY <1>1, <2>1, GoesFacts
<1>5. CommandInv(c)'
    BY <1>4, IdleKept
<1>6. \A d \in Command : d # c => CommandInv(d)'
    BY <1>1, GoesFacts, OthersKept
<1>7. FilesInv /\ CommandInv(c)
    BY BundleInvParts
<1>8. /\ \A f \in Generated : files'[f] <= builds'
      /\ ManifestDescribes'
    BY <1>1, <1>7 DEF FilesInv, ManifestDescribes
<1>9. ASSUME NEW d \in Draft, NEW s \in DraftStatuses, <<d, s>> \in audit'
      PROVE  /\ s # "absent" /\ drafts # <<>>
             /\ drafts[d] = s \/ (s = "pending_approval" /\ drafts[d] # "absent")
    <2>1. CASE <<d, s>> \in audit
        BY <1>7, <2>1 DEF FilesInv, AuditIsTrue
    <2>2. CASE <<d, s>> \notin audit
        <3>1. running[c].what # "build" /\ d = running[c].draft /\ s = running[c].sets
            BY <1>9, <2>2, BundleAssumption DEF WriteAudit
        <3> QED
            BY <1>1, <1>2, <1>7, <3>1 DEF CommandInv, DraftInv, Run
    <2> QED
        BY <2>1, <2>2
<1>10. AuditIsTrue'
    BY <1>1, <1>9 DEF AuditIsTrue
<1>11. \A d \in Draft : <<d, "absent">> \notin audit'
    BY <1>9 DEF DraftStatuses
<1> QED
    BY <1>5, <1>6, <1>8, <1>10, <1>11, BundleInvParts DEF FilesInv

LEMMA Dashboard ==
    ASSUME BundleTypeOK, NEW c \in Command, running[c].what = "build",
           Step(c) = "emotion_dashboard"
    PROVE  running[c].at = 10
BY RunType, BuildPlan DEF Step, Run

LEMMA ReplaceInv ==
    ASSUME BundleTypeOK, BundleInv, NEW c \in Command, Replace(c)
    PROVE  BundleInv'
<1> DEFINE next == [running[c] EXCEPT !.temp = FALSE]
<1>1. CommandInv(c) /\ FilesInv /\ running[c] \in Run
    BY BundleInvParts, RunType
<1>2. /\ running[c].what # "idle" /\ Writes(c) /\ Needed(c) /\ Goes(c, next)
      /\ audit' = audit /\ builds' = builds
    BY <1>1 DEF Replace, CommandInv, Writes
<1>3. /\ next \in Run /\ next.what = running[c].what /\ next.at = running[c].at
      /\ next.build = running[c].build /\ next.draft = running[c].draft
      /\ next.sets = running[c].sets /\ next.style = running[c].style
      /\ next.temp = FALSE
    BY <1>1 DEF Run
<1> HIDE DEF next
<1>4. \/ Step(c) = "marker" /\ ~Holds(c)
      \/ Step(c) # "marker" /\ Holds(c)
    <2>1. ~Holds(c) => Step(c) = "marker"
        BY <1>2, BeforeTheLock
    <2>2. Step(c) = "marker" => ~Holds(c)
        BY <1>2, Where DEF Holds
    <2> QED
        BY <2>1, <2>2
<1>5. /\ Step(c) \notin Generated => files' = files
      /\ Step(c) \in Generated =>
           files' = [files EXCEPT ![Step(c)] = running[c].build]
      /\ Step(c) # "secret" => secret' = secret
      /\ Step(c) = "secret" => secret' = c
      /\ Step(c) # "drafts" => drafts' = drafts
      /\ Step(c) = "drafts" /\ running[c].what = "build" => drafts' = NoDrafts
      /\ Step(c) = "drafts" /\ running[c].what # "build" => drafts' = running[c].read
      /\ Step(c) # "manifest" => styled' = styled
      /\ Step(c) = "manifest" => styled' = running[c].style
    <2>1. /\ Step(c) \notin Generated => files' = files
          /\ Step(c) \in Generated =>
               files' = [files EXCEPT ![Step(c)] = running[c].build]
        BY DEF Replace
    <2>2. /\ Step(c) # "secret" => secret' = secret
          /\ Step(c) = "secret" => secret' = c
        BY DEF Replace
    <2>3. /\ Step(c) # "drafts" => drafts' = drafts
          /\ Step(c) = "drafts" /\ running[c].what = "build" => drafts' = NoDrafts
          /\ Step(c) = "drafts" /\ running[c].what # "build" =>
               drafts' = running[c].read
        BY DEF Replace
    <2>4. styled' = IF Step(c) = "manifest" THEN running[c].style ELSE styled
        BY DEF Replace
    <2> QED
        BY <2>1, <2>2, <2>3, <2>4
<1>6. Step(c) = "lock" <=> FALSE
    BY <1>2 DEF Writes, Generated
<1>7. CASE Step(c) = "marker"
    <2>1. /\ UNCHANGED <<files, styled, secret, drafts>>
          /\ running[c].what = "build" /\ running[c].at = 2
        BY <1>2, <1>5, <1>7, Where DEF Generated
    <2>2. CommandInv(c)'
        <3>1. BuildDid(c)
            BY <2>1 DEF BuildDid
        <3> QED
            BY <1>1, <1>2, <1>3, <1>6, <2>1, <3>1, GoesInv
    <2>3. \A d \in Command : d # c => CommandInv(d)'
        BY <1>2, <1>3, <2>1, GoesFacts, OthersKept
    <2>4. FilesInv'
        BY <1>1, <1>2, <2>1, FilesKept
    <2> QED
        BY <2>2, <2>3, <2>4, BundleInvParts
<1>8. CASE running[c].what = "build" /\ Step(c) # "marker"
    <2>1. /\ Holds(c) /\ running[c].at \in Nat /\ running[c].at > 3
          /\ running[c].build = builds
        BY <1>1, <1>2, <1>4, <1>8, Where DEF Holds, CommandInv, BuildInv
    <2>2. /\ Step(c) = "events" <=> running[c].at = 6
          /\ Step(c) = "triage_queue" <=> running[c].at = 7
          /\ Step(c) = "secret" <=> running[c].at = 4
          /\ Step(c) = "drafts" <=> running[c].at = 8
          /\ Step(c) = "manifest" <=> running[c].at = 9
          /\ Step(c) = "style_context" <=> running[c].at = 5
          /\ running[c].at = 5 => running[c].style = TRUE
          /\ running[c].style \in BOOLEAN
        BY <1>1, <1>2, <1>8, Where DEF Needed, Run
    <2>3. \A f \in Generated : files'[f] = IF f = Step(c) THEN builds ELSE files[f]
        BY <1>5, <2>1 DEF BundleTypeOK
    <2>4. Step(c) = "secret" => secret' # 0
        BY <1>5, BundleAssumption
    <2>5. Step(c) = "drafts" => drafts = <<>> /\ drafts' = NoDrafts
        BY <1>2, <1>5, <1>8 DEF Needed
    <2>6. NoDrafts # <<>>
        <3>1. DOMAIN NoDrafts = Draft /\ DOMAIN <<>> = {}
            BY DEF NoDrafts
        <3> QED
            BY <3>1, BundleAssumption
    <2>7. /\ files'["events"] = IF running[c].at = 6 THEN builds ELSE files["events"]
          /\ files'["triage_queue"]
               = IF running[c].at = 7 THEN builds ELSE files["triage_queue"]
          /\ files'["manifest"] = IF running[c].at = 9 THEN builds ELSE files["manifest"]
          /\ files'["style_context"]
               = IF running[c].at = 5 THEN builds ELSE files["style_context"]
        BY <2>2, <2>3 DEF Generated
    <2>8. /\ running[c].at > 4 => secret # 0
          /\ running[c].at > 6 => files["events"] = builds
          /\ running[c].at > 7 => files["triage_queue"] = builds
          /\ running[c].at > 8 => drafts # <<>>
          /\ running[c].at > 5 =>
               files["style_context"] = IF running[c].style THEN builds ELSE 0
          /\ running[c].at \in 4..9 => files["manifest"] < builds
          /\ running[c].at = 10 => files["manifest"] = builds
        BY <1>1, <1>8 DEF CommandInv, BuildInv
    <2>9. /\ secret' = secret \/ secret' # 0
          /\ drafts' = drafts \/ (drafts = <<>> /\ drafts' # <<>>)
        BY <1>5, <2>4, <2>5, <2>6
    <2>10. BuildDid(c)
        <3>1. running[c].at = 4 \/ running[c].at > 4
            BY <2>1
        <3>2. running[c].at >= 6 => running[c].at = 6 \/ running[c].at > 6
            BY <2>1
        <3>3. running[c].at >= 7 => running[c].at = 7 \/ running[c].at > 7
            BY <2>1
        <3>4. running[c].at >= 8 => running[c].at = 8 \/ running[c].at > 8
            BY <2>1
        <3>5. running[c].at >= 5 => running[c].at = 5 \/ running[c].at > 5
            BY <2>1
        <3> QED
            BY <2>1, <2>2, <2>4, <2>5, <2>6, <2>7, <2>8, <2>9, <3>1, <3>2, <3>3, <3>4,
               <3>5 DEF BuildDid
    <2>11. CommandInv(c)'
        BY <1>1, <1>2, <1>3, <1>6, <1>8, <2>10, GoesInv
    <2>12. \A d \in Command : d # c => CommandInv(d)'
        BY <1>2, <1>3, <2>1, GoesFacts, OthersKept
    <2>13. \A f \in Generated : files'[f] <= builds'
        BY <1>1, <1>2, <2>3 DEF FilesInv, BundleTypeOK
    <2>14. ManifestDescribes'
        <3>1. /\ builds \in Nat /\ \A f \in Generated : files[f] \in Nat /\ files[f] <= builds
              /\ files'["emotion_dashboard"]
                   = IF Step(c) = "emotion_dashboard" THEN builds
                     ELSE files["emotion_dashboard"]
            BY <1>1, <2>3 DEF FilesInv, BundleTypeOK, Generated
        <3>2. Step(c) = "emotion_dashboard" => running[c].at = 10
            BY <1>2, <1>8, Dashboard
        <3>3. CASE running[c].at = 9
            <4>1. /\ files'["manifest"] = builds /\ files["style_context"] = files'["style_context"]
                  /\ files["events"] = builds /\ files["triage_queue"] = builds
                  /\ files'["events"] = builds /\ files'["triage_queue"] = builds
                  /\ drafts' # <<>> /\ secret' # 0
                  /\ styled' = running[c].style
                BY <1>5, <2>2, <2>7, <2>8, <2>9, <3>3
            <4>2. files'["emotion_dashboard"] <= files'["manifest"]
                BY <2>2, <3>1, <3>2, <3>3, <4>1 DEF Generated
            <4>3. files'["style_context"] = IF running[c].style THEN builds ELSE 0
                BY <2>8, <3>3, <4>1
            <4> QED
                BY <3>1, <4>1, <4>2, <4>3 DEF ManifestDescribes
        <3>4. CASE running[c].at # 9
            <4> SUFFICES ASSUME files'["manifest"] # 0 PROVE ManifestDescribes'
                BY DEF ManifestDescribes
            <4>1. files'["manifest"] = files["manifest"] /\ styled' = styled
                BY <1>5, <2>2, <2>7, <3>4
            <4>2. /\ files'["events"] >= files["manifest"]
                  /\ files'["triage_queue"] >= files["manifest"]
                  /\ drafts' # <<>> /\ secret' # 0
                BY <1>1, <2>7, <2>9, <3>1, <4>1 DEF FilesInv, ManifestDescribes, Generated
            <4>3. files'["emotion_dashboard"] <= files["manifest"]
                BY <1>1, <2>8, <3>1, <3>2, <4>1 DEF FilesInv, ManifestDescribes, Generated
            <4>4. IF styled
                  THEN \/ files'["style_context"] >= files["manifest"]
                       \/ files'["style_context"] = 0 /\ builds > files["manifest"]
                  ELSE \/ files'["style_context"] = 0
                       \/ files'["style_context"] > files["manifest"]
                <5>1. CASE running[c].at = 5
                    BY <2>7, <2>8, <3>1, <5>1 DEF Generated
                <5>2. CASE running[c].at # 5
                    BY <1>1, <2>7, <4>1, <5>2 DEF FilesInv, ManifestDescribes
                <5> QED
                    BY <5>1, <5>2
            <4> QED
                BY <1>2, <4>1, <4>2, <4>3, <4>4 DEF ManifestDescribes
        <3> QED
            BY <3>3, <3>4
    <2>15. AuditIsTrue'
        BY <1>1, <1>2, <2>9 DEF FilesInv, AuditIsTrue
    <2> QED
        BY <1>1, <1>2, <2>11, <2>12, <2>13, <2>14, <2>15, BundleInvParts DEF FilesInv
<1>9. CASE running[c].what # "build"
    <2>1. /\ running[c].what \in {"draft", "review"} /\ running[c].at = 4
          /\ Step(c) = "drafts"
        <3>1. Step(c) \notin Generated \cup {"marker", "secret"}
            BY <1>2, <1>9, Where
        <3>2. Step(c) = "drafts"
            BY <1>2, <3>1 DEF Writes
        <3> QED
            BY <1>2, <1>9, <3>2, Where
    <2>2. Holds(c)
        BY <2>1 DEF Holds
    <2>3. /\ running[c].draft \in Draft
          /\ running[c].sets \in IF running[c].what = "draft" THEN {"pending_approval"}
                                ELSE {"approved_for_manual_copy", "rejected"}
          /\ drafts # <<>> /\ Reviewable(drafts, running[c])
          /\ running[c].read = [drafts EXCEPT ![running[c].draft] = running[c].sets]
        BY <1>1, <2>1 DEF CommandInv, DraftInv
    <2>4. drafts \in Store
        BY <2>3 DEF BundleTypeOK
    <2>5. /\ files' = files /\ secret' = secret /\ drafts' = running[c].read
          /\ styled' = styled
        BY <1>5, <2>1 DEF Generated
    <2>6. /\ drafts'[running[c].draft] = running[c].sets
          /\ \A d \in Draft : d # running[c].draft => drafts'[d] = drafts[d]
          /\ drafts' # <<>>
        <3>1. DOMAIN drafts' = Draft /\ DOMAIN <<>> = {}
            BY <2>3, <2>4, <2>5 DEF Store
        <3> QED
            BY <2>3, <2>4, <2>5, <3>1, BundleAssumption DEF Store
    <2>7. CommandInv(c)'
        <3>1. running[c].at # 3 /\ drafts'[next.draft] = next.sets
            BY <1>3, <2>1, <2>6
        <3> QED
            BY <1>1, <1>2, <1>3, <1>6, <1>9, <2>6, <3>1, GoesInv
    <2>8. \A d \in Command : d # c => CommandInv(d)'
        BY <1>2, <1>3, <2>2, GoesFacts, OthersKept
    <2>9. \A f \in Generated : files'[f] <= builds'
        BY <1>1, <1>2, <2>5 DEF FilesInv
    <2>10. ManifestDescribes'
        BY <1>1, <1>2, <2>5, <2>6 DEF FilesInv, ManifestDescribes
    <2>11. AuditIsTrue'
        <3> SUFFICES ASSUME NEW d \in Draft, NEW s \in DraftStatuses, <<d, s>> \in audit
                     PROVE  drafts'[d] = s \/ (s = "pending_approval" /\ drafts'[d] # "absent")
            BY <1>2, <2>6 DEF AuditIsTrue
        <3>1. /\ s # "absent"
              /\ drafts[d] = s \/ (s = "pending_approval" /\ drafts[d] # "absent")
            BY <1>1 DEF FilesInv, AuditIsTrue
        <3>2. CASE d # running[c].draft
            BY <2>6, <3>1, <3>2
        <3>3. CASE d = running[c].draft
            BY <2>3, <2>6, <3>1, <3>3 DEF Reviewable
        <3> QED
            BY <3>2, <3>3
    <2> QED
        BY <1>1, <1>2, <2>7, <2>8, <2>9, <2>10, <2>11, BundleInvParts DEF FilesInv
<1> QED
    BY <1>7, <1>8, <1>9

LEMMA BundleNextInv ==
    BundleTypeOK /\ BundleInv /\ [BundleNext]_bundleVars => BundleTypeOK' /\ BundleInv'
<1> SUFFICES ASSUME BundleTypeOK, BundleInv, [BundleNext]_bundleVars
             PROVE  BundleTypeOK' /\ BundleInv'
    OBVIOUS
<1>0. Flags'
    BY FlagsType
<1>1. CASE UNCHANGED bundleVars
    <2>1. UNCHANGED <<files, styled, secret, marked, drafts, audit, leftovers, lock,
                      running, builds, faults>>
        BY <1>1 DEF bundleVars, dir
    <2>2. BundleTypeOK'
        BY <2>1 DEF BundleTypeOK
    <2>3. BundleInv'
        BY <2>1, Zenon DEF BundleInv, Holds, Writes, Needed, Step, BuildInv, DraftInv,
                           Reviewable, ManifestDescribes, AuditIsTrue
    <2> QED
        BY <2>2, <2>3
<1>2. ASSUME NEW c \in Command, NEW s \in BOOLEAN, Start(c, "build", 0, "absent", s)
      PROVE  BundleTypeOK' /\ BundleInv'
    BY <1>0, <1>2, StartType, StartInv DEF DraftStatuses
<1>3. ASSUME NEW c \in Command, NEW d \in Draft,
             Start(c, "draft", d, "pending_approval", FALSE)
      PROVE  BundleTypeOK' /\ BundleInv'
    BY <1>0, <1>3, StartType, StartInv DEF DraftStatuses
<1>4. ASSUME NEW c \in Command, NEW d \in Draft,
             NEW v \in DraftStatuses \ {"absent", "pending_approval"},
             Start(c, "review", d, v, FALSE)
      PROVE  BundleTypeOK' /\ BundleInv'
    BY <1>0, <1>4, StartType, StartInv DEF DraftStatuses
<1>5. ASSUME NEW c \in Command, Passes(c) PROVE BundleTypeOK' /\ BundleInv'
    BY <1>0, <1>5, PassesType, PassesInv
<1>6. ASSUME NEW c \in Command, Lock(c) PROVE BundleTypeOK' /\ BundleInv'
    BY <1>0, <1>6, LockType, LockInv
<1>7. ASSUME NEW c \in Command, ReadDrafts(c) PROVE BundleTypeOK' /\ BundleInv'
    BY <1>0, <1>7, ReadType, ReadInv
<1>8. ASSUME NEW c \in Command, Skip(c) PROVE BundleTypeOK' /\ BundleInv'
    BY <1>0, <1>8, SkipType, SkipInv
<1>9. ASSUME NEW c \in Command, WriteTemp(c) PROVE BundleTypeOK' /\ BundleInv'
    BY <1>0, <1>9, TempType, TempInv
<1>10. ASSUME NEW c \in Command, Replace(c) PROVE BundleTypeOK' /\ BundleInv'
    <2>1. running[c].what # "idle"
        BY <1>10, BundleInvParts DEF Replace, CommandInv, Writes
    <2> QED
        BY <1>0, <1>10, <2>1, ReplaceType, ReplaceInv
<1>11. ASSUME NEW c \in Command, WriteAudit(c) PROVE BundleTypeOK' /\ BundleInv'
    BY <1>0, <1>11, WriteAuditType, AuditInv
<1>12. ASSUME NEW c \in Command, Refused(c) \/ Raise(c) \/ CommandDies(c)
       PROVE  BundleTypeOK' /\ BundleInv'
    BY <1>0, <1>12, EndingType, EndingEnds, EndingInv
<1>13. CASE CleanUp
    <2>1. UNCHANGED <<files, styled, secret, drafts, audit, builds, lock, running, faults>>
        BY <1>13 DEF CleanUp, dir
    <2>2. BundleTypeOK'
        BY <1>0, <2>1, TypeParts DEF FieldsOK, RunsOK
    <2>3. BundleInv'
        BY <2>1 DEF BundleInv, Holds, Writes, Needed, Step, BuildInv, DraftInv,
                    Reviewable, ManifestDescribes, AuditIsTrue
    <2> QED
        BY <2>2, <2>3
<1> QED
    BY <1>1, <1>2, <1>3, <1>4, <1>5, <1>6, <1>7, <1>8, <1>9, <1>10, <1>11, <1>12, <1>13
    DEF BundleNext, Passes

\* What one step does to the secret and to the draft store: a secret and a
\* store that are there are only read, but for a command that changes the one
\* draft it has checked.
LEMMA NextKeeps ==
    ASSUME BundleTypeOK, BundleInv, BundleNext
    PROVE  /\ secret # 0 => secret' = secret
           /\ drafts # <<>> =>
                /\ drafts' # <<>>
                /\ \A d \in Draft :
                      \/ drafts[d] \in {"absent", drafts'[d]}
                      \/ drafts[d] = "pending_approval" /\ drafts'[d] # "absent"
<1>1. CASE UNCHANGED <<secret, drafts>>
    BY <1>1
<1>2. ASSUME NEW c \in Command, Replace(c)
      PROVE  /\ secret # 0 => secret' = secret
             /\ drafts # <<>> =>
                  /\ drafts' # <<>>
                  /\ \A d \in Draft :
                        \/ drafts[d] \in {"absent", drafts'[d]}
                        \/ drafts[d] = "pending_approval" /\ drafts'[d] # "absent"
    <2>1. CommandInv(c) /\ running[c] \in Run
        BY BundleInvParts, RunType
    <2>2. running[c].what # "idle" /\ Needed(c)
        BY <1>2, <2>1 DEF Replace, CommandInv, Writes
    <2>3. secret # 0 => secret' = secret
        BY <1>2, <2>2 DEF Replace, Needed
    <2>4. CASE Step(c) # "drafts" \/ drafts = <<>>
        BY <1>2, <2>3, <2>4 DEF Replace
    <2>5. CASE Step(c) = "drafts" /\ drafts # <<>>
        <3>1. running[c].what # "build"
            BY <2>2, <2>5 DEF Needed
        <3>2. running[c].what \in {"draft", "review"} /\ running[c].at = 4
            BY <2>2, <2>5, <3>1, Where
        <3>3. /\ running[c].draft \in Draft
              /\ running[c].sets \in IF running[c].what = "draft"
                                     THEN {"pending_approval"}
                                     ELSE {"approved_for_manual_copy", "rejected"}
              /\ Reviewable(drafts, running[c])
              /\ running[c].read
                    = [drafts EXCEPT ![running[c].draft] = running[c].sets]
            BY <2>1, <3>2 DEF CommandInv, DraftInv
        <3>4. drafts \in Store
            BY <2>5 DEF BundleTypeOK
        <3>5. drafts' = running[c].read
            BY <1>2, <2>5, <3>1 DEF Replace
        <3>6. /\ drafts'[running[c].draft] = running[c].sets
              /\ \A d \in Draft : d # running[c].draft => drafts'[d] = drafts[d]
            BY <3>3, <3>4, <3>5 DEF Store
        <3>7. drafts' # <<>>
            <4>1. DOMAIN drafts' = Draft /\ DOMAIN <<>> = {}
                BY <3>3, <3>4, <3>5 DEF Store
            <4> QED
                BY <4>1, BundleAssumption
        <3>8. ASSUME NEW d \in Draft
              PROVE  \/ drafts[d] \in {"absent", drafts'[d]}
                     \/ drafts[d] = "pending_approval" /\ drafts'[d] # "absent"
            <4>1. CASE d # running[c].draft
                BY <3>6, <4>1
            <4>2. CASE d = running[c].draft
                BY <3>3, <3>6, <4>2 DEF Reviewable
            <4> QED
                BY <4>1, <4>2
        <3> QED
            BY <2>3, <3>7, <3>8
    <2> QED
        BY <2>4, <2>5
<1> QED
    BY <1>1, <1>2 DEF BundleNext, dir, Start, Prepare, StateDir, Lock, ReadDrafts, Skip,
                      WriteTemp, WriteAudit, Refused, Raise, CommandDies, CleanUp

-----------------------------------------------------------------------------
(* Theorems.                                                               *)

LEMMA BundleInductive == BundleSpec => [](BundleTypeOK /\ BundleInv)
<1>1. BundleInit => BundleTypeOK /\ BundleInv
    BY BundleInitType, InitInv
<1> QED
    BY <1>1, BundleNextInv, PTL DEF BundleSpec

\* Files, draft store and running commands keep their types, and no command
\* goes past its last step.
THEOREM BundleTypeCorrect == BundleSpec => []BundleTypeOK
BY BundleInductive, PTL

\* The command past its lock is the only one, and what it has checked and
\* read is still what the directory says.
THEOREM BundleIsSound == BundleSpec => []BundleInv
BY BundleInductive, PTL

\* Wherever builds raised or died, events and triage queue are never missing or
\* older than the manifest that describes them; its style context is missing
\* only when a later build without a style removed it, and the dashboard, which
\* is written after the manifest, is never newer than it.
THEOREM ManifestIsSound == BundleSpec => []ManifestDescribes
<1>1. BundleInv => ManifestDescribes
    BY DEF BundleInv
<1> QED
    BY <1>1, BundleInductive, PTL

\* audit.jsonl never says of a draft what the draft store does not.
THEOREM AuditIsAlwaysTrue == BundleSpec => []AuditIsTrue
<1>1. BundleInv => AuditIsTrue
    BY DEF BundleInv
<1> QED
    BY <1>1, BundleInductive, PTL

\* No build and no other command loses a draft or undoes its review.
THEOREM DraftsAreNeverLost == BundleSpec => DraftsAreKept
<1>1. BundleTypeOK /\ BundleInv /\ [BundleNext]_bundleVars =>
        [drafts # <<>> =>
           /\ drafts' # <<>>
           /\ \A d \in Draft :
                 \/ drafts[d] \in {"absent", drafts'[d]}
                 \/ drafts[d] = "pending_approval" /\ drafts'[d] # "absent"]_drafts
    BY NextKeeps DEF bundleVars, dir
<1> QED
    BY <1>1, BundleInductive, PTL DEF BundleSpec, DraftsAreKept

\* .identity_secret is written once, by whichever build gets the lock first.
THEOREM SecretIsMadeOnce == BundleSpec => SecretIsKept
<1>1. BundleTypeOK /\ BundleInv /\ [BundleNext]_bundleVars =>
        [secret # 0 => secret' = secret]_secret
    BY NextKeeps DEF bundleVars, dir
<1> QED
    BY <1>1, BundleInductive, PTL DEF BundleSpec, SecretIsKept

\* Drafts, reviews and the secret outlive every build and every command.
THEOREM NothingIsEverLost == BundleSpec => NothingIsLost
BY DraftsAreNeverLost, SecretIsMadeOnce, PTL DEF NothingIsLost

-----------------------------------------------------------------------------
(* The LaunchAgent and the control markers.                                *)

\* A caller that goes on to its next step.
LEMMA ThenFacts ==
    ASSUME ServiceTypeOK, NEW c \in Caller, NEW step \in ServiceSteps,
           Then(c, step)
    PROVE  /\ command' \in [Caller -> [step: ServiceSteps,
                                       content: Contents \cup {0}]]
           /\ \A d \in Caller : d # c => command'[d] = command[d]
           /\ command'[c].step = step
           /\ step # "none" => command'[c].content = command[c].content
           /\ serving' = IF step = "none" /\ serving = c THEN 0 ELSE serving
<1> DEFINE rec == [step: ServiceSteps, content: Contents \cup {0}]
<1>1. command \in [Caller -> rec] /\ command[c] \in rec
    BY DEF ServiceTypeOK
<1>2. CASE step = "none"
  <2>1. NoCommand \in rec /\ NoCommand.step = "none"
    BY DEF NoCommand, ServiceSteps
  <2>2. command' = [command EXCEPT ![c] = NoCommand]
    BY <1>2 DEF Then
  <2> QED
    BY <1>1, <1>2, <2>1, <2>2 DEF Then
<1>3. CASE step # "none"
  <2>1. command' = [command EXCEPT ![c] = [command[c] EXCEPT !.step = step]]
    BY <1>3 DEF Then
  <2>2. /\ [command[c] EXCEPT !.step = step] \in rec
        /\ [command[c] EXCEPT !.step = step].step = step
        /\ [command[c] EXCEPT !.step = step].content = command[c].content
    BY <1>1
  <2> QED
    BY <1>1, <1>3, <2>1, <2>2 DEF Then
<1> QED
    BY <1>2, <1>3

LEMMA ServiceConstants ==
    Contents \subseteq Nat \ {0} /\ 0 \notin Caller /\ MaxDeaths \in Nat
BY ServiceAssumption

LEMMA ServiceInitInv == ServiceInit => ServiceTypeOK /\ ServiceInv
<1> SUFFICES ASSUME ServiceInit PROVE ServiceTypeOK /\ ServiceInv
    OBVIOUS
<1>1. \A c \in Caller : command[c].step = "none"
    BY DEF ServiceInit, NoCommand
<1>2. ServiceTypeOK
  <2>1. command \in [Caller -> [step: ServiceSteps, content: Contents \cup {0}]]
    BY DEF ServiceInit, NoCommand, ServiceSteps
  <2>2. deaths \in 0..MaxDeaths
    BY ServiceConstants DEF ServiceInit
  <2> QED
    BY <2>1, <2>2 DEF ServiceInit, ServiceTypeOK
<1> QED
    BY <1>1, <1>2 DEF ServiceInit, ServiceInv, CallerInv, Serves, On,
                      LoadedHasPlist, KillIsPaused

\* Every step keeps the types.
LEMMA ServiceNextType ==
    ASSUME ServiceTypeOK, [ServiceNext]_serviceVars
    PROVE  ServiceTypeOK'
<1> USE ServiceConstants DEF ServiceTypeOK, Service, Markers
<1> DEFINE types == /\ command' \in [Caller -> [step: ServiceSteps,
                                                content: Contents \cup {0}]]
                    /\ serving' \in Caller \cup {0}
<1>1. ASSUME NEW c \in Caller, NEW step \in ServiceSteps, Then(c, step)
      PROVE  types
    BY <1>1, ThenFacts
<1>2. ASSUME NEW c \in Caller, NEW n \in Contents, StartInstall(c, n)
      PROVE  ServiceTypeOK'
    BY <1>2 DEF StartInstall, ServiceSteps
<1>3. ASSUME NEW c \in Caller, NEW b \in BOOLEAN, WritePlist(c, b)
      PROVE  ServiceTypeOK'
  <2>1. types
    BY <1>1, <1>3 DEF WritePlist, ServiceSteps
  <2> QED
    BY <1>3, <2>1 DEF WritePlist
<1>4. ASSUME NEW c \in Caller, NEW b \in BOOLEAN,
             Bootout(c, b) \/ Bootstrap(c, b) \/ Stop(c, b) \/ ConfirmGone(c, b)
      PROVE  ServiceTypeOK'
  <2>1. types
    BY <1>1, <1>4 DEF Bootout, Bootstrap, Stop, ConfirmGone, ServiceSteps
  <2> QED
    BY <1>4, <2>1 DEF Bootout, Bootstrap, Stop, ConfirmGone
<1>5. ASSUME NEW c \in Caller,
             Kickstart(c) \/ Unlink(c) \/ ResumeCheck(c)
      PROVE  ServiceTypeOK'
  <2>1. types
    BY <1>1, <1>5 DEF Kickstart, Unlink, ResumeCheck, ServiceSteps
  <2> QED
    BY <1>5, <2>1 DEF Kickstart, Unlink, ResumeCheck
<1>6. ASSUME NEW c \in Caller, StartUninstall(c)
      PROVE  ServiceTypeOK'
    BY <1>6 DEF StartUninstall, ServiceSteps
<1>7. ASSUME NEW c \in Caller, Pause(c) \/ Clear(c)
      PROVE  ServiceTypeOK'
    BY <1>7 DEF Pause, Clear
<1>8. ASSUME NEW c \in Caller,
             ResumeUnlink(c) \/ Kill(c) \/ KillPause(c) \/ CallerDies(c)
      PROVE  ServiceTypeOK'
  <2>1. types
    BY <1>1, <1>8 DEF ResumeUnlink, Kill, KillPause, CallerDies, ServiceSteps
  <2>2. raced' \in BOOLEAN /\ kill' \in BOOLEAN /\ pause' \in BOOLEAN
    BY <1>8 DEF ResumeUnlink, Kill, KillPause, CallerDies
  <2>3. plist' = plist /\ job' = job /\ blind' = blind
    BY <1>8 DEF ResumeUnlink, Kill, KillPause, CallerDies
  <2>4. deaths' = deaths \/ (deaths < MaxDeaths /\ deaths' = deaths + 1)
    BY <1>8 DEF ResumeUnlink, Kill, KillPause, CallerDies
  <2>5. deaths' \in 0..MaxDeaths
    BY <2>4
  <2> QED
    BY <2>1, <2>2, <2>3, <2>5
<1>9. ASSUME Login \/ Logout \/ UNCHANGED serviceVars
      PROVE  ServiceTypeOK'
    BY <1>9 DEF Login, Logout, serviceVars
<1> QED
    BY <1>2, <1>3, <1>4, <1>5, <1>6, <1>7, <1>8, <1>9 DEF ServiceNext

\* The caller that installs or uninstalls is alone, so nothing moves beneath
\* it but a session's end.
LEMMA ServesAlone ==
    ASSUME ServiceInv, NEW c \in Caller, command[c].step \in Serves,
           NEW d \in Caller, d # c
    PROVE  serving = c /\ command[d].step \notin Serves
BY DEF ServiceInv, CallerInv

\* Steps of an install or an uninstall.
LEMMA ServingInv ==
    ASSUME ServiceTypeOK, ServiceInv, NEW c \in Caller, NEW b \in BOOLEAN,
           \/ WritePlist(c, b) \/ Bootout(c, b) \/ Bootstrap(c, b) \/ Stop(c, b)
           \/ Kickstart(c) \/ ConfirmGone(c, b) \/ Unlink(c)
    PROVE  ServiceInv'
<1> USE DEF Service, Markers, On
<1>1. PICK step \in ServiceSteps \ {"resume", "kill", "kill_pause"} :
        /\ Then(c, step)
        /\ WritePlist(c, b) => step \in {"bootout", "none"}
        /\ Bootout(c, b) => step = "bootstrap"
        /\ Bootstrap(c, b) => step = IF b THEN "kickstart" ELSE "none"
        /\ Stop(c, b) => step \in {"print", "none"}
        /\ Kickstart(c) \/ Unlink(c) => step = "none"
        /\ ConfirmGone(c, b) => step = IF job # 0 /\ ~b THEN "none" ELSE "unlink"
  <2>1. CASE WritePlist(c, b)
    BY <2>1 DEF WritePlist, Bootout, Bootstrap, Stop, Kickstart, ConfirmGone,
                Unlink, ServiceSteps
  <2>2. CASE Bootout(c, b)
    BY <2>2 DEF WritePlist, Bootout, Bootstrap, Stop, Kickstart, ConfirmGone,
                Unlink, ServiceSteps
  <2>3. CASE Bootstrap(c, b)
    BY <2>3 DEF WritePlist, Bootout, Bootstrap, Stop, Kickstart, ConfirmGone,
                Unlink, ServiceSteps
  <2>4. CASE Stop(c, b)
    BY <2>4 DEF WritePlist, Bootout, Bootstrap, Stop, Kickstart, ConfirmGone,
                Unlink, ServiceSteps
  <2>5. CASE Kickstart(c) \/ ConfirmGone(c, b) \/ Unlink(c)
    BY <2>5 DEF WritePlist, Bootout, Bootstrap, Stop, Kickstart, ConfirmGone,
                Unlink, ServiceSteps
  <2> QED
    BY <2>1, <2>2, <2>3, <2>4, <2>5
<1>2. /\ \A d \in Caller : d # c => command'[d] = command[d]
      /\ command'[c].step = step
      /\ step # "none" => command'[c].content = command[c].content
      /\ serving' = IF step = "none" THEN 0 ELSE c
      /\ command[c].step \in Serves
  <2>1. command[c].step \in Serves
    BY DEF WritePlist, Bootout, Bootstrap, Stop, Kickstart, ConfirmGone, Unlink, Serves
  <2>2. serving = c
    BY <2>1 DEF ServiceInv, CallerInv
  <2> QED
    BY <1>1, <2>1, <2>2, ThenFacts
<1>3. UNCHANGED <<kill, pause, raced>>
    BY DEF WritePlist, Bootout, Bootstrap, Stop, Kickstart, ConfirmGone, Unlink
<1>4. ASSUME NEW d \in Caller, d # c PROVE CallerInv(d)'
  <2>1. command[d].step \notin Serves /\ command'[d] = command[d]
    BY <1>2, <1>4, ServesAlone
  <2> QED
    BY <1>3, <2>1 DEF ServiceInv, CallerInv, Serves
<1>5. KillIsPaused'
    BY <1>1, <1>2, <1>3 DEF ServiceInv, KillIsPaused, Serves
<1>6. CallerInv(c) /\ LoadedHasPlist
    BY DEF ServiceInv
<1>7. CallerInv(c)' /\ LoadedHasPlist'
  <2>1. CASE WritePlist(c, b)
    BY <1>1, <1>2, <1>3, <1>6, <2>1, ServiceConstants
       DEF WritePlist, CallerInv, LoadedHasPlist, Serves
  <2>2. CASE Bootout(c, b)
    BY <1>1, <1>2, <1>3, <1>6, <2>2 DEF Bootout, CallerInv, LoadedHasPlist, Serves
  <2>3. CASE Bootstrap(c, b)
    BY <1>1, <1>2, <1>3, <1>6, <2>3, ServiceConstants
       DEF Bootstrap, CallerInv, LoadedHasPlist, Serves
  <2>4. CASE Stop(c, b)
    BY <1>1, <1>2, <1>3, <1>6, <2>4 DEF Stop, CallerInv, LoadedHasPlist, Serves
  <2>5. CASE Kickstart(c) \/ ConfirmGone(c, b)
    BY <1>1, <1>2, <1>3, <1>6, <2>5
       DEF Kickstart, ConfirmGone, CallerInv, LoadedHasPlist, Serves
  <2>6. CASE Unlink(c)
    BY <1>1, <1>2, <1>3, <1>6, <2>6 DEF Unlink, CallerInv, LoadedHasPlist, Serves
  <2> QED
    BY <2>1, <2>2, <2>3, <2>4, <2>5, <2>6
<1> QED
    BY <1>4, <1>5, <1>7 DEF ServiceInv

\* Steps of the commands about the markers, and deaths.
LEMMA MarkersInv ==
    ASSUME ServiceTypeOK, ServiceInv, NEW c \in Caller,
           \/ Pause(c) \/ Clear(c) \/ ResumeCheck(c) \/ ResumeUnlink(c)
           \/ Kill(c) \/ KillPause(c) \/ CallerDies(c)
    PROVE  ServiceInv'
<1> USE DEF Service, On, ServiceInv
<1>1. UNCHANGED <<plist, job, blind>>
    BY DEF Pause, Clear, ResumeCheck, ResumeUnlink, Kill, KillPause, CallerDies
<1>2. CASE Pause(c) \/ Clear(c)
    BY <1>2 DEF Pause, Clear, CallerInv, LoadedHasPlist, KillIsPaused
<1>3. CASE ResumeCheck(c) \/ ResumeUnlink(c) \/ Kill(c) \/ KillPause(c) \/ CallerDies(c)
  <2>1. PICK step \in {"none", "resume", "kill_pause"} : Then(c, step)
    BY <1>3 DEF ResumeCheck, ResumeUnlink, Kill, KillPause, CallerDies
  <2>2. /\ \A d \in Caller : d # c => command'[d] = command[d]
        /\ command'[c].step = step
        /\ serving' = IF step = "none" /\ serving = c THEN 0 ELSE serving
    BY <2>1, ThenFacts DEF ServiceSteps
  <2>3. ASSUME NEW d \in Caller, command'[d].step \in Serves
        PROVE  d # c /\ command'[d] = command[d] /\ serving' = d
    BY <2>2, <2>3 DEF CallerInv, Serves
  <2>4. LoadedHasPlist'
    BY <1>1 DEF LoadedHasPlist
  <2>5. (\A d \in Caller : On(d, "resume") => ~kill \/ raced)' /\ KillIsPaused'
    <3>1. CASE ResumeCheck(c)
      BY <2>1, <2>2, <3>1 DEF ResumeCheck, Markers, Then, CallerInv, KillIsPaused
    <3>2. CASE ResumeUnlink(c)
      BY <2>2, <3>2 DEF ResumeUnlink, CallerInv, KillIsPaused
    <3>3. CASE Kill(c)
      BY <2>1, <2>2, <3>3, ThenFacts DEF Kill, CallerInv, KillIsPaused, ServiceSteps
    <3>4. CASE KillPause(c)
      BY <2>2, <3>4, ThenFacts DEF KillPause, CallerInv, KillIsPaused, ServiceSteps
    <3>5. CASE CallerDies(c)
      BY <2>2, <3>5, ThenFacts DEF CallerDies, CallerInv, KillIsPaused, ServiceSteps
    <3> QED
      BY <1>3, <3>1, <3>2, <3>3, <3>4, <3>5
  <2> QED
    BY <1>1, <2>3, <2>4, <2>5 DEF CallerInv, Serves
<1> QED
    BY <1>2, <1>3

LEMMA ServiceNextInv ==
    ASSUME ServiceTypeOK, ServiceInv, [ServiceNext]_serviceVars
    PROVE  ServiceInv'
<1> USE DEF Service, Markers, On, ServiceInv
<1>1. ASSUME NEW c \in Caller, NEW n \in Contents, StartInstall(c, n)
      PROVE  ServiceInv'
  <2>1. \A d \in Caller : command[d].step \notin Serves
    BY <1>1, ServiceConstants DEF StartInstall, CallerInv
  <2>2. /\ command'[c].step = "plist" /\ command'[c].content = n
        /\ \A d \in Caller : d # c => command'[d] = command[d]
    BY <1>1 DEF StartInstall, ServiceTypeOK
  <2> QED
    BY <1>1, <2>1, <2>2 DEF StartInstall, CallerInv, Serves, LoadedHasPlist, KillIsPaused
<1>2. ASSUME NEW c \in Caller, StartUninstall(c)
      PROVE  ServiceInv'
  <2>1. \A d \in Caller : command[d].step \notin Serves
    BY <1>2, ServiceConstants DEF StartUninstall, CallerInv
  <2>2. /\ command'[c].step = "stop"
        /\ \A d \in Caller : d # c => command'[d] = command[d]
    BY <1>2 DEF StartUninstall, ServiceTypeOK
  <2> QED
    BY <1>2, <2>1, <2>2
       DEF StartUninstall, CallerInv, Serves, LoadedHasPlist, KillIsPaused
<1>3. ASSUME Login \/ Logout PROVE ServiceInv'
  <2>1. \A d \in Caller : command[d].step \notin Serves
    BY <1>3, ServiceConstants DEF Login, Logout, CallerInv
  <2> QED
    BY <1>3, <2>1 DEF Login, Logout, CallerInv, Serves, LoadedHasPlist, KillIsPaused
<1>4. CASE UNCHANGED serviceVars
    BY <1>4 DEF serviceVars, CallerInv, LoadedHasPlist, KillIsPaused
<1> QED
    BY <1>1, <1>2, <1>3, <1>4, ServingInv, MarkersInv DEF ServiceNext

\* Commands that take no lock still leave the LaunchAgent and the markers in
\* order, for any number of callers, deaths and launchctl calls that fail, but
\* for a print that failed and was read as "not loaded".
THEOREM ServiceIsSound == ServiceSpec => [](ServiceTypeOK /\ ServiceInv)
BY ServiceInitInv, ServiceNextType, ServiceNextInv, PTL DEF ServiceSpec

\* launchd runs a job without a plist only where an uninstall took a print that
\* failed for an absent job (install_service, uninstall_service).
THEOREM LoadedAlwaysHasPlist == ServiceSpec => []LoadedHasPlist
<1>1. ServiceInv => LoadedHasPlist
    BY DEF ServiceInv
<1> QED
    BY <1>1, ServiceIsSound, PTL

\* The kill switch pauses, but for the two races named (set_kill_switch, resume).
THEOREM KillAlwaysPauses == ServiceSpec => []KillIsPaused
<1>1. ServiceInv => KillIsPaused
    BY DEF ServiceInv
<1> QED
    BY <1>1, ServiceIsSound, PTL

\* An install that succeeds has loaded the plist it wrote (install_service).
THEOREM InstalledIsAlwaysCurrent == ServiceSpec => InstalledIsCurrent
<1>1. ServiceTypeOK /\ ServiceInv /\ [ServiceNext]_serviceVars =>
        [\A c \in Caller : (On(c, "kickstart") /\ command'[c].step = "none"
                              /\ deaths' = deaths)
            => job = command[c].content /\ plist = command[c].content]_serviceVars
    BY DEF ServiceInv, CallerInv, On
<1> QED
    BY <1>1, ServiceIsSound, PTL DEF ServiceSpec, InstalledIsCurrent
=============================================================================
