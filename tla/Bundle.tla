-------------------------------- MODULE Bundle --------------------------------
(***************************************************************************)
(* The state directory of the legacy commands build, draft and review      *)
(* (builder.py, policy.py, storage.py, cli.py): files that are each        *)
(* replaced atomically, one after the other, by commands that hold the     *)
(* directory's lock and may raise or die between any two steps.            *)
(*                                                                         *)
(* A generated file is the number of the build it comes from, 0 while it   *)
(* is absent.  A review after the 24 hours of a draft raises and changes   *)
(* nothing, like a review of a draft that is not pending.                  *)
(***************************************************************************)
EXTENDS Naturals, Sequences, FiniteSets

CONSTANTS
    Command,              \* commands that may run at the same time
    Draft,                \* draft ids
    MaxBuilds,            \* bound: builds that got as far as the lock
    MaxFaults             \* bound: commands that raised or died

ASSUME BundleAssumption ==
    /\ 0 \notin Command \cup Draft
    /\ Draft # {}         \* so that an empty store is not a missing one
    /\ MaxBuilds \in Nat /\ MaxFaults \in Nat

VARIABLES
    files,      \* the build each generated file comes from
    styled,     \* the manifest names the style context
    secret,     \* .identity_secret: the command that wrote it, or 0
    marked,     \* the state marker is there
    drafts,     \* drafts.json: the status of each draft
    audit,      \* audit.jsonl: what it says, and of what
    leftovers,  \* a temporary file that a dead command left
    lock,       \* the command that holds .state.lock, or 0
    running,    \* each command: what it is, its next step, what it read
    builds,     \* number of builds so far
    faults      \* number of faults so far

dir == <<files, styled, secret, marked, drafts, audit>>
bundleVars == <<dir, leftovers, lock, running, builds, faults>>

Generated == {"style_context", "events", "triage_queue", "manifest",
              "emotion_dashboard"}

\* Mutant: the manifest is written before the files it describes.
ManifestFirst ==
    <<"prepare", "marker", "lock", "secret", "manifest", "style_context",
      "events", "triage_queue", "drafts", "emotion_dashboard", "audit">>

\* build, in order; emotion_cycle.json, style_profile.json and policy.json are
\* written beside the triage queue and fare like it.
BuildSteps ==
    <<"prepare", "marker", "lock", "secret", "style_context", "events",
      "triage_queue", "drafts", "manifest", "emotion_dashboard", "audit">>

\* Mutant: the draft store is read before the lock is taken.
ReadFirst == <<"state", "read", "lock", "drafts", "audit">>

\* Mutant: the audit line is written before the draft store.
AuditFirst == <<"state", "lock", "read", "audit", "drafts">>

\* draft and review, in order.
DraftSteps == <<"state", "lock", "read", "drafts", "audit">>

Plan == [build |-> BuildSteps, draft |-> DraftSteps, review |-> DraftSteps]

DraftStatuses == {"absent", "pending_approval", "approved_for_manual_copy",
             "rejected"}
Store == [Draft -> DraftStatuses]
NoDrafts == [d \in Draft |-> "absent"]

\* sets: what the command makes of which draft; temp: its temporary file is
\* there, not yet renamed; build: its number; style: --yourself-skill.
NotRunning == [what |-> "idle", at |-> 1, temp |-> FALSE, build |-> 0,
         style |-> FALSE, draft |-> 0,
         sets |-> "absent", read |-> NoDrafts]

Run == [what: {"idle", "build", "draft", "review"}, at: 1..11, temp: BOOLEAN,
        build: 0..MaxBuilds, style: BOOLEAN, draft: Draft \cup {0},
        sets: DraftStatuses, read: Store]

BundleTypeOK ==
    /\ files \in [Generated -> 0..MaxBuilds]
    /\ styled \in BOOLEAN
    /\ secret \in Command \cup {0} /\ marked \in BOOLEAN
    /\ drafts \in Store \cup {<<>>}
    /\ audit \subseteq (Draft \cup {0}) \X (DraftStatuses \cup {"built"})
    /\ leftovers \in BOOLEAN
    /\ lock \in Command \cup {0}
    /\ running \in [Command -> Run]
    /\ \A c \in Command : running[c].what # "idle" =>
          running[c].at <= Len(Plan[running[c].what])
    /\ builds \in 0..MaxBuilds /\ faults \in 0..MaxFaults

\* An empty directory.
BundleInit ==
    /\ files = [f \in Generated |-> 0]
    /\ styled = FALSE /\ secret = 0 /\ marked = FALSE
    /\ drafts = <<>> /\ audit = {}
    /\ leftovers = FALSE /\ lock = 0
    /\ running = [c \in Command |-> NotRunning]
    /\ builds = 0 /\ faults = 0

-----------------------------------------------------------------------------
(* The steps of a command.                                                 *)

Step(c) == Plan[running[c].what][running[c].at]

At(c, step) == running[c].what # "idle" /\ Step(c) = step

\* What command c is once it has done its step; the last step, or an error,
\* ends it and gives the lock back.
Goes(c, next) ==
    IF running[c].at = Len(Plan[running[c].what])
    THEN running' = [running EXCEPT ![c] = NotRunning]
         /\ lock' = IF lock = c THEN 0 ELSE lock
    ELSE running' = [running EXCEPT ![c] = [next EXCEPT !.at = @ + 1]]
         /\ lock' = lock

Done(c) == Goes(c, running[c])

Temporary == leftovers \/ \E c \in Command : running[c].temp

Empty == ~marked /\ secret = 0 /\ drafts = <<>> /\ audit = {}
         /\ \A f \in Generated : files[f] = 0

Start(c, what, draft, sets, style) ==
    /\ running[c] = NotRunning
    /\ running' = [running EXCEPT
                     ![c] = [NotRunning EXCEPT !.what = what, !.draft = draft,
                                         !.sets = sets, !.style = style]]
    /\ UNCHANGED <<dir, leftovers, lock, builds, faults>>

\* _prepare_output_dir, before the lock: a file it does not know, a temporary
\* one included, makes it refuse.
Prepare(c) ==
    /\ At(c, "prepare")
    /\ ~Temporary
    /\ Empty \/ marked \/ files["manifest"] # 0
    /\ Done(c)
    /\ UNCHANGED <<dir, leftovers, builds, faults>>

\* _state_dir, before the lock.
StateDir(c) ==
    /\ At(c, "state")
    /\ marked /\ files["manifest"] # 0
    /\ Done(c)
    /\ UNCHANGED <<dir, leftovers, builds, faults>>

\* state_lock; the build reads its exports from here on (bound: MaxBuilds).
Lock(c) ==
    /\ At(c, "lock") /\ lock = 0
    /\ lock' = c
    /\ builds < MaxBuilds \/ running[c].what # "build"
    /\ builds' = IF running[c].what = "build" THEN builds + 1 ELSE builds
    /\ running' = [running EXCEPT ![c].at = @ + 1, ![c].build = builds']
    /\ UNCHANGED <<dir, leftovers, faults>>

\* stage_draft for a new id; review_draft of a pending draft only.
Reviewable(store, run) ==
    IF run.what = "draft" THEN store[run.draft] = "absent"
    ELSE store[run.draft] = "pending_approval"

ReadDrafts(c) ==
    /\ At(c, "read")
    /\ drafts # <<>> /\ Reviewable(drafts, running[c])
    /\ Goes(c, [running[c] EXCEPT
                  !.read = [drafts EXCEPT ![running[c].draft] =
                                              running[c].sets]])
    /\ UNCHANGED <<dir, leftovers, builds, faults>>

\* What is written: the secret and an empty draft store only when missing, the
\* style context only with a style.
Needed(c) ==
    CASE Step(c) = "secret" -> secret = 0
      [] Step(c) = "drafts" -> running[c].what # "build" \/ drafts = <<>>
      [] Step(c) = "style_context" -> running[c].style
      [] OTHER -> TRUE

Writes(c) ==
    /\ running[c].what # "idle"
    /\ Step(c) \in Generated \cup {"marker", "secret", "drafts"}

\* Nothing to write; without a style the style context is removed.
Skip(c) ==
    /\ Writes(c) /\ ~Needed(c) /\ ~running[c].temp
    /\ Done(c)
    /\ files' = IF Step(c) = "style_context"
                THEN [files EXCEPT !["style_context"] = 0] ELSE files
    /\ UNCHANGED <<styled, secret, marked, drafts, audit, leftovers, builds,
                   faults>>

\* atomic_write_text, write_jsonl: the temporary file in the same directory,
WriteTemp(c) ==
    /\ Writes(c) /\ Needed(c) /\ ~running[c].temp
    /\ running' = [running EXCEPT ![c].temp = TRUE]
    /\ UNCHANGED <<dir, leftovers, lock, builds, faults>>

\* and os.replace.
Replace(c) ==
    /\ running[c].temp
    /\ Goes(c, [running[c] EXCEPT !.temp = FALSE])
    /\ files' = IF Step(c) \in Generated
                THEN [files EXCEPT ![Step(c)] = running[c].build] ELSE files
    /\ styled' = IF Step(c) = "manifest" THEN running[c].style ELSE styled
    /\ secret' = IF Step(c) = "secret" THEN c ELSE secret
    /\ marked' = (marked \/ Step(c) = "marker")
    /\ drafts' = IF Step(c) # "drafts" THEN drafts
                 ELSE IF running[c].what = "build" THEN NoDrafts
                 ELSE running[c].read
    /\ UNCHANGED <<audit, leftovers, builds, faults>>

\* append_jsonl.
WriteAudit(c) ==
    /\ At(c, "audit")
    /\ audit' = audit \cup (IF running[c].what = "build" THEN {<<0, "built">>}
                            ELSE {<<running[c].draft, running[c].sets>>})
    /\ Done(c)
    /\ UNCHANGED <<files, styled, secret, marked, drafts, leftovers, builds,
                   faults>>

\* An exception: the temporary file is unlinked, the lock given back.
Raise(c) ==
    /\ running[c] # NotRunning /\ faults < MaxFaults
    /\ faults' = faults + 1
    /\ running' = [running EXCEPT ![c] = NotRunning]
    /\ lock' = IF lock = c THEN 0 ELSE lock
    /\ UNCHANGED <<dir, leftovers, builds>>

\* A command that is refused before it changes anything.
Refused(c) ==
    /\ \/ At(c, "prepare") /\ (Temporary \/ ~(Empty \/ marked
                                               \/ files["manifest"] # 0))
       \/ At(c, "state") /\ ~(marked /\ files["manifest"] # 0)
       \/ At(c, "read") /\ ~(drafts # <<>> /\ Reviewable(drafts, running[c]))
    /\ running' = [running EXCEPT ![c] = NotRunning]
    /\ lock' = IF lock = c THEN 0 ELSE lock
    /\ UNCHANGED <<dir, leftovers, builds, faults>>

\* Death: flock ends with the process, its temporary file stays.
CommandDies(c) ==
    /\ running[c] # NotRunning /\ faults < MaxFaults
    /\ faults' = faults + 1
    /\ leftovers' = (leftovers \/ running[c].temp)
    /\ running' = [running EXCEPT ![c] = NotRunning]
    /\ lock' = IF lock = c THEN 0 ELSE lock
    /\ UNCHANGED <<dir, builds>>

\* The user removes the temporary files that a build complains of.
CleanUp ==
    /\ leftovers /\ leftovers' = FALSE
    /\ UNCHANGED <<dir, lock, running, builds, faults>>

BundleNext ==
    \/ \E c \in Command, s \in BOOLEAN :
          Start(c, "build", 0, "absent", s)
    \/ \E c \in Command, d \in Draft : Start(c, "draft", d, "pending_approval", FALSE)
    \/ \E c \in Command, d \in Draft, v \in DraftStatuses \ {"absent", "pending_approval"} :
          Start(c, "review", d, v, FALSE)
    \/ \E c \in Command :
          \/ Prepare(c) \/ StateDir(c) \/ Lock(c) \/ ReadDrafts(c)
          \/ Skip(c) \/ WriteTemp(c) \/ Replace(c) \/ WriteAudit(c)
          \/ Refused(c) \/ Raise(c) \/ CommandDies(c)
    \/ CleanUp

BundleSpec == BundleInit /\ [][BundleNext]_bundleVars

-----------------------------------------------------------------------------
(* Safety.                                                                 *)

\* What the manifest describes is there, whatever build was interrupted where.
\* The files written before it are of its build or of a later one; so is the
\* style context it names, unless a later build without a style removed it and
\* has not replaced the manifest, or never will.  A style context it does not
\* name is of a later build.  The dashboard, and the audit line, are written
\* after the manifest: the dashboard may be missing or older, never newer.
ManifestDescribes ==
    files["manifest"] # 0 =>
        /\ \A f \in {"events", "triage_queue"} : files[f] >= files["manifest"]
        /\ drafts # <<>> /\ secret # 0
        /\ IF styled
           THEN \/ files["style_context"] >= files["manifest"]
                \/ files["style_context"] = 0 /\ builds > files["manifest"]
           ELSE \/ files["style_context"] = 0
                \/ files["style_context"] > files["manifest"]
        /\ files["emotion_dashboard"] <= files["manifest"]

\* The audit file says of a draft only what the draft store went through: a
\* review it records is the draft's status, and a reviewed draft was staged.
AuditIsTrue ==
    \A d \in Draft, s \in DraftStatuses : <<d, s>> \in audit =>
        /\ drafts # <<>>
        /\ drafts[d] = s \/ (s = "pending_approval" /\ drafts[d] # "absent")

\* A draft is never lost and a review is final: not by a rebuild, and not by
\* two commands that each write the whole draft store.
DraftsAreKept ==
    [][drafts # <<>> =>
         /\ drafts' # <<>>
         /\ \A d \in Draft :
               \/ drafts[d] \in {"absent", drafts'[d]}
               \/ drafts[d] = "pending_approval" /\ drafts'[d] # "absent"]_drafts

\* The identity secret, and with it every contact key of the directory, is
\* made once: two first builds at once do not give the directory two.
SecretIsKept == [][secret # 0 => secret' = secret]_secret

\* What cannot be made again outlives every build and every command: drafts,
\* their reviews, and the secret.
NothingIsLost == DraftsAreKept /\ SecretIsKept

-----------------------------------------------------------------------------
(* The inductive invariant: one command at a time is past its lock, and    *)
(* what that one has read is what the directory says.                      *)

Holds(c) ==
    \/ running[c].what = "build" /\ running[c].at > 3
    \/ running[c].what \in {"draft", "review"} /\ running[c].at > 2

BuildInv(c) ==
    running[c].what = "build" =>
        /\ running[c].at > 3 => running[c].build = builds
        /\ running[c].at > 4 => secret # 0
        /\ running[c].at > 5 =>
              files["style_context"] = IF running[c].style THEN builds ELSE 0
        /\ running[c].at > 6 => files["events"] = builds
        /\ running[c].at > 7 => files["triage_queue"] = builds
        /\ running[c].at > 8 => drafts # <<>>
        /\ running[c].at \in 4..9 => files["manifest"] < builds
        /\ running[c].at = 10 => files["manifest"] = builds

DraftInv(c) ==
    running[c].what \in {"draft", "review"} =>
        /\ running[c].draft \in Draft
        /\ running[c].sets \in IF running[c].what = "draft" THEN {"pending_approval"}
                              ELSE {"approved_for_manual_copy", "rejected"}
        /\ running[c].at = 4 =>
             /\ drafts # <<>> /\ Reviewable(drafts, running[c])
             /\ running[c].read
                  = [drafts EXCEPT ![running[c].draft] = running[c].sets]
        /\ running[c].at = 5 =>
             drafts # <<>> /\ drafts[running[c].draft] = running[c].sets

BundleInv ==
    /\ \A c \in Command :
          /\ Holds(c) => lock = c
          /\ running[c].temp => Writes(c) /\ Needed(c)
          /\ BuildInv(c) /\ DraftInv(c)
    /\ \A f \in Generated : files[f] <= builds
    /\ \A d \in Draft : <<d, "absent">> \notin audit
    /\ ManifestDescribes /\ AuditIsTrue

=============================================================================
