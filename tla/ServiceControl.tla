---------------------------- MODULE ServiceControl ----------------------------
(***************************************************************************)
(* The LaunchAgent and the control markers (service.py): install-service,  *)
(* uninstall-service, pause, resume and kill-switch, step by step, with    *)
(* launchd beside them.  No command of these takes a lock, so two run at   *)
(* the same time, and each may die between two steps.                      *)
(* launchctl is called with a time limit; a call that runs into it, or that *)
(* cannot be made at all, returns 1 like one that launchd refused (_run).  *)
(***************************************************************************)
EXTENDS Naturals, Sequences

CONSTANTS
    Caller,               \* commands that may run at the same time
    Contents,             \* what a plist can say (positive numbers)
    MaxDeaths             \* bound: deaths of a command

ASSUME ServiceAssumption ==
    Contents \subseteq Nat \ {0} /\ 0 \notin Caller /\ MaxDeaths \in Nat

VARIABLES
    plist,      \* the LaunchAgent file, or 0
    job,        \* the job launchd has loaded, or 0
    kill,       \* the kill-switch marker is there
    pause,      \* the pause marker is there
    command,    \* each caller's command and its next step
    serving,    \* install and uninstall are run one at a time
    blind,      \* history: since the plist was written, a print that failed
                \* while the job was loaded was taken for its absence
    raced,      \* a resume ran, or a kill-switch died, since the switch was set
    deaths      \* number of deaths so far

serviceVars == <<plist, job, kill, pause, command, serving, blind, raced,
                 deaths>>

NoCommand == [step |-> "none", content |-> 0]

ServiceSteps == {"none", "plist", "bootout", "bootstrap", "kickstart", "stop",
          "print", "unlink", "resume", "kill", "kill_pause"}

ServiceTypeOK ==
    /\ plist \in Contents \cup {0} /\ job \in Contents \cup {0}
    /\ kill \in BOOLEAN /\ pause \in BOOLEAN
    /\ command \in [Caller -> [step: ServiceSteps, content: Contents \cup {0}]]
    /\ serving \in Caller \cup {0}
    /\ blind \in BOOLEAN /\ raced \in BOOLEAN /\ deaths \in 0..MaxDeaths

ServiceInit ==
    /\ plist = 0 /\ job = 0
    /\ kill = FALSE /\ pause = FALSE
    /\ command = [c \in Caller |-> NoCommand]
    /\ serving = 0
    /\ blind = FALSE /\ raced = FALSE /\ deaths = 0

Service == <<plist, job, blind>>
Markers == <<kill, pause, raced>>

On(c, step) == command[c].step = step

Then(c, step) ==
    /\ command' = IF step = "none" THEN [command EXCEPT ![c] = NoCommand]
                  ELSE [command EXCEPT ![c].step = step]
    /\ serving' = IF step = "none" /\ serving = c THEN 0 ELSE serving

-----------------------------------------------------------------------------
(* install-service.                                                        *)

StartInstall(c, content) ==
    /\ On(c, "none") /\ serving = 0 /\ serving' = c
    /\ command' = [command EXCEPT
                     ![c] = [step |-> "plist", content |-> content]]
    /\ UNCHANGED <<Service, Markers, deaths>>

\* The plist is replaced atomically; with --no-load that is all.
WritePlist(c, load) ==
    /\ On(c, "plist")
    /\ plist' = command[c].content /\ blind' = FALSE
    /\ Then(c, IF load THEN "bootout" ELSE "none")
    /\ UNCHANGED <<job, Markers, deaths>>

\* bootout of the old job; what it returns is not looked at.
Bootout(c, done) ==
    /\ On(c, "bootout")
    /\ job' = IF done THEN 0 ELSE job
    /\ Then(c, "bootstrap")
    /\ UNCHANGED <<plist, blind, Markers, deaths>>

\* Mutant: what bootstrap returns is not looked at either.
BootstrapUnchecked(c, done) ==
    /\ On(c, "bootstrap")
    /\ done => job = 0
    /\ job' = IF done THEN plist ELSE job
    /\ Then(c, "kickstart")
    /\ UNCHANGED <<plist, blind, Markers, deaths>>

\* bootstrap fails while a job is loaded, and may fail otherwise, also after it
\* loaded the job: the command raises, and the plist it wrote stays.
Bootstrap(c, done) ==
    /\ On(c, "bootstrap")
    /\ done => job = 0
    /\ job' \in IF done THEN {plist} ELSE IF job = 0 THEN {0, plist} ELSE {job}
    /\ Then(c, IF done THEN "kickstart" ELSE "none")
    /\ UNCHANGED <<plist, blind, Markers, deaths>>

Kickstart(c) ==
    /\ On(c, "kickstart")
    /\ Then(c, "none")
    /\ UNCHANGED <<Service, Markers, deaths>>

-----------------------------------------------------------------------------
(* uninstall-service.                                                      *)

StartUninstall(c) ==
    /\ On(c, "none") /\ serving = 0 /\ serving' = c
    /\ command' = [command EXCEPT ![c].step = "stop"]
    /\ UNCHANGED <<Service, Markers, deaths>>

\* bootout, which fails when nothing is loaded and may fail otherwise; either
\* way the job may be gone or there still when it returns.
Stop(c, done) ==
    /\ On(c, "stop")
    /\ done => job # 0
    /\ job' \in {job, 0}
    /\ Then(c, IF done THEN "print" ELSE "none")
    /\ UNCHANGED <<plist, blind, Markers, deaths>>

\* Mutant: what print returns is not looked at.
ConfirmNothing(c, failed) ==
    /\ On(c, "print")
    /\ Then(c, "unlink")
    /\ blind' = (blind \/ (failed /\ job # 0))
    /\ UNCHANGED <<plist, job, Markers, deaths>>

\* print finds the job, and the command raises; or it returns an error, which
\* is taken to mean that the job is gone, though print itself may have failed.
ConfirmGone(c, failed) ==
    /\ On(c, "print")
    /\ Then(c, IF job # 0 /\ ~failed THEN "none" ELSE "unlink")
    /\ blind' = (blind \/ (failed /\ job # 0))
    /\ UNCHANGED <<plist, job, Markers, deaths>>

Unlink(c) ==
    /\ On(c, "unlink")
    /\ plist' = 0
    /\ Then(c, "none")
    /\ UNCHANGED <<job, blind, Markers, deaths>>

-----------------------------------------------------------------------------
(* The control markers.                                                    *)

\* pause
Pause(c) ==
    /\ On(c, "none")
    /\ pause' = TRUE
    /\ UNCHANGED <<Service, kill, command, serving, raced, deaths>>

\* Mutant: resume does not look at the kill switch.
ResumeAnyway(c) ==
    /\ On(c, "none")
    /\ Then(c, "resume")
    /\ UNCHANGED <<Service, Markers, deaths>>

\* resume: looks at the kill switch,
ResumeCheck(c) ==
    /\ On(c, "none") /\ ~kill
    /\ Then(c, "resume")
    /\ UNCHANGED <<Service, Markers, deaths>>

\* and then removes the pause marker.
ResumeUnlink(c) ==
    /\ On(c, "resume")
    /\ pause' = FALSE
    /\ raced' = (raced \/ \E d \in Caller : d # c /\ On(d, "kill_pause"))
    /\ Then(c, "none")
    /\ UNCHANGED <<Service, kill, deaths>>

\* kill-switch --enable: the switch first, then the pause marker.
Kill(c) ==
    /\ On(c, "none")
    /\ kill' = TRUE
    /\ raced' = \E d \in Caller : On(d, "resume")
    /\ Then(c, "kill_pause")
    /\ UNCHANGED <<Service, pause, deaths>>

KillPause(c) ==
    /\ On(c, "kill_pause")
    /\ pause' = TRUE
    /\ Then(c, "none")
    /\ UNCHANGED <<Service, kill, raced, deaths>>

\* kill-switch --clear leaves the pause marker.
Clear(c) ==
    /\ On(c, "none")
    /\ kill' = FALSE
    /\ UNCHANGED <<Service, pause, command, serving, raced, deaths>>

-----------------------------------------------------------------------------
CallerDies(c) ==
    /\ ~On(c, "none") /\ deaths < MaxDeaths
    /\ deaths' = deaths + 1
    /\ raced' = (raced \/ On(c, "kill_pause"))
    /\ Then(c, "none")
    /\ UNCHANGED <<Service, kill, pause>>

\* launchd at login loads what is in LaunchAgents; a session's end unloads it.
Login == job = 0 /\ plist # 0 /\ serving = 0 /\ job' = plist
         /\ UNCHANGED <<plist, blind, Markers, command, serving, deaths>>
Logout == job # 0 /\ serving = 0 /\ job' = 0
          /\ UNCHANGED <<plist, blind, Markers, command, serving, deaths>>

ServiceNext ==
    \/ \E c \in Caller, n \in Contents : StartInstall(c, n)
    \/ \E c \in Caller, b \in BOOLEAN :
          \/ WritePlist(c, b) \/ Bootout(c, b) \/ Bootstrap(c, b)
          \/ Stop(c, b) \/ ConfirmGone(c, b)
    \/ \E c \in Caller :
          \/ Kickstart(c) \/ StartUninstall(c) \/ Unlink(c)
          \/ Pause(c) \/ ResumeCheck(c) \/ ResumeUnlink(c)
          \/ Kill(c) \/ KillPause(c) \/ Clear(c) \/ CallerDies(c)
    \/ Login \/ Logout

ServiceSpec == ServiceInit /\ [][ServiceNext]_serviceVars

-----------------------------------------------------------------------------
(* Safety.                                                                 *)

\* A job that launchd runs has its plist on disk, whatever command died, timed
\* out or was refused: an uninstall leaves behind an agent that nothing names
\* only where its print failed just while the job was loaded still.
LoadedHasPlist == job # 0 => plist # 0 \/ blind

\* An install that reports success has loaded the plist it wrote, not an older
\* job that bootout could not stop.
InstalledIsCurrent ==
    [][\A c \in Caller : (On(c, "kickstart") /\ command'[c].step = "none"
                            /\ deaths' = deaths)
          => job = command[c].content /\ plist = command[c].content]_serviceVars

\* The kill switch pauses: once its command is over, the agent stays paused
\* until the switch is cleared, unless the command died between its two
\* markers or a resume was past its check when the switch was set.
KillIsPaused ==
    (kill /\ ~raced) =>
        pause \/ \E c \in Caller : On(c, "kill_pause")

-----------------------------------------------------------------------------
(* The inductive invariant: what a command relies on between its steps.    *)

Serves == {"plist", "bootout", "bootstrap", "kickstart", "stop", "print", "unlink"}

CallerInv(c) ==
    /\ command[c].step \in Serves => serving = c
    /\ command[c].step \in {"plist", "bootout", "bootstrap"} =>
          command[c].content \in Contents
    /\ command[c].step \in {"bootout", "bootstrap", "kickstart"} =>
          plist = command[c].content
    /\ On(c, "kickstart") => job = command[c].content
    /\ On(c, "unlink") => job = 0 \/ blind
    /\ On(c, "resume") => ~kill \/ raced

ServiceInv ==
    /\ \A c \in Caller : CallerInv(c)
    /\ LoadedHasPlist /\ KillIsPaused
=============================================================================
