----------------------------- MODULE CommandRun -----------------------------
(***************************************************************************)
(* One subprocess of a check: the shell of a command: resource             *)
(* (system/command.go) or a helper such as systemctl or dpkg-query         *)
(* (system/helper_command.go), run through util.Command and the process    *)
(* group of the platform (util/procgroup_posix.go, procgroup_windows.go).  *)
(*                                                                         *)
(* The actors are the goroutine in Run, os/exec's watchCtx goroutine, the  *)
(* child, one grandchild that inherits the stdout pipe, the caller that    *)
(* may cancel, and the clock, which advances by ticks and never past a     *)
(* timer that is due.  os/exec, the kernel and the processes are external. *)
(***************************************************************************)
EXTENDS Integers

CONSTANTS
    Timeout,        \* timeout: of the command: resource, in ticks
    HelperTimeout,  \* helperCommandTimeout
    HelperIOGrace,  \* helperIOGrace
    Horizon         \* the last tick of the clock; a bound of the model

ASSUME TimingAssumption ==
    /\ Timeout \in Nat \ {0}
    /\ HelperTimeout \in Nat \ {0}
    /\ HelperIOGrace \in Nat \ {0}
    /\ Horizon \in Nat

VARIABLES
    kind,           \* "command", "helper", or "none": no subprocess is run
    goos,           \* "posix" or "windows"
    elapsed,        \* ticks since the context was made
    ctx,            \* "live", "deadline" or "canceled"
    pc,             \* the step of Run
    child,          \* "none", "running", "exit0", "exit1" or "killed"
    grandchild,     \* "none", "in" or "out" of reach, "ended", "killed"
    watcher,        \* os/exec's watchCtx: "off", "armed" or "fired"
    timer,          \* when WaitDelay expires
    job,            \* the Job Object: its handle; the process is assigned to
                    \* it; attached says so; history: a cancel came between
                    \* the two, and how often the handle was closed
    runErr,         \* what Run returns
    truncated,      \* the pipes were closed under a writer
    answer          \* what the caller of the subprocess is told

procVars == <<child, grandchild>>
runVars == <<kind, goos, elapsed, ctx, pc, procVars, watcher, timer, job,
             runErr, truncated, answer>>

budget == IF kind = "command" THEN Timeout ELSE HelperTimeout

\* Delays as Run would have them were WaitDelay the whole allowance again.
doubleDelay == IF kind = "command" THEN 2 * Timeout ELSE HelperTimeout + HelperIOGrace

waitDelay == IF kind = "command" THEN Timeout ELSE HelperIOGrace

NoAnswer == [err |-> "pending", status |-> 0]

FreshJob == [handle |-> "none", assigned |-> FALSE, attached |-> FALSE,
             missed |-> FALSE, closes |-> 0]

Fresh ==
    /\ elapsed = 0 /\ ctx = "live"
    /\ pc = IF kind = "none" THEN "done" ELSE "configure"
    /\ child = "none" /\ grandchild = "none"
    /\ watcher = "off" /\ timer = 0 /\ job = FreshJob
    /\ runErr = "nil" /\ truncated = FALSE /\ answer = NoAnswer

\* A second subprocess of the same check.
Again ==
    /\ elapsed' = 0 /\ ctx' = "live" /\ pc' = "configure"
    /\ child' = "none" /\ grandchild' = "none"
    /\ watcher' = "off" /\ timer' = 0 /\ job' = FreshJob
    /\ runErr' = "nil" /\ truncated' = FALSE /\ answer' = NoAnswer
    /\ UNCHANGED <<kind, goos>>

RunTypeOK ==
    /\ kind \in {"command", "helper", "none"}
    /\ goos \in {"posix", "windows"}
    /\ elapsed \in 0..Horizon
    /\ ctx \in {"live", "deadline", "canceled"}
    /\ pc \in {"configure", "start", "attach", "assigned", "wait", "io", "returned", "done"}
    /\ child \in {"none", "running", "exit0", "exit1", "killed"}
    /\ grandchild \in {"none", "in", "out", "ended", "killed"}
    /\ watcher \in {"off", "armed", "fired"}
    /\ timer \in Nat
    /\ job \in [handle : {"none", "open", "closed"}, assigned : BOOLEAN,
                attached : BOOLEAN, missed : BOOLEAN, closes : Nat]
    /\ runErr \in {"nil", "lookpath", "exit", "ctx", "waitdelay"}
    /\ truncated \in BOOLEAN
    /\ answer \in [err : {"pending", "nil", "failed", "timeout", "canceled"},
                   status : {-1, 0, 1}]

-----------------------------------------------------------------------------
(* The Job Object.  Closing its last handle with the kill flag still set   *)
(* ends every process in it; clearing the flag first spares them.          *)

CloseTwice(j) ==
    IF j.handle = "none" THEN j
    ELSE [j EXCEPT !.handle = "closed", !.closes = @ + 1]

releaseProcessGroup(j) ==
    IF j.handle = "open" THEN [j EXCEPT !.handle = "closed", !.closes = @ + 1] ELSE j

KillReach(p) == IF p = "in" THEN "killed" ELSE p

KillChild == IF child = "running" THEN "killed" ELSE child

\* Run's deferred release, on every path out of Run: no process is ended.
ReleaseKills ==
    /\ job' = releaseProcessGroup(job)
    /\ grandchild' = IF job.handle = "open" THEN KillReach(grandchild) ELSE grandchild

Release ==
    /\ job' = releaseProcessGroup(job)
    /\ UNCHANGED grandchild

Return(e) ==
    /\ pc' = "returned"
    /\ runErr' = e
    /\ Release

-----------------------------------------------------------------------------
(* Run *)

\* NewCommandContext: on Windows the job may fail to be made, and the default
\* cancel of exec.CommandContext then stays.
Configure ==
    /\ pc = "configure"
    /\ pc' = "start"
    /\ \E handle \in (IF goos = "windows" THEN {"none", "open"} ELSE {"none"}) :
          job' = [job EXCEPT !.handle = handle]
    /\ UNCHANGED <<kind, goos, elapsed, ctx, procVars, watcher, timer, runErr,
                   truncated, answer>>

\* LookPath or Start fails: Status keeps its zero.
StartFails ==
    /\ pc = "start"
    /\ \/ Return("lookpath")
       \/ ctx # "live" /\ Return("ctx")
    /\ UNCHANGED <<kind, goos, elapsed, ctx, child, watcher, timer, truncated, answer>>

Start ==
    /\ pc = "start"
    /\ ctx = "live"
    /\ child' = "running"
    /\ watcher' = "armed"
    /\ pc' = "attach"
    /\ UNCHANGED <<kind, goos, elapsed, ctx, grandchild, timer, job, runErr,
                   truncated, answer>>

\* attachProcessGroup: nothing to do on POSIX, without a job, or when a
\* cancel has released it; opening or assigning the process may fail.
Attach ==
    /\ pc = "attach"
    /\ \/ pc' = "wait" /\ UNCHANGED job
       \/ /\ job.handle = "open"
          /\ job' = [job EXCEPT !.assigned = TRUE]
          /\ pc' = "assigned"
    /\ UNCHANGED <<kind, goos, elapsed, ctx, procVars, watcher, timer, runErr,
                   truncated, answer>>

MarkAttached ==
    /\ pc = "assigned"
    /\ job' = [job EXCEPT !.attached = TRUE]
    /\ pc' = "wait"
    /\ UNCHANGED <<kind, goos, elapsed, ctx, procVars, watcher, timer, runErr,
                   truncated, answer>>

\* The error of a cancel that interrupted something, which Wait prefers to a
\* clean exit.  A cancel that found the job not attached killed the child alone,
\* and one that is already gone gives none.
CancelErr ==
    IF watcher = "fired" /\ ~(goos = "windows" /\ (job.missed \/ ~job.attached))
    THEN "ctx" ELSE "nil"

\* Wait: the child is reaped.  The delay runs from the cancel, or from now.
Reap ==
    /\ pc = "wait"
    /\ child \in {"exit0", "exit1", "killed"}
    /\ runErr' = IF child = "exit0" THEN CancelErr ELSE "exit"
    /\ timer' = IF watcher = "fired" THEN timer ELSE elapsed + waitDelay
    /\ watcher' = "off"
    /\ pc' = "io"
    /\ UNCHANGED <<kind, goos, elapsed, ctx, procVars, job, truncated, answer>>

PipeHeld == grandchild \in {"in", "out"}

IODone ==
    /\ pc = "io"
    /\ ~PipeHeld
    /\ Return(runErr)
    /\ UNCHANGED <<kind, goos, elapsed, ctx, child, watcher, timer, truncated, answer>>

\* WaitDelay closes the pipes and waits for the goroutines that copy.
WaitDelayExpires ==
    /\ pc = "io"
    /\ PipeHeld
    /\ elapsed >= timer
    /\ truncated' = TRUE
    /\ Return(IF runErr = "nil" THEN "waitdelay" ELSE runErr)
    /\ UNCHANGED <<kind, goos, elapsed, ctx, child, watcher, timer, answer>>

\* Status as util.Command.Run leaves it: -1 for a signalled child.
Status == CASE runErr = "exit" /\ child = "exit1" -> 1
            [] runErr = "exit" /\ child = "killed" -> -1
            [] OTHER -> 0

-----------------------------------------------------------------------------
(* The two callers *)

\* Only what Run returns.
setupIgnoresCtx ==
    IF runErr = "waitdelay" THEN "timeout"
    ELSE IF runErr \in {"nil", "exit"} THEN "nil" ELSE "failed"

\* DefCommand.setup: an ExitError is the status, not an error; a deadline or
\* an expired WaitDelay is a timeout whatever Run said; a cancelled context
\* is said when nothing else is.
setup ==
    IF ctx = "deadline" \/ runErr = "waitdelay" THEN "timeout"
    ELSE IF runErr \in {"lookpath", "ctx"} THEN "failed"
    ELSE IF ctx = "canceled" THEN "canceled" ELSE "nil"

\* runHelperCommand: the context's error, never the command's.
runHelperCommand ==
    IF ctx = "deadline" THEN "timeout" ELSE IF ctx = "canceled" THEN "canceled" ELSE "nil"

Answer ==
    /\ pc = "returned"
    /\ pc' = "done"
    /\ answer' = [err |-> IF kind = "command" THEN setup ELSE runHelperCommand,
                  status |-> Status]
    /\ UNCHANGED <<kind, goos, elapsed, ctx, procVars, watcher, timer, job,
                   runErr, truncated>>

-----------------------------------------------------------------------------
(* The processes and the caller *)

ChildExits ==
    /\ child = "running"
    /\ child' \in {"exit0", "exit1"}
    /\ UNCHANGED <<kind, goos, elapsed, ctx, pc, grandchild, watcher, timer, job,
                   runErr, truncated, answer>>

\* A process joins its parent's group or job; on POSIX it may leave with
\* setsid, and nothing that started before the assignment is in the job.
ChildForks ==
    /\ child = "running"
    /\ grandchild = "none"
    /\ grandchild' \in (IF goos = "posix" THEN {"in", "out"}
                        ELSE IF job.assigned THEN {"in"} ELSE {"out"})
    /\ UNCHANGED <<kind, goos, elapsed, ctx, pc, child, watcher, timer, job,
                   runErr, truncated, answer>>

GrandchildEnds ==
    /\ PipeHeld
    /\ pc # "done"
    /\ grandchild' = "ended"
    /\ UNCHANGED <<kind, goos, elapsed, ctx, pc, child, watcher, timer, job,
                   runErr, truncated, answer>>

CallerCancels ==
    /\ ctx = "live"
    /\ pc # "done"
    /\ ctx' = "canceled"
    /\ UNCHANGED <<kind, goos, elapsed, pc, procVars, watcher, timer, job,
                   runErr, truncated, answer>>

DeadlineExpires ==
    /\ ctx = "live"
    /\ pc # "done"
    /\ elapsed >= budget
    /\ ctx' = "deadline"
    /\ UNCHANGED <<kind, goos, elapsed, pc, procVars, watcher, timer, job,
                   runErr, truncated, answer>>

\* cmd.Cancel: SIGKILL to the process group; on Windows the job's handle is
\* closed, or without an attached job the child alone is killed.
Cancel ==
    /\ child' = KillChild
    /\ grandchild' = IF goos = "posix" \/ (job.attached /\ job.handle = "open")
                     THEN KillReach(grandchild) ELSE grandchild
    /\ job' = [releaseProcessGroup(job) EXCEPT !.missed = job.assigned /\ ~job.attached]

\* os/exec's watchCtx
WatchCtx ==
    /\ watcher = "armed"
    /\ ctx # "live"
    /\ watcher' = "fired"
    /\ timer' = elapsed + waitDelay
    /\ Cancel
    /\ UNCHANGED <<kind, goos, elapsed, ctx, pc, runErr, truncated, answer>>

\* Time passes only while Run waits for the child or for the pipe, and no
\* timer is due.
Waiting ==
    \/ pc = "wait" /\ child = "running"
    \/ pc = "io" /\ PipeHeld /\ elapsed < timer

Tick ==
    /\ elapsed < Horizon
    /\ Waiting
    /\ ctx = "live" => elapsed < budget
    /\ watcher = "armed" => ctx = "live"
    /\ elapsed' = elapsed + 1
    /\ UNCHANGED <<kind, goos, ctx, pc, procVars, watcher, timer, job, runErr,
                   truncated, answer>>

-----------------------------------------------------------------------------
Run ==
    \/ Configure \/ StartFails \/ Start \/ Attach \/ MarkAttached
    \/ Reap \/ IODone \/ WaitDelayExpires \/ Answer

Processes == ChildExits \/ ChildForks \/ GrandchildEnds

RunNext ==
    \/ Run
    \/ Processes
    \/ CallerCancels
    \/ DeadlineExpires \/ WatchCtx \/ Tick

\* The goroutine in Run, the runtime's timers and the clock go on; neither
\* process has to end.
RunFairness ==
    /\ WF_runVars(Run)
    /\ WF_runVars(DeadlineExpires \/ WatchCtx)
    /\ WF_runVars(Tick)

-----------------------------------------------------------------------------
(* Properties *)

\* A subprocess costs at most twice its timeout, and a helper its timeout
\* and the grace for its pipes, even when a grandchild that left the group
\* holds stdout for ever.
BoundedReturn ==
    /\ kind = "command" => elapsed <= 2 * Timeout
    /\ kind = "helper" => elapsed <= HelperTimeout + HelperIOGrace

\* A command reported without an error really ended by itself with the status
\* reported, and exit-status 0 comes with its whole output: neither a child
\* killed by the context nor one that never started reads as a result.
CleanIsReal ==
    pc = "done" /\ kind = "command" /\ answer.err = "nil" =>
        \/ child = "exit0" /\ answer.status = 0 /\ ~truncated
        \/ child = "exit1" /\ answer.status = 1

\* A kill reaches everything it should and nothing else.  A killed child takes
\* with it every process within reach, its group or its job, unless the cancel
\* fell between assigning the process to the job and saying so in attached:
\* then the grandchild outlives the timeout.  The background process that a
\* successful command left is running still.
KillsExactly ==
    /\ child = "killed" /\ grandchild = "in" => job.missed
    /\ pc = "done" /\ answer.err = "nil" => grandchild # "killed"

\* The Job Object's handle is closed exactly once on every path out of Run,
\* whether the cancel or the deferred release comes first.
HandleClosedOnce ==
    pc \in {"returned", "done"} => job.handle # "open" /\
        job.closes = IF job.handle = "none" THEN 0 ELSE 1

\* Every subprocess returns, whatever its processes do.
SubprocessReturns == pc # "done" ~> pc = "done"

==============================================================================
