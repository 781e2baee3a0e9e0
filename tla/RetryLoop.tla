------------------------------ MODULE RetryLoop ------------------------------
(***************************************************************************)
(* syver validate (validate.go, Validate and ValidateConfig): load the     *)
(* spec, sweep, and sweep again until the checks pass, --retry-timeout has *)
(* no room for another sleep, or a signal cancels the context.             *)
(*                                                                         *)
(* Time is counted in ticks since startTime.  A sweep takes between one    *)
(* tick and MaxSweep, and samples the host through the System it is given, *)
(* whose tables are those of the first sweep that used it.  A sleep lasts  *)
(* exactly --sleep, or less when the context is cancelled; a negative one, *)
(* which the flag accepts, is over at once.                                *)
(***************************************************************************)
EXTENDS Integers

CONSTANTS
    RetryTimeouts,  \* the values of --retry-timeout
    Sleeps,         \* the values of --sleep
    MaxSweep        \* the longest a sweep takes, in ticks

ASSUME DurationsAssumption ==
    /\ RetryTimeouts \subseteq Int
    /\ Sleeps \subseteq Int
    /\ MaxSweep \in Nat \ {0}

VARIABLES
    retryTimeout, sleep, format,        \* the flags; never change
    pc,             \* "load", "config", "sweep", "decide", "sleep", "returned"
    hostDown,       \* some check would fail on the host now
    ctxDone,        \* SIGINT or SIGTERM has cancelled the context
    now, began,     \* the clock, and when the last sweep began
    attempts,       \* sweeps started
    sys,            \* what the current System has cached: "fresh", "up", "down"
    exitCode,       \* the outputer's return value for the last sweep
    lastDown, lastCut,  \* history: what the last sweep saw; it was cancelled
    code            \* what Validate returned

flags == <<retryTimeout, sleep, format>>
history == <<lastDown, lastCut>>
vars == <<flags, pc, hostDown, ctxDone, now, began, attempts, sys, exitCode, history, code>>

Formats == {"rspecish", "nagios", "prometheus", "discovery"}

Init ==
    /\ retryTimeout \in RetryTimeouts
    /\ sleep \in Sleeps
    /\ format \in Formats
    /\ pc = "load"
    /\ hostDown \in BOOLEAN
    /\ ctxDone = FALSE
    /\ now = 0 /\ began = 0
    /\ attempts = 0
    /\ sys = "fresh"
    /\ exitCode = 0
    /\ lastDown = FALSE /\ lastCut = FALSE
    /\ code = -2            \* not returned yet

Return(c) == pc' = "returned" /\ code' = c

-----------------------------------------------------------------------------
\* Validate: setLogLevel, then loadSyverConfigWithDiscover.
Load ==
    /\ pc = "load"
    /\ \/ Return(1)
       \/ Return(78)
       \/ pc' = "config" /\ UNCHANGED code
    /\ UNCHANGED <<flags, hostDown, ctxDone, now, began, attempts, sys, exitCode, history>>

\* ValidateConfig before the loop: the discovery format never enters it, and
\* an unknown format ends it.
Configure ==
    /\ pc = "config"
    /\ IF format = "discovery"
       THEN \E c \in {0, 1} : Return(c)
       ELSE \/ Return(1)
            \/ pc' = "sweep" /\ UNCHANGED code
    /\ UNCHANGED <<flags, hostDown, ctxDone, now, began, attempts, sys, exitCode, history>>

\* What an outputer returns for a sweep in which some check failed.
output(failed) ==
    CASE ~failed \/ format = "prometheus" -> 0
      [] failed /\ format = "nagios"      -> 2
      [] OTHER                            -> 1

Sampled(down) == IF down THEN "down" ELSE "up"

\* runValidation rejects the spec, or a sweep runs and is rendered.  A check
\* cut short by the cancelled context fails.
RejectSpec ==
    /\ pc = "sweep"
    /\ attempts = 0
    /\ Return(1)
    /\ UNCHANGED <<flags, hostDown, ctxDone, now, began, attempts, sys, exitCode, history>>

Sweep ==
    /\ pc = "sweep"
    /\ LET seen == IF sys = "fresh" THEN Sampled(hostDown) ELSE sys
       IN  \E cut \in IF ctxDone THEN BOOLEAN ELSE {FALSE} :
              /\ sys' = seen
              /\ exitCode' = output(seen = "down" \/ cut)
              /\ lastDown' = hostDown
              /\ lastCut' = cut
    /\ began' = now
    /\ \E d \in 1..MaxSweep : now' = now + d
    /\ attempts' = attempts + 1
    /\ pc' = "decide"
    /\ UNCHANGED <<flags, hostDown, ctxDone, code>>

\* Room for another sleep: elapsed + sleep against --retry-timeout.
OutOfTimeAlready == now > retryTimeout

OutOfTime == now + sleep > retryTimeout

ReturnExitCode ==
    /\ pc = "decide"
    /\ retryTimeout = 0 \/ exitCode = 0
    /\ Return(exitCode)
    /\ UNCHANGED <<flags, hostDown, ctxDone, now, began, attempts, sys, exitCode, history>>

ReturnTimeout ==
    /\ pc = "decide"
    /\ retryTimeout # 0 /\ exitCode # 0
    /\ OutOfTime
    /\ Return(3)
    /\ UNCHANGED <<flags, hostDown, ctxDone, now, began, attempts, sys, exitCode, history>>

RetryWithSameSystem ==
    /\ pc = "decide"
    /\ retryTimeout # 0 /\ exitCode # 0
    /\ ~OutOfTime
    /\ pc' = "sleep"
    /\ UNCHANGED <<flags, hostDown, ctxDone, now, began, attempts, sys, exitCode, history, code>>

\* system.New: the next attempt looks at the host again.
Retry ==
    /\ pc = "decide"
    /\ retryTimeout # 0 /\ exitCode # 0
    /\ ~OutOfTime
    /\ pc' = "sleep"
    /\ sys' = "fresh"
    /\ UNCHANGED <<flags, hostDown, ctxDone, now, began, attempts, exitCode, history, code>>

WakeNever == FALSE /\ UNCHANGED vars

\* time.After: a negative duration has passed already.
Slept == IF sleep < 0 THEN 0 ELSE sleep

\* The two cases of the select; when both are ready either may be taken.
Wake ==
    /\ pc = "sleep"
    /\ now' = now + Slept
    /\ pc' = "sweep"
    /\ UNCHANGED <<flags, hostDown, ctxDone, began, attempts, sys, exitCode, history, code>>

Interrupted ==
    /\ pc = "sleep"
    /\ ctxDone
    /\ \E d \in 0..Slept : now' = now + d
    /\ Return(3)
    /\ UNCHANGED <<flags, hostDown, ctxDone, began, attempts, sys, exitCode, history>>

-----------------------------------------------------------------------------
HostChanges ==
    /\ pc # "returned"
    /\ hostDown' = ~hostDown
    /\ UNCHANGED <<flags, pc, ctxDone, now, began, attempts, sys, exitCode, history, code>>

Signal ==
    /\ pc # "returned"
    /\ ~ctxDone
    /\ ctxDone' = TRUE
    /\ UNCHANGED <<flags, pc, hostDown, now, began, attempts, sys, exitCode, history, code>>

Returned == pc = "returned" /\ UNCHANGED vars

Step ==
    \/ Load \/ Configure \/ RejectSpec \/ Sweep
    \/ ReturnExitCode \/ ReturnTimeout \/ Retry \/ Wake \/ Interrupted

Next == Step \/ HostChanges \/ Signal \/ Returned

Spec == Init /\ [][Next]_vars

\* The command's only goroutine runs; sweeps return and timers fire.
FairSpec == Spec /\ WF_vars(Step)

-----------------------------------------------------------------------------
(* Properties *)

\* Exit 0 from a sweep means that the last attempt, not an earlier one, looked
\* at the host and found nothing wrong; 3 means that it found something, and
\* that there was no room for another attempt or a signal came.  The
\* prometheus and discovery formats are documented to exit 0 whatever they see.
ExitCodeHonest ==
    pc = "returned" /\ attempts > 0 =>
        /\ code = 0 /\ format # "prometheus" => ~lastDown /\ ~lastCut
        /\ code \in {1, 2, 3} => lastDown \/ lastCut
        /\ code = 3 => retryTimeout # 0 /\ (now + sleep > retryTimeout \/ ctxDone)

\* "Retry on failure so long as elapsed + sleep time is less than this": a
\* negative --sleep is subtracted and not slept, so it puts the deadline off by
\* as much; any other leaves it at --retry-timeout.
Deadline == IF sleep < 0 THEN retryTimeout - sleep ELSE retryTimeout

\* A retry keeps its promise to the deadline, whatever the signs of the two
\* flags: no attempt but the first begins after it, and with --retry-timeout 0,
\* or a deadline that is not after the start, there is only one.
NoSweepPastDeadline ==
    attempts > 1 => retryTimeout # 0 /\ Deadline > 0 /\ began <= Deadline

\* validate returns, whatever the host does and however often it is retried.
Returns == <>(pc = "returned")

==============================================================================
