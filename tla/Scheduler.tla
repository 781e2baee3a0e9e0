------------------------------ MODULE Scheduler ------------------------------
(***************************************************************************)
(* validateWithDependencies (dependency_scheduler.go): the goroutine that  *)
(* runs a schedule wave by wave, the workers of a wave, the channel out    *)
(* and the outputer that drains it.                                        *)
(*                                                                         *)
(* A pass examines the pending resources in schedule order.  One whose     *)
(* prerequisites have not all completed stays pending; one with a          *)
(* prerequisite that did not pass is skipped on the spot; the others are   *)
(* the next wave.  A feeder hands the wave to the workers over an          *)
(* unbuffered channel and wg.Wait ends the wave.                           *)
(*                                                                         *)
(* A send on an unbuffered channel and its receive are one step.  The      *)
(* validation of a resource is a choice of its outcome: ValidateSafe turns *)
(* a panic into a FAIL result, so it always returns.                       *)
(***************************************************************************)
EXTENDS DependencyGraph, WorkerPool

CONSTANT Schedules      \* the dependency lists buildSchedule can return

ASSUME ScheduleAssumption ==
    /\ Schedules \subseteq DependencyLists
    /\ \A d \in Schedules : Acyclic(d)

VARIABLES
    deps,           \* the schedule's dependency lists; never change
    pc,             \* the scheduling goroutine
    scan,           \* the pending resources this pass has not examined yet
    nextPending, runnable, progressed,      \* the locals of a pass
    status, completed,                      \* the two maps stateMu guards
    stateMu,        \* the worker holding stateMu, or NoWorker
    feed,           \* the resources of the wave the feeder still holds
    wpc, item, outcome,                     \* the workers of the wave
    outputer,       \* the goroutine that ranges over out
    delivered,      \* how many result groups of each resource it received
    reason          \* the skip reason the last of them carried

passVars   == <<scan, nextPending, runnable, progressed>>
stateVars  == <<status, completed>>
workerVars == <<feed, wpc, item, outcome>>
outVars    == <<outputer, delivered, reason>>
vars == <<deps, pc, passVars, stateVars, stateMu, workerVars, outVars>>

SUCCESS == "SUCCESS"
FAIL    == "FAIL"
SKIP    == "SKIP"

\* A skip reason names a prerequisite and what became of it.
Reasons  == [dep : 0..N, why : {"none", "failed", "was skipped"}]
NoReason == [dep |-> 0, why |-> "none"]

Init ==
    /\ deps \in Schedules
    /\ pc = "scan"
    /\ scan = Refs
    /\ nextPending = {}
    /\ runnable = {}
    /\ progressed = FALSE
    /\ status = [r \in Refs |-> SUCCESS]        \* the map's zero value
    /\ completed = [r \in Refs |-> FALSE]
    /\ stateMu = NoWorker
    /\ feed = {}
    /\ wpc = [w \in Workers |-> "exit"]
    /\ item = [w \in Workers |-> 1]
    /\ outcome = [w \in Workers |-> SUCCESS]
    /\ outputer = "recv"
    /\ delivered = [r \in Refs |-> 0]
    /\ reason = [r \in Refs |-> NoReason]

-----------------------------------------------------------------------------
(* A pass over pending.  The schedule's order is the order of the refs.    *)

First(r, S) == r \in S /\ \A q \in S : r <= q

ReadyIfAny(r) == deps[r] = <<>> \/ \E k \in DOMAIN deps[r] : completed[deps[r][k]]

ReadyIfFailed(r) ==
    \/ \A k \in DOMAIN deps[r] : completed[deps[r][k]]
    \/ \E k \in DOMAIN deps[r] : completed[deps[r][k]] /\ status[deps[r][k]] # SUCCESS

Ready(r) == \A k \in DOMAIN deps[r] : completed[deps[r][k]]

NotPassed(p) == status[p] \in {FAIL, SKIP}

\* The k-th prerequisite of r is the first, in declared order, not to pass.
IsSkipReason(r, k) ==
    /\ k \in DOMAIN deps[r]
    /\ NotPassed(deps[r][k])
    /\ \A j \in DOMAIN deps[r] : j < k => ~NotPassed(deps[r][j])

ReasonOf(p) ==
    [dep |-> p, why |-> IF status[p] = FAIL THEN "failed" ELSE "was skipped"]

\* The group r sends on out, received by an outputer that waits for one.
Deliver(r, why) ==
    /\ outputer = "recv"
    /\ outputer' = "render"
    /\ delivered' = [delivered EXCEPT ![r] = @ + 1]
    /\ reason' = [reason EXCEPT ![r] = why]

ExamineBlocked(r) ==
    /\ pc = "scan"
    /\ First(r, scan)
    /\ completed[r] \/ ~Ready(r)
    /\ nextPending' = IF completed[r] THEN nextPending ELSE nextPending \cup {r}
    /\ scan' = scan \ {r}
    /\ UNCHANGED <<deps, pc, runnable, progressed, stateVars, stateMu,
                   workerVars, outVars>>

ExamineSkipUnmarked(r) ==
    /\ pc = "scan"
    /\ First(r, scan)
    /\ ~completed[r] /\ Ready(r)
    /\ \E k \in DOMAIN deps[r] :
          /\ IsSkipReason(r, k)
          /\ Deliver(r, ReasonOf(deps[r][k]))
    /\ status' = [status EXCEPT ![r] = SKIP]
    /\ completed' = [completed EXCEPT ![r] = TRUE]
    /\ scan' = scan \ {r}
    /\ UNCHANGED <<deps, pc, nextPending, runnable, progressed, stateMu, workerVars>>

ExamineSkip(r) ==
    /\ pc = "scan"
    /\ First(r, scan)
    /\ ~completed[r] /\ Ready(r)
    /\ \E k \in DOMAIN deps[r] :
          /\ IsSkipReason(r, k)
          /\ Deliver(r, ReasonOf(deps[r][k]))
    /\ status' = [status EXCEPT ![r] = SKIP]
    /\ completed' = [completed EXCEPT ![r] = TRUE]
    /\ progressed' = TRUE
    /\ scan' = scan \ {r}
    /\ UNCHANGED <<deps, pc, nextPending, runnable, stateMu, workerVars>>

ExamineRunnable(r) ==
    /\ pc = "scan"
    /\ First(r, scan)
    /\ ~completed[r] /\ Ready(r)
    /\ \A k \in DOMAIN deps[r] : ~NotPassed(deps[r][k])
    /\ runnable' = runnable \cup {r}
    /\ scan' = scan \ {r}
    /\ UNCHANGED <<deps, pc, nextPending, progressed, stateVars, stateMu,
                   workerVars, outVars>>

\* pending = nextPending, and the loop's condition; leaving it closes out.
LoopOrClose ==
    /\ pc' = IF nextPending = {} THEN "closed" ELSE "scan"
    /\ scan' = nextPending
    /\ nextPending' = {}
    /\ runnable' = {}
    /\ progressed' = FALSE

PassAgainGivesUp ==
    /\ pc = "scan" /\ scan = {}
    /\ runnable = {} /\ progressed
    /\ pc' = "closed"
    /\ UNCHANGED <<deps, passVars, stateVars, stateMu, workerVars, outVars>>

\* Nothing to run, but a skip may have completed a prerequisite: go round.
PassAgain ==
    /\ pc = "scan" /\ scan = {}
    /\ runnable = {} /\ progressed
    /\ LoopOrClose
    /\ UNCHANGED <<deps, stateVars, stateMu, workerVars, outVars>>

\* Nothing to run and nothing skipped: the code skips all that is left with
\* "unsatisfied dependency" and returns.  NeverAbandons: this is dead code.
MustAbandon ==
    /\ pc = "scan" /\ scan = {}
    /\ runnable = {} /\ ~progressed

StartWave ==
    /\ pc = "scan" /\ scan = {}
    /\ runnable # {}
    /\ pc' = "wait"
    /\ feed' = runnable
    /\ wpc' = [w \in Workers |-> "take"]
    /\ UNCHANGED <<deps, passVars, stateVars, stateMu, item, outcome, outVars>>

EndWaveUnwaited ==
    /\ pc = "wait"
    /\ feed = {}
    /\ LoopOrClose
    /\ UNCHANGED <<deps, stateVars, stateMu, workerVars, outVars>>

\* wg.Wait
EndWave ==
    /\ pc = "wait"
    /\ \A w \in Workers : wpc[w] = "exit"
    /\ LoopOrClose
    /\ UNCHANGED <<deps, stateVars, stateMu, workerVars, outVars>>

-----------------------------------------------------------------------------
(* The workers of a wave *)

WorkerTo(w, label) == wpc' = [wpc EXCEPT ![w] = label]

\* The feeder's send on work, in the order of runnable.
Take(w) ==
    /\ wpc[w] = "take"
    /\ \E r \in feed :
          /\ First(r, feed)
          /\ feed' = feed \ {r}
          /\ item' = [item EXCEPT ![w] = r]
    /\ WorkerTo(w, "validate")
    /\ UNCHANGED <<deps, pc, passVars, stateVars, stateMu, outcome, outVars>>

\* The feeder has closed work.
Drained(w) ==
    /\ wpc[w] = "take"
    /\ feed = {}
    /\ WorkerTo(w, "exit")
    /\ UNCHANGED <<deps, pc, passVars, stateVars, stateMu, feed, item, outcome,
                   outVars>>

\* SKIP: skip: true, or every attribute skipped; the group holds no FAIL.
Validate(w) ==
    /\ wpc[w] = "validate"
    /\ \E o \in {SUCCESS, FAIL, SKIP} : outcome' = [outcome EXCEPT ![w] = o]
    /\ WorkerTo(w, "lock")
    /\ UNCHANGED <<deps, pc, passVars, stateVars, stateMu, feed, item, outVars>>

LockIgnored(w) ==
    /\ wpc[w] = "lock"
    /\ stateMu' = w
    /\ WorkerTo(w, "write")
    /\ UNCHANGED <<deps, pc, passVars, stateVars, feed, item, outcome, outVars>>

Lock(w) ==
    /\ wpc[w] = "lock"
    /\ stateMu = NoWorker
    /\ stateMu' = w
    /\ WorkerTo(w, "write")
    /\ UNCHANGED <<deps, pc, passVars, stateVars, feed, item, outcome, outVars>>

WriteLastResult(w) ==
    /\ wpc[w] = "write"
    /\ status' = [status EXCEPT ![item[w]] = outcome[w]]
    /\ completed' = [completed EXCEPT ![item[w]] = TRUE]
    /\ stateMu' = NoWorker
    /\ WorkerTo(w, "send")
    /\ UNCHANGED <<deps, pc, passVars, feed, item, outcome, outVars>>

Write(w) ==
    /\ wpc[w] = "write"
    /\ status' = [status EXCEPT
                     ![item[w]] = IF outcome[w] = FAIL THEN FAIL ELSE SUCCESS]
    /\ completed' = [completed EXCEPT ![item[w]] = TRUE]
    /\ stateMu' = NoWorker
    /\ WorkerTo(w, "send")
    /\ UNCHANGED <<deps, pc, passVars, feed, item, outcome, outVars>>

Send(w) ==
    /\ wpc[w] = "send"
    /\ Deliver(item[w], NoReason)
    /\ WorkerTo(w, "take")
    /\ UNCHANGED <<deps, pc, passVars, stateVars, stateMu, feed, item, outcome>>

-----------------------------------------------------------------------------
(* The outputer: for group := range results *)

Render ==
    /\ outputer = "render"
    /\ outputer' = "recv"
    /\ UNCHANGED <<deps, pc, passVars, stateVars, stateMu, workerVars,
                   delivered, reason>>

Finish ==
    /\ outputer = "recv"
    /\ pc = "closed"
    /\ outputer' = "done"
    /\ UNCHANGED <<deps, pc, passVars, stateVars, stateMu, workerVars,
                   delivered, reason>>

Terminated == outputer = "done" /\ UNCHANGED vars

-----------------------------------------------------------------------------
Schedule ==
    \/ \E r \in Refs : ExamineBlocked(r) \/ ExamineSkip(r) \/ ExamineRunnable(r)
    \/ PassAgain
    \/ StartWave
    \/ EndWave

Work(w) ==
    Take(w) \/ Drained(w) \/ Validate(w) \/ Lock(w) \/ Write(w) \/ Send(w)

Consume == Render \/ Finish

Next == Schedule \/ (\E w \in Workers : Work(w)) \/ Consume \/ Terminated

Spec == Init /\ [][Next]_vars

\* Every goroutine that can run does: the Go scheduler is fair to runnable
\* goroutines, and a validation returns because its lookups carry deadlines.
FairSpec ==
    /\ Spec
    /\ WF_vars(Schedule)
    /\ \A w \in Workers : WF_vars(Work(w))
    /\ WF_vars(Consume)

-----------------------------------------------------------------------------
(* Properties *)

TypeOK ==
    /\ deps \in Schedules
    /\ pc \in {"scan", "wait", "closed"}
    /\ scan \in SUBSET Refs
    /\ nextPending \in SUBSET Refs
    /\ runnable \in SUBSET Refs
    /\ progressed \in BOOLEAN
    /\ status \in [Refs -> {SUCCESS, FAIL, SKIP}]
    /\ completed \in [Refs -> BOOLEAN]
    /\ stateMu \in Workers \cup {NoWorker}
    /\ feed \in SUBSET Refs
    /\ wpc \in [Workers -> {"take", "validate", "lock", "write", "send", "exit"}]
    /\ item \in [Workers -> Refs]
    /\ outcome \in [Workers -> {SUCCESS, FAIL, SKIP}]
    /\ outputer \in {"recv", "render", "done"}
    /\ delivered \in [Refs -> Nat]
    /\ reason \in [Refs -> Reasons]

\* A worker holds a resource from its receive on work to its send on out.
Busy(w) == wpc[w] \in {"validate", "lock", "write", "send"}

\* The outputer never receives two groups for one resource, and once out is
\* closed it has received one for each: no resource is lost between a wave's
\* locals, the feeder, a worker and the next pass, and none runs twice.
ExactlyOnce ==
    /\ \A r \in Refs : delivered[r] <= 1
    /\ pc = "closed" => \A r \in Refs : delivered[r] = 1

\* status and completed are Go maps: a write that meets another access is a
\* fatal error no recover catches.  The workers of a wave write them one at
\* a time, and never while the scheduling goroutine reads them in a pass.
NoMapRace ==
    /\ \A v, w \in Workers : wpc[v] = "write" /\ wpc[w] = "write" => v = w
    /\ pc = "scan" => \A w \in Workers : wpc[w] = "exit"

\* out is closed after its last sender is gone: a send on a closed channel
\* would panic in a goroutine nothing recovers.
ClosedAfterSenders ==
    pc = "closed" => \A w \in Workers : wpc[w] = "exit"

\* A resource runs only when each of its prerequisites has run, was reported
\* and did not fail; a prerequisite turned off with skip: true counts as
\* passing (docs/gossfile.md, "Test dependencies").
RunsAfterPassing ==
    \A w \in Workers : Busy(w) =>
        \A p \in Prerequisites(deps, item[w]) :
            completed[p] /\ status[p] = SUCCESS /\ delivered[p] = 1

\* A skip reason does not depend on the order of the schedule or on which
\* worker was faster: the resources the scheduler skips are exactly those
\* with a prerequisite that did not pass, and each names the first of them
\* in declared order, with "failed" for one that ran and failed and "was
\* skipped" for one that was itself skipped.
SkipReasonExact ==
    \A r \in Refs : completed[r] =>
        \/ /\ status[r] = SKIP
           /\ \E k \in DOMAIN deps[r] :
                 /\ IsSkipReason(r, k)
                 /\ reason[r] = ReasonOf(deps[r][k])
        \/ /\ status[r] # SKIP
           /\ reason[r] = NoReason
           /\ \A p \in Prerequisites(deps, r) : status[p] = SUCCESS

\* "Independent dependency chains still run in parallel; only declared
\* dependencies are serialized" (docs/gossfile.md): a resource whose
\* prerequisites have all passed does not wait, with a worker gone idle, for
\* the check of a resource that it has nothing to do with.
OnlyDeclaredSerialized ==
    \A r \in nextPending : \A v, w \in Workers :
        /\ \A p \in Prerequisites(deps, r) : completed[p] /\ status[p] = SUCCESS
        /\ Busy(v) /\ item[v] \notin Prerequisites(deps, r)
        => wpc[w] # "exit"

\* A pass over an acyclic schedule always skips something or finds something
\* to run: the branch that reports "unsatisfied dependency" is dead code.
NeverAbandons == ~MustAbandon

-----------------------------------------------------------------------------
(* The inductive invariant behind the properties above *)

Waiting(r) == ~completed[r] /\ delivered[r] = 0
Reported(r) == completed[r] /\ delivered[r] = 1

\* During a pass, a resource is in one of the pass's three sets or reported.
ScanPartition ==
    /\ scan \cap nextPending = {} /\ scan \cap runnable = {}
    /\ nextPending \cap runnable = {}
    /\ \A r \in scan \cup nextPending \cup runnable : Waiting(r)
    /\ \A r \in Refs \ (scan \cup nextPending \cup runnable) : Reported(r)

\* During a wave, it is pending, with the feeder, with a worker, or reported.
WavePartition ==
    /\ scan = {}
    /\ nextPending \cap runnable = {}
    /\ feed \subseteq runnable
    /\ \A r \in nextPending \cup feed : Waiting(r)
    /\ \A r \in Refs \ (nextPending \cup feed) :
          Reported(r) \/ \E w \in Workers : Busy(w) /\ item[w] = r

WorkerInv ==
    /\ pc # "wait" => feed = {} /\ \A w \in Workers : wpc[w] = "exit"
    /\ \A w \in Workers : wpc[w] = "exit" => feed = {}
    /\ \A w \in Workers : Busy(w) =>
          /\ item[w] \in runnable \ feed
          /\ delivered[item[w]] = 0
          /\ completed[item[w]] <=> wpc[w] = "send"
          /\ \A v \in Workers : Busy(v) /\ item[v] = item[w] => v = w
    /\ \A w \in Workers : wpc[w] = "write" <=> stateMu = w

\* What has completed does not change, so what was decided on it stays true.
DecidedInv ==
    /\ \A r \in Refs : completed[r] => Ready(r)
    /\ \A r \in Refs : ~completed[r] => reason[r] = NoReason
    /\ \A r \in runnable : \A k \in DOMAIN deps[r] :
          Reported(deps[r][k]) /\ status[deps[r][k]] = SUCCESS

\* A pass that has skipped nothing still has something pending, and what it
\* left pending was left because a prerequisite has yet to complete.
ProgressInv ==
    pc = "scan" /\ ~progressed =>
        /\ scan \cup nextPending \cup runnable # {}
        /\ \A r \in nextPending : ~Ready(r)

\* The scheduler's inductive invariant: where each resource is in each phase
\* of validateWithDependencies, and what its workers and maps say of it.
Inv ==
    /\ TypeOK
    /\ pc = "scan" => ScanPartition
    /\ pc = "wait" => WavePartition
    /\ pc = "closed" => \A r \in Refs : Reported(r)
    /\ WorkerInv
    /\ DecidedInv
    /\ ProgressInv
    /\ SkipReasonExact

\* The scheduler implements the stream of Sweep: one group per resource, in
\* a topological order of the dependency lists, then the close.
streamVerdict ==
    [r \in Refs |-> IF delivered[r] = 0 THEN "unreported" ELSE status[r]]

AbstractSweep == INSTANCE Sweep WITH
    verdict <- streamVerdict, ended <- (pc = "closed")

ImplementsSweep == AbstractSweep!Spec

==============================================================================
