------------------------------- MODULE Parallel ------------------------------
(***************************************************************************)
(* validateParallel (validate.go): the sweep of a spec without depends-on. *)
(* A feeder goroutine sends the resources on in, each worker validates     *)
(* what it receives and sends its group on out, and a goroutine of its own *)
(* waits for the workers and closes out.  The outputer ranges over out.    *)
(* Both channels are unbuffered: a send and its receive are one step.      *)
(***************************************************************************)
EXTENDS DependencyGraph, WorkerPool

VARIABLES
    feed,           \* the resources the feeder has not sent yet
    wpc, item, outcome,     \* the workers
    closed,         \* out is closed
    outputer,       \* the goroutine that ranges over out
    verdict         \* what the groups it received say of each resource

workerVars == <<feed, wpc, item, outcome>>
vars == <<workerVars, closed, outputer, verdict>>

Unreported == "unreported"

Init ==
    /\ feed = Refs
    /\ wpc = [w \in Workers |-> "take"]
    /\ item = [w \in Workers |-> 1]
    /\ outcome = [w \in Workers |-> "SUCCESS"]
    /\ closed = FALSE
    /\ outputer = "recv"
    /\ verdict = [r \in Refs |-> <<>>]

-----------------------------------------------------------------------------
WorkerTo(w, label) == wpc' = [wpc EXCEPT ![w] = label]

Take(w) ==
    /\ wpc[w] = "take"
    /\ \E r \in feed :
          /\ \A q \in feed : r <= q
          /\ feed' = feed \ {r}
          /\ item' = [item EXCEPT ![w] = r]
    /\ WorkerTo(w, "validate")
    /\ UNCHANGED <<outcome, closed, outputer, verdict>>

\* A panic ends the worker that met it, and nothing recovers the others.
ValidateUnsafe(w) ==
    /\ wpc[w] = "validate"
    /\ \/ WorkerTo(w, "exit") /\ UNCHANGED outcome
       \/ /\ \E o \in {"SUCCESS", "FAIL"} : outcome' = [outcome EXCEPT ![w] = o]
          /\ WorkerTo(w, "send")
    /\ UNCHANGED <<feed, item, closed, outputer, verdict>>

\* ValidateSafe: a panic is one more way to fail.
Validate(w) ==
    /\ wpc[w] = "validate"
    /\ \E o \in {"SUCCESS", "FAIL"} : outcome' = [outcome EXCEPT ![w] = o]
    /\ WorkerTo(w, "send")
    /\ UNCHANGED <<feed, item, closed, outputer, verdict>>

Send(w) ==
    /\ wpc[w] = "send"
    /\ outputer = "recv"
    /\ outputer' = "render"
    /\ verdict' = [verdict EXCEPT ![item[w]] = Append(@, outcome[w])]
    /\ WorkerTo(w, "take")
    /\ UNCHANGED <<feed, item, outcome, closed>>

\* The feeder has closed in.
Drained(w) ==
    /\ wpc[w] = "take"
    /\ feed = {}
    /\ WorkerTo(w, "exit")
    /\ UNCHANGED <<feed, item, outcome, closed, outputer, verdict>>

CloseWhenFed ==
    /\ ~closed
    /\ feed = {}
    /\ closed' = TRUE
    /\ UNCHANGED <<workerVars, outputer, verdict>>

CloseForgotten ==
    /\ ~closed
    /\ \A w \in Workers : wpc[w] = "exit"
    /\ UNCHANGED <<workerVars, closed, outputer, verdict>>

\* wg.Wait(); close(out)
Close ==
    /\ ~closed
    /\ \A w \in Workers : wpc[w] = "exit"
    /\ closed' = TRUE
    /\ UNCHANGED <<workerVars, outputer, verdict>>

Render ==
    /\ outputer = "render"
    /\ outputer' = "recv"
    /\ UNCHANGED <<workerVars, closed, verdict>>

Finish ==
    /\ outputer = "recv"
    /\ closed
    /\ outputer' = "done"
    /\ UNCHANGED <<workerVars, closed, verdict>>

-----------------------------------------------------------------------------
(* Properties *)

\* No worker is left to send on out once it is closed, and by then every
\* resource has reported one group: a worker lost to a panic, or a close that
\* does not wait, would turn a crash into an under-reported pass.
ClosedAfterAllReported ==
    /\ \A r \in Refs : Len(verdict[r]) <= 1
    /\ closed => /\ \A w \in Workers : wpc[w] = "exit"
                 /\ \A r \in Refs : Len(verdict[r]) = 1

\* Without depends-on the stream is Sweep's with no prerequisites: every
\* resource once, in any order, and then the end.
streamVerdict ==
    [r \in Refs |-> IF verdict[r] = <<>> THEN Unreported ELSE verdict[r][1]]

AbstractSweep == INSTANCE Sweep WITH
    deps <- [r \in Refs |-> <<>>], verdict <- streamVerdict, ended <- closed

ImplementsSweep == AbstractSweep!SafeSpec

==============================================================================
