-------------------------- MODULE HostLookupProofs --------------------------
(***************************************************************************)
(* Theorems about CommandRun and HostLookup: one subprocess, its process   *)
(* group and the getter that reads it, for every timeout, grace and        *)
(* horizon of the clock.                                                   *)
(***************************************************************************)
EXTENDS HostLookup, TLAPS

-----------------------------------------------------------------------------
(* The inductive invariant of a subprocess *)

\* One handle, closed at most once; nothing is assigned to the job before the
\* child starts, and the cancel finds the job it was assigned to open.
JobInv ==
    /\ job.closes = IF job.handle = "closed" THEN 1 ELSE 0
    /\ pc = "configure" => job.handle = "none"
    /\ pc \in {"configure", "start"} => ~job.assigned
    /\ watcher = "armed" /\ job.assigned => job.handle = "open"
    /\ pc \in {"returned", "done"} => job.handle # "open"

\* watchCtx runs from Start to the reaping of the child; what was killed was
\* killed by it, after the context was done.
ProcessInv ==
    /\ (watcher # "off") <=> pc \in {"attach", "assigned", "wait"}
    /\ pc \in {"configure", "start"} => child = "none"
    /\ pc \in {"attach", "assigned", "wait", "io"} => child # "none"
    /\ child = "running" => watcher = "armed"
    /\ watcher = "fired" \/ child = "killed" \/ grandchild = "killed" => ctx # "live"
    /\ goos = "windows" /\ grandchild = "in" => job.assigned
    /\ child = "killed" /\ grandchild = "in" => job.missed

\* What Run returns says how the child ended, and the caller's answer is made
\* of that and of the context.
ResultInv ==
    /\ pc \in {"io", "returned", "done"} =>
          /\ child = "exit0" => runErr \in {"nil", "ctx", "waitdelay"}
          /\ child \in {"exit1", "killed"} => runErr = "exit"
          /\ child = "none" /\ kind # "none" => runErr \in {"lookpath", "ctx"}
    /\ truncated => pc \in {"returned", "done"} /\ runErr # "nil"
    /\ kind = "none" => pc = "done" /\ answer = NoAnswer
    /\ pc = "done" /\ kind # "none" =>
          answer = [err |-> IF kind = "command" THEN setup ELSE runHelperCommand,
                    status |-> Status]

\* The clock stops at the deadline until the child is reaped, and then at
\* WaitDelay.
ClockInv ==
    /\ pc \notin {"io", "returned", "done"} => elapsed <= budget
    /\ timer <= budget + waitDelay
    /\ elapsed <= budget + waitDelay

RunInv == RunTypeOK /\ JobInv /\ ProcessInv /\ ResultInv /\ ClockInv

\* The durations are natural numbers.
LEMMA DurationsFact == budget \in Nat /\ waitDelay \in Nat
BY TimingAssumption DEF budget, waitDelay

Jobs == [handle : {"none", "open", "closed"}, assigned : BOOLEAN,
         attached : BOOLEAN, missed : BOOLEAN, closes : Nat]

\* Releasing a job closes its handle if it is open, and nothing else.
LEMMA ReleaseFact ==
    ASSUME NEW j \in Jobs
    PROVE  /\ releaseProcessGroup(j) \in Jobs
           /\ releaseProcessGroup(j).handle = IF j.handle = "open" THEN "closed" ELSE j.handle
           /\ releaseProcessGroup(j).closes = IF j.handle = "open" THEN j.closes + 1 ELSE j.closes
           /\ releaseProcessGroup(j).assigned = j.assigned
           /\ releaseProcessGroup(j).attached = j.attached
           /\ releaseProcessGroup(j).missed = j.missed
<1>1. CASE j.handle = "open"
  <2>1. releaseProcessGroup(j) = [j EXCEPT !.handle = "closed", !.closes = @ + 1]
    BY <1>1 DEF releaseProcessGroup
  <2>2. j.closes + 1 \in Nat
    BY DEF Jobs
  <2>3. [j EXCEPT !.handle = "closed", !.closes = @ + 1] \in Jobs
    BY <2>2 DEF Jobs
  <2>4. LET k == [j EXCEPT !.handle = "closed", !.closes = @ + 1]
        IN  /\ k.handle = "closed" /\ k.closes = j.closes + 1 /\ k.assigned = j.assigned
            /\ k.attached = j.attached /\ k.missed = j.missed
    BY DEF Jobs
  <2>5. QED
    BY <1>1, <2>1, <2>3, <2>4
<1>2. CASE j.handle # "open"
    BY <1>2 DEF releaseProcessGroup
<1>3. QED
    BY <1>1, <1>2

\* NewCommandContext gives the job its handle.
LEMMA HandleFact ==
    ASSUME NEW j \in Jobs, NEW h \in {"none", "open"}, NEW k, k = [j EXCEPT !.handle = h]
    PROVE  /\ k \in Jobs /\ k.handle = h /\ k.closes = j.closes
           /\ k.assigned = j.assigned /\ k.attached = j.attached /\ k.missed = j.missed
BY DEF Jobs

\* The process is assigned to the job.
LEMMA AssignedFact ==
    ASSUME NEW j \in Jobs, NEW k, k = [j EXCEPT !.assigned = TRUE]
    PROVE  /\ k \in Jobs /\ k.handle = j.handle /\ k.closes = j.closes
           /\ k.assigned = TRUE /\ k.attached = j.attached /\ k.missed = j.missed
BY DEF Jobs

\* attached says so.
LEMMA AttachedFact ==
    ASSUME NEW j \in Jobs, NEW k, k = [j EXCEPT !.attached = TRUE]
    PROVE  /\ k \in Jobs /\ k.handle = j.handle /\ k.closes = j.closes
           /\ k.assigned = j.assigned /\ k.attached = TRUE /\ k.missed = j.missed
BY DEF Jobs

\* A cancel records whether it came between the two.
LEMMA MissedFact ==
    ASSUME NEW j \in Jobs, NEW b \in BOOLEAN, NEW k, k = [j EXCEPT !.missed = b]
    PROVE  /\ k \in Jobs /\ k.handle = j.handle /\ k.closes = j.closes
           /\ k.assigned = j.assigned /\ k.attached = j.attached /\ k.missed = b
BY DEF Jobs

Unstarted ==
    Fresh /\ kind \in {"command", "helper", "none"} /\ goos \in {"posix", "windows"}

\* A subprocess that has not been configured satisfies RunInv.
LEMMA FreshInv == Unstarted => RunInv
<1> SUFFICES ASSUME Unstarted PROVE RunInv
    OBVIOUS
<1> USE DEF Unstarted, Fresh, FreshJob, NoAnswer
<1>1. job \in Jobs
    BY DEF Jobs
<1>2. answer \in [err : {"pending", "nil", "failed", "timeout", "canceled"},
                   status : {-1, 0, 1}]
    OBVIOUS
<1>3. RunTypeOK
  <2>1. elapsed \in 0..Horizon /\ timer \in Nat
    BY TimingAssumption
  <2>2. /\ truncated \in BOOLEAN /\ runErr \in {"nil", "lookpath", "exit", "ctx", "waitdelay"}
        /\ ctx \in {"live", "deadline", "canceled"} /\ watcher \in {"off", "armed", "fired"}
        /\ pc \in {"configure", "start", "attach", "assigned", "wait", "io", "returned", "done"}
        /\ child \in {"none", "running", "exit0", "exit1", "killed"}
        /\ grandchild \in {"none", "in", "out", "ended", "killed"}
    OBVIOUS
  <2>3. QED
    BY <1>1, <1>2, <2>1, <2>2, Zenon DEF RunTypeOK, Jobs
<1>4. JobInv /\ ProcessInv /\ ResultInv
    BY DEF JobInv, ProcessInv, ResultInv
<1>5. ClockInv
    BY DurationsFact DEF ClockInv
<1>6. QED
    BY <1>3, <1>4, <1>5 DEF RunInv

\* So does the second subprocess of a check.
LEMMA AgainInv == ASSUME RunInv, Again, kind # "none" PROVE RunInv'
<1>1. Unstarted'
    BY DEF Unstarted, Again, Fresh, FreshJob, NoAnswer, RunInv, RunTypeOK
<1>2. QED
    BY <1>1, FreshInv, PTL

\* Every actor keeps the job a job.
LEMMA JobTypes == job \in Jobs /\ RunNext => job' \in Jobs
<1> SUFFICES ASSUME job \in Jobs, RunNext PROVE job' \in Jobs
    OBVIOUS
<1>1. CASE Configure
  <2>1. PICK h \in {"none", "open"} : job' = [job EXCEPT !.handle = h]
    BY <1>1 DEF Configure
  <2>2. QED
    BY <2>1, HandleFact
<1>2. CASE Attach \/ MarkAttached
    BY <1>2, AssignedFact, AttachedFact DEF Attach, MarkAttached
<1>3. CASE WatchCtx
  <2>0. (job.assigned /\ ~job.attached) \in BOOLEAN
    OBVIOUS
  <2>1. PICK b \in BOOLEAN : job' = [releaseProcessGroup(job) EXCEPT !.missed = b]
    BY <1>3, <2>0, Zenon DEF WatchCtx, Cancel
  <2>2. releaseProcessGroup(job) \in Jobs
    BY ReleaseFact
  <2>3. QED
    BY <2>1, <2>2, MissedFact
<1>4. CASE job' = releaseProcessGroup(job)
    BY <1>4, ReleaseFact
<1>5. CASE UNCHANGED job
    BY <1>5
<1>6. QED
    BY <1>1, <1>2, <1>3, <1>4, <1>5
    DEF RunNext, Run, StartFails, Return, Release, Start, Reap, IODone, WaitDelayExpires, Answer,
        Processes, ChildExits, ChildForks, GrandchildEnds, CallerCancels, DeadlineExpires, Tick

\* The types of a subprocess are kept by all its actors.
LEMMA RunTypes == RunTypeOK /\ RunNext => RunTypeOK'
<1> SUFFICES ASSUME RunTypeOK, RunNext PROVE RunTypeOK'
    OBVIOUS
<1>0. job' \in Jobs
    BY JobTypes DEF RunTypeOK, Jobs
<1> USE <1>0 DEF RunTypeOK, Jobs, procVars
<1>1. CASE Configure
    BY <1>1 DEF Configure
<1>2. CASE StartFails
    BY <1>2 DEF StartFails, Return, Release
<1>3. CASE Start
    BY <1>3 DEF Start
<1>4. CASE Attach
    BY <1>4 DEF Attach
<1>5. CASE MarkAttached
    BY <1>5 DEF MarkAttached
<1>6. CASE Reap
    BY <1>6, DurationsFact DEF Reap, CancelErr
<1>7. CASE IODone
    BY <1>7 DEF IODone, Return, Release
<1>8. CASE WaitDelayExpires
    BY <1>8 DEF WaitDelayExpires, Return, Release
<1>9. CASE Answer
    BY <1>9 DEF Answer, setup, runHelperCommand, Status
<1>10. CASE Processes
    BY <1>10 DEF Processes, ChildExits, ChildForks, GrandchildEnds
<1>11. CASE CallerCancels \/ DeadlineExpires
    BY <1>11 DEF CallerCancels, DeadlineExpires
<1>12. CASE WatchCtx
    BY <1>12, DurationsFact DEF WatchCtx, Cancel, KillChild, KillReach
<1>13. CASE Tick
    BY <1>13, TimingAssumption DEF Tick
<1>14. QED
    BY <1>1, <1>2, <1>3, <1>4, <1>5, <1>6, <1>7, <1>8, <1>9, <1>10, <1>11, <1>12, <1>13
    DEF RunNext, Run

\* What an action does to the job, field by field.
LEMMA JobSteps ==
    ASSUME job \in Jobs, RunNext
    PROVE  /\ WatchCtx =>
                /\ job'.handle = IF job.handle = "open" THEN "closed" ELSE job.handle
                /\ job'.closes = IF job.handle = "open" THEN job.closes + 1 ELSE job.closes
                /\ job'.assigned = job.assigned
                /\ job'.attached = job.attached
                /\ job'.missed = (job.assigned /\ ~job.attached)
           /\ job' = releaseProcessGroup(job) =>
                /\ job'.handle = IF job.handle = "open" THEN "closed" ELSE job.handle
                /\ job'.closes = IF job.handle = "open" THEN job.closes + 1 ELSE job.closes
                /\ job'.assigned = job.assigned
                /\ job'.attached = job.attached
                /\ job'.missed = job.missed
           /\ Configure =>
                /\ job'.handle \in {"none", "open"} /\ job'.closes = job.closes
                /\ job'.assigned = job.assigned /\ job'.attached = job.attached
                /\ job'.missed = job.missed
           /\ Attach /\ job' # job =>
                /\ job.handle = "open" /\ pc' = "assigned"
                /\ job'.handle = job.handle /\ job'.closes = job.closes
                /\ job'.assigned = TRUE /\ job'.attached = job.attached
                /\ job'.missed = job.missed
           /\ MarkAttached =>
                /\ job'.handle = job.handle /\ job'.closes = job.closes
                /\ job'.assigned = job.assigned /\ job'.attached = TRUE
                /\ job'.missed = job.missed
<1>1. ASSUME WatchCtx
      PROVE  /\ job'.handle = IF job.handle = "open" THEN "closed" ELSE job.handle
             /\ job'.closes = IF job.handle = "open" THEN job.closes + 1 ELSE job.closes
             /\ job'.assigned = job.assigned
             /\ job'.attached = job.attached
             /\ job'.missed = (job.assigned /\ ~job.attached)
  <2>0. (job.assigned /\ ~job.attached) \in BOOLEAN
    OBVIOUS
  <2>1. PICK b \in BOOLEAN : /\ b = (job.assigned /\ ~job.attached)
                             /\ job' = [releaseProcessGroup(job) EXCEPT !.missed = b]
    BY <1>1, <2>0, Zenon DEF WatchCtx, Cancel
  <2>2. releaseProcessGroup(job) \in Jobs
    BY ReleaseFact
  <2>3. QED
    BY <2>1, <2>2, MissedFact, ReleaseFact
<1>2. ASSUME Configure
      PROVE  /\ job'.handle \in {"none", "open"} /\ job'.closes = job.closes
             /\ job'.assigned = job.assigned /\ job'.attached = job.attached
             /\ job'.missed = job.missed
  <2>1. PICK h \in {"none", "open"} : job' = [job EXCEPT !.handle = h]
    BY <1>2 DEF Configure
  <2>2. QED
    BY <2>1, HandleFact
<1>3. ASSUME Attach, job' # job
      PROVE  /\ job.handle = "open" /\ pc' = "assigned"
             /\ job'.handle = job.handle /\ job'.closes = job.closes
             /\ job'.assigned = TRUE /\ job'.attached = job.attached
             /\ job'.missed = job.missed
  <2>1. job.handle = "open" /\ pc' = "assigned" /\ job' = [job EXCEPT !.assigned = TRUE]
    BY <1>3, Zenon DEF Attach
  <2>2. QED
    BY <2>1, AssignedFact
<1>4. ASSUME MarkAttached
      PROVE  /\ job'.handle = job.handle /\ job'.closes = job.closes
             /\ job'.assigned = job.assigned /\ job'.attached = TRUE
             /\ job'.missed = job.missed
    BY <1>4, AttachedFact DEF MarkAttached
<1>5. ASSUME job' = releaseProcessGroup(job)
      PROVE  /\ job'.handle = IF job.handle = "open" THEN "closed" ELSE job.handle
             /\ job'.closes = IF job.handle = "open" THEN job.closes + 1 ELSE job.closes
             /\ job'.assigned = job.assigned
             /\ job'.attached = job.attached
             /\ job'.missed = job.missed
    BY <1>5, ReleaseFact
<1>6. QED
    BY <1>1, <1>2, <1>3, <1>4, <1>5, Zenon

\* Whichever comes first, the cancel or Run's deferred release, closes the
\* handle, and the other finds it closed.
LEMMA JobStep == RunInv /\ RunNext => JobInv'
<1> SUFFICES ASSUME RunInv, RunNext PROVE JobInv'
    OBVIOUS
<1>0. job \in Jobs
    BY DEF RunInv, RunTypeOK, Jobs
<1> USE <1>0, JobSteps DEF RunInv, JobInv, ProcessInv, procVars
<1>1. CASE Configure
    BY <1>1 DEF Configure
<1>2. CASE StartFails \/ IODone \/ WaitDelayExpires
    BY <1>2 DEF StartFails, IODone, WaitDelayExpires, Return, Release
<1>3. CASE Start
    BY <1>3 DEF Start
<1>4. CASE Attach
    BY <1>4 DEF Attach
<1>5. CASE MarkAttached
    BY <1>5 DEF MarkAttached
<1>6. CASE Reap
    BY <1>6 DEF Reap
<1>7. CASE Answer
    BY <1>7 DEF Answer
<1>8. CASE Processes \/ CallerCancels \/ DeadlineExpires \/ Tick
    BY <1>8 DEF Processes, ChildExits, ChildForks, GrandchildEnds, CallerCancels,
        DeadlineExpires, Tick
<1>9. CASE WatchCtx
    BY <1>9 DEF WatchCtx
<1>10. QED
    BY <1>1, <1>2, <1>3, <1>4, <1>5, <1>6, <1>7, <1>8, <1>9, Zenon DEF RunNext, Run

\* A cancel reaches the whole group or job, except for a process that was in
\* the job when attached did not say so yet.
LEMMA ProcessStep == RunInv /\ RunNext => ProcessInv'
<1> SUFFICES ASSUME RunInv, RunNext PROVE ProcessInv'
    OBVIOUS
<1>0. job \in Jobs
    BY DEF RunInv, RunTypeOK, Jobs
<1> USE <1>0, JobSteps DEF RunInv, JobInv, ProcessInv, procVars
<1>1. CASE Configure
    BY <1>1 DEF Configure
<1>2. CASE StartFails \/ IODone \/ WaitDelayExpires
    BY <1>2 DEF StartFails, IODone, WaitDelayExpires, Return, Release
<1>3. CASE Start
    BY <1>3 DEF Start
<1>4. CASE Attach
    BY <1>4 DEF Attach
<1>5. CASE MarkAttached
    BY <1>5 DEF MarkAttached
<1>6. CASE Reap
    BY <1>6 DEF Reap
<1>7. CASE Answer
    BY <1>7 DEF Answer
<1>8. CASE ChildExits \/ GrandchildEnds
    BY <1>8 DEF ChildExits, GrandchildEnds
<1>9. CASE ChildForks
    BY <1>9 DEF ChildForks
<1>10. CASE CallerCancels \/ DeadlineExpires \/ Tick
    BY <1>10 DEF CallerCancels, DeadlineExpires, Tick
<1>11. CASE WatchCtx
    BY <1>11 DEF WatchCtx, Cancel, KillChild, KillReach, RunTypeOK
<1>12. QED
    BY <1>1, <1>2, <1>3, <1>4, <1>5, <1>6, <1>7, <1>8, <1>9, <1>10, <1>11, Zenon
    DEF RunNext, Run, Processes

\* A child that never started, that failed, that was killed and that exited 0
\* are told apart by what Run returns; a truncated output is never clean.
LEMMA ResultStep == RunInv /\ RunNext => ResultInv'
<1> SUFFICES ASSUME RunInv, RunNext PROVE ResultInv'
    OBVIOUS
<1> USE DEF RunInv, ProcessInv, ResultInv, RunTypeOK, procVars
<1>1. CASE Configure \/ Start \/ Attach \/ MarkAttached
    BY <1>1 DEF Configure, Start, Attach, MarkAttached
<1>2. CASE StartFails \/ IODone
    BY <1>2 DEF StartFails, IODone, Return, Release
<1>3. CASE WaitDelayExpires
    BY <1>3 DEF WaitDelayExpires, Return, Release
<1>4. CASE Reap
    BY <1>4 DEF Reap, CancelErr
<1>5. CASE Answer
  <2>1. /\ setup' = setup /\ runHelperCommand' = runHelperCommand /\ Status' = Status
        /\ kind' = kind
    BY <1>5 DEF Answer, setup, runHelperCommand, Status
  <2>2. QED
    BY <1>5, <2>1 DEF Answer
<1>6. ASSUME UNCHANGED <<kind, pc, runErr, truncated, answer>>,
             pc = "done" => UNCHANGED <<child, ctx>>,
             child = "none" <=> child' = "none",
             pc = "io" \/ pc = "returned" => child' = child
      PROVE  ResultInv'
  <2>1. CASE pc = "done"
    <3>1. setup' = setup /\ runHelperCommand' = runHelperCommand /\ Status' = Status
        BY <1>6, <2>1 DEF setup, runHelperCommand, Status
    <3>2. QED
        BY <1>6, <2>1, <3>1
  <2>2. CASE pc # "done"
    BY <1>6, <2>2
  <2>3. QED
    BY <2>1, <2>2
<1>7. CASE Processes
    BY <1>6, <1>7 DEF Processes, ChildExits, ChildForks, GrandchildEnds
<1>8. CASE CallerCancels \/ DeadlineExpires
    BY <1>6, <1>8 DEF CallerCancels, DeadlineExpires
<1>9. CASE WatchCtx
    BY <1>6, <1>9 DEF WatchCtx, Cancel, KillChild
<1>10. CASE Tick
    BY <1>6, <1>10 DEF Tick
<1>11. QED
    BY <1>1, <1>2, <1>3, <1>4, <1>5, <1>7, <1>8, <1>9, <1>10, Zenon DEF RunNext, Run

\* Time stops for the deadline, and after it for WaitDelay alone.
LEMMA ClockStep == RunInv /\ RunNext => ClockInv'
<1> SUFFICES ASSUME RunInv, RunNext PROVE ClockInv'
    OBVIOUS
<1>0. kind' = kind /\ budget' = budget /\ waitDelay' = waitDelay
    BY DEF RunNext, Run, Processes, Configure, Start, Attach, MarkAttached, StartFails, IODone,
        WaitDelayExpires, Reap, Answer, ChildExits, ChildForks, GrandchildEnds,
        CallerCancels, DeadlineExpires, WatchCtx, Tick, budget, waitDelay
<1>1. elapsed \in Nat /\ timer \in Nat /\ budget \in Nat /\ waitDelay \in Nat
    BY DurationsFact DEF RunInv, RunTypeOK
<1> USE <1>0, <1>1 DEF RunInv, ProcessInv, ClockInv
<1>2. CASE Tick
    BY <1>2 DEF Tick, Waiting, RunTypeOK
<1>3. CASE WatchCtx
    BY <1>3 DEF WatchCtx
<1>4. CASE Reap
    BY <1>4 DEF Reap
<1>5. CASE /\ UNCHANGED <<elapsed, timer>>
           /\ pc \in {"io", "returned", "done"} => pc' \in {"io", "returned", "done"}
    BY <1>5
<1>6. QED
    BY <1>2, <1>3, <1>4, <1>5
    DEF RunNext, Run, Processes, Configure, Start, Attach, MarkAttached, StartFails, IODone,
        WaitDelayExpires, Return, Answer, ChildExits, ChildForks, GrandchildEnds,
        CallerCancels, DeadlineExpires

\* The invariant of a subprocess, kept by all its actors.
LEMMA RunStep == RunInv /\ RunNext => RunInv'
BY RunTypes, JobStep, ProcessStep, ResultStep, ClockStep DEF RunInv

-----------------------------------------------------------------------------
(* What the operating system's answers can be *)

\* An answer is determined by its value and its error.
LEMMA AnswerFact ==
    ASSUME NEW v, NEW e, NEW w, NEW f, R(v, e) = R(w, f)
    PROVE  v = w /\ e = f
<1>1. R(v, e).val = R(w, f).val /\ R(v, e).err = R(w, f).err
    OBVIOUS
<1>2. QED
    BY <1>1 DEF R

\* A no without an error was said, and so was a yes.
Learned(a, said) ==
    /\ a = R(FALSE, "nil") => said = "absent"
    /\ a = R(TRUE, "nil") => said = "present"

\* Neither answers.
Errs(a) == a # R(FALSE, "nil") /\ a # R(TRUE, "nil")

\* A failed lookup is no answer.
LEMMA FailsFact ==
    ASSUME NEW e, e # "nil", NEW a \in Fails(e)
    PROVE  Errs(a)
BY AnswerFact DEF Fails, Errs

\* The two ways a table is read keep absent and failed apart.
LEMMA ReadFact ==
    ASSUME NEW said \in {"present", "absent", "failed", "unsupported", "nouser", "invalid"}
    PROVE  /\ \A a \in Read(said) : Learned(a, said)
           /\ \A a \in ThreeWay(said) : Learned(a, said)
<1>1. ASSUME NEW a \in Read(said) PROVE Learned(a, said)
  <2>1. CASE said = "present"
    <3>1. a = R(TRUE, "nil")
        BY <2>1 DEF Read
    <3>2. QED
        BY <2>1, <3>1, AnswerFact DEF Learned
  <2>2. CASE said # "present"
    <3>1. a = R(FALSE, said)
        BY <2>2 DEF Read
    <3>2. QED
        BY <3>1, AnswerFact DEF Learned
  <2>3. QED
    BY <2>1, <2>2
<1>2. ASSUME NEW a \in ThreeWay(said) PROVE Learned(a, said)
  <2>1. CASE said = "present"
    <3>1. a = R(TRUE, "nil")
        BY <2>1 DEF ThreeWay
    <3>2. QED
        BY <2>1, <3>1, AnswerFact DEF Learned
  <2>2. CASE said = "absent"
    <3>1. a = R(FALSE, "nil")
        BY <2>2 DEF ThreeWay
    <3>2. QED
        BY <2>2, <3>1, AnswerFact DEF Learned
  <2>3. CASE said \notin {"present", "absent"}
    <3>1. a = R(FALSE, said)
        BY <2>3 DEF ThreeWay
    <3>2. QED
        BY <3>1, AnswerFact DEF Learned
  <2>4. QED
    BY <2>1, <2>2, <2>3
<1>3. QED
    BY <1>1, <1>2

\* What a table that was asked whether something exists, or for an attribute
\* of it, makes of what it was told.
LEMMA TableFact ==
    ASSUME NEW b \in Tables, NEW said \in Says(b), NEW os,
           NEW a \in TableExists(b, os, said) \cup TableAttribute(b, os, said)
    PROVE  /\ a = R(FALSE, "nil") /\ b \notin {"addr", "kernelparam"} => said = "absent"
           /\ a = R(TRUE, "nil") => said = "present"
<1>0. said \in {"present", "absent", "failed", "unsupported", "nouser", "invalid"}
    BY DEF Says, realPathSays, parseRegistryKey
<1>1. ASSUME NEW e \in {"atoi", "groupfile", "passwd", "addrs", "nolink", "open", "nulldacl",
                         "acetype", "valuetype", "unsupported"},
             NEW x \in Fails(e)
      PROVE  Learned(x, said)
    BY <1>1, FailsFact DEF Errs, Learned
<1>2. ASSUME Learned(a, said)
      PROVE  /\ a = R(FALSE, "nil") /\ b \notin {"addr", "kernelparam"} => said = "absent"
             /\ a = R(TRUE, "nil") => said = "present"
    BY <1>2 DEF Learned
<1>3. CASE b = "user"
  <2>1. a \in ThreeWay(said) \cup Read(said) \cup Fails("atoi") \cup Fails("groupfile")
               \cup Fails("passwd") \cup Fails("unsupported")
    BY <1>3 DEF TableExists, TableAttribute, userExists, userIds, userGroups, userShell, Unsupported
  <2>2. QED
    BY <1>0, <1>1, <1>2, <2>1, ReadFact
<1>4. CASE b = "group"
  <2>1. a \in ThreeWay(said) \cup Read(said) \cup Fails("atoi")
    BY <1>4 DEF TableExists, TableAttribute, groupExists, groupId
  <2>2. QED
    BY <1>0, <1>1, <1>2, <2>1, ReadFact
<1>5. CASE b = "interface"
  <2>1. a \in ThreeWay(said) \cup Read(said) \cup Fails("addrs")
    BY <1>5 DEF TableExists, TableAttribute, interfaceExists, interfaceAttribute
  <2>2. QED
    BY <1>0, <1>1, <1>2, <2>1, ReadFact
<1>6. CASE b = "registry"
  <2>1. a \in ThreeWay(said) \cup Read(said) \cup Fails("valuetype") \cup Fails("unsupported")
    BY <1>6 DEF TableExists, TableAttribute, registryExists, registryValue, Unsupported
  <2>2. QED
    BY <1>0, <1>1, <1>2, <2>1, ReadFact
<1>7. CASE b = "file"
  <2>1. \/ a \in ThreeWay(said) \cup Read(said) \cup Fails("nolink") \cup Fails("open")
                  \cup Fails("nulldacl") \cup Fails("acetype") \cup Fails("unsupported")
        \/ a = R(TRUE, "failed")
    BY <1>7 DEF TableExists, TableAttribute, fileExists, fileStat, fileRead, fileOwnership,
        fileAcl, Unsupported
  <2>2. a = R(TRUE, "failed") => Learned(a, said)
    BY AnswerFact DEF Learned
  <2>3. QED
    BY <1>0, <1>1, <1>2, <2>1, <2>2, ReadFact
<1>8. CASE b \in {"addr", "kernelparam"}
  <2>1. a \in Read(said) \cup Fails("unsupported") \cup {R(said = "present", "nil")}
    BY <1>8 DEF TableExists, TableAttribute, Reachable, kernelParamExists, kernelParamValue,
        Unsupported
  <2>2. a = R(said = "present", "nil") /\ a = R(TRUE, "nil") => said = "present"
    BY AnswerFact
  <2>3. QED
    BY <1>0, <1>1, <1>2, <1>8, <2>1, <2>2, ReadFact
<1>9. QED
    BY <1>3, <1>4, <1>5, <1>6, <1>7, <1>8, BackendsAssumption

\* The Service Control Manager: a service that could not be opened is neither
\* stopped nor running, and only Exists takes "no such service" for a no.
LEMMA SCMFact ==
    ASSUME NEW g, NEW h \in handles, NEW a \in SCMAnswers(g, h)
    PROVE  /\ a = R(FALSE, "nil") => h = IF g = "Exists" THEN "notfound" ELSE "open"
           /\ a = R(TRUE, "nil") => h = "open"
<1>1. CASE g = "Exists"
  <2>1. CASE h = "open"
    <3>1. a = R(TRUE, "nil")
        BY <1>1, <2>1 DEF SCMAnswers, scmExists
    <3>2. QED
        BY <2>1, <3>1, AnswerFact
  <2>2. CASE h = "notfound"
    <3>1. a = R(FALSE, "nil")
        BY <1>1, <2>2 DEF SCMAnswers, scmExists
    <3>2. QED
        BY <1>1, <2>2, <3>1, AnswerFact
  <2>3. CASE h = "scm"
    <3>1. a = R(FALSE, "scm")
        BY <1>1, <2>3 DEF SCMAnswers, scmExists
    <3>2. QED
        BY <3>1, AnswerFact
  <2>4. QED
    BY <2>1, <2>2, <2>3 DEF handles
<1>2. CASE g # "Exists"
  <2>1. h = "open" \/ a \in Fails(h) \cup Fails("unsupported")
    BY <1>2 DEF SCMAnswers, scmEnabled, scmRunning, scmAttribute, withConfig, Unsupported
  <2>2. h # "open" => Errs(a)
    BY <2>1, FailsFact DEF handles
  <2>3. QED
    BY <1>2, <2>2 DEF Errs
<1>3. QED
    BY <1>1, <1>2

-----------------------------------------------------------------------------
(* The inductive invariant of a getter *)

\* A getter runs a subprocess exactly when it is one that asks a helper, and
\* replies once that has returned; the fallback is legacy systemd's alone.
GetterInv ==
    /\ kind = "helper" <=> AsksHelper
    /\ kind = "command" => reply = R(TRUE, "command")
    /\ kind # "command" /\ reply # NoReply => pc = "done"
    /\ fallback => AsksHelper /\ Legacy /\ getter = "Running"

HostInv == RunInv /\ GetterInv /\ RepliesAreLearned

\* Only the service and package backends and getent run a helper.
LEMMA HelperFact ==
    ASSUME backend \in Tables \cup {"windows", "null"}
    PROVE  ~AsksHelper /\ ~invalidService
BY BackendsAssumption DEF AsksHelper, invalidService, HelperGetters, RefusesSlash

\* No reply, and the attributes of a command, are not answers.
LEMMA NoReplyFact == NoReply # R(FALSE, "nil") /\ NoReply # R(TRUE, "nil") /\ NoReply # R(TRUE, "command")
                     /\ R(TRUE, "command") # R(FALSE, "nil") /\ R(TRUE, "command") # R(TRUE, "nil")
<1>1. NoReply = R(FALSE, "pending")
    BY DEF NoReply, R
<1>2. QED
    BY <1>1, AnswerFact

\* A check that has asked nothing yet satisfies HostInv.
LEMMA HostInitInv == HostInit \/ CommandInit => HostInv
<1>1. ASSUME HostInit PROVE HostInv
  <2>1. Unstarted
    BY <1>1 DEF HostInit, Unstarted
  <2>2. GetterInv
    BY <1>1 DEF HostInit, GetterInv
  <2>3. RepliesAreLearned
    BY <1>1, NoReplyFact DEF HostInit, RepliesAreLearned
  <2>4. QED
    BY <2>1, <2>2, <2>3, FreshInv DEF HostInv
<1>2. ASSUME CommandInit PROVE HostInv
  <2>1. Unstarted
    BY <1>2 DEF CommandInit, Unstarted
  <2>2. ~AsksHelper
    BY <1>2, BackendsAssumption DEF CommandInit, AsksHelper, HelperGetters
  <2>3. reply = R(TRUE, "command")
    BY <1>2 DEF CommandInit, R
  <2>4. GetterInv
    BY <1>2, <2>2, <2>3 DEF CommandInit, GetterInv
  <2>5. RepliesAreLearned
    BY <2>3, NoReplyFact DEF RepliesAreLearned
  <2>6. QED
    BY <2>1, <2>4, <2>5, FreshInv DEF HostInv
<1>3. QED
    BY <1>1, <1>2

\* Once Run has returned to its caller, nothing about the child or the context
\* changes any more.
LEMMA DoneStable == ASSUME RunInv, RunNext, pc = "done" PROVE UNCHANGED <<pc, child, ctx>>
BY DEF RunInv, ProcessInv, RunNext, Run, Processes, Configure, Start, Attach, MarkAttached,
    StartFails, IODone, WaitDelayExpires, Reap, Answer, ChildExits, ChildForks,
    GrandchildEnds, CallerCancels, DeadlineExpires, WatchCtx, Tick, procVars

\* No step of the subprocess changes what is run, or where.
LEMMA KindStable == ASSUME RunNext PROVE UNCHANGED <<kind, goos>>
BY DEF RunNext, Run, Processes, Configure, Start, Attach, MarkAttached, StartFails, IODone,
    WaitDelayExpires, Reap, Answer, ChildExits, ChildForks, GrandchildEnds,
    CallerCancels, DeadlineExpires, WatchCtx, Tick

\* The subprocess of a getter that waits for it keeps HostInv.
LEMMA RunHostInv == ASSUME HostInv, RunNext, UNCHANGED hostVars PROVE HostInv'
<1>1. RunInv'
    BY RunStep DEF HostInv
<1>2. AsksHelper' = AsksHelper /\ Legacy' = Legacy
    BY DEF hostVars, AsksHelper, invalidService, Legacy
<1>3. GetterInv'
    BY <1>2, KindStable, DoneStable DEF HostInv, GetterInv, hostVars
<1>4. RepliesAreLearned'
  <2>1. CASE AsksHelper /\ reply # NoReply
    <3>1. pc = "done"
        BY <2>1 DEF HostInv, GetterInv
    <3>2. UNCHANGED <<child, ctx>>
        BY <3>1, DoneStable DEF HostInv
    <3>3. QED
        BY <1>2, <3>2, Zenon DEF HostInv, RepliesAreLearned, MissingBinary, hostVars
  <2>2. CASE ~AsksHelper
    BY <1>2, <2>2, Zenon DEF HostInv, RepliesAreLearned, hostVars
  <2>3. CASE reply = NoReply
    BY <2>3, NoReplyFact DEF RepliesAreLearned, hostVars
  <2>4. QED
    BY <2>1, <2>2, <2>3
<1>5. QED
    BY <1>1, <1>3, <1>4 DEF HostInv

\* A reply leaves the subprocess alone; what is left to show of it is that it
\* was learned.
LEMMA ReplyInv ==
    ASSUME HostInv, Pending, NEW answers, Reply(answers), UNCHANGED runVars
    PROVE  /\ RunInv' /\ GetterInv'
           /\ AsksHelper' = AsksHelper /\ Legacy' = Legacy
           /\ UNCHANGED <<backend, getter, fallback, child, ctx>>
<1>1. AsksHelper' = AsksHelper /\ Legacy' = Legacy
    BY DEF Reply, AsksHelper, invalidService, Legacy
<1>2. UNCHANGED <<backend, getter, fallback, child, ctx, kind, pc>>
    BY DEF Reply, runVars, procVars
<1>3. RunInv'
    BY DEF HostInv, RunInv, RunTypeOK, JobInv, ProcessInv, ResultInv, ClockInv, runVars, procVars,
        setup, runHelperCommand, Status, budget, waitDelay
<1>4. kind # "command"
    BY NoReplyFact DEF HostInv, GetterInv, Pending
<1>5. GetterInv'
    BY <1>1, <1>2, <1>4 DEF HostInv, GetterInv, Pending
<1>6. QED
    BY <1>1, <1>2, <1>3, <1>5

\* A helper that has returned: its caller was told why it did not finish, if it
\* did not, and no error of Run means that it exited 0.
LEMMA HelperDone ==
    ASSUME HostInv, Pending, AsksHelper
    PROVE  /\ answer.err = runHelperCommand
           /\ runErr = "nil" => child = "exit0"
           /\ child # "running"
           /\ child = "none" => runErr # "nil" /\ answer.status = 0
<1>1. kind = "helper" /\ pc = "done"
    BY DEF HostInv, GetterInv, Pending
<1>2. answer.err = runHelperCommand
    BY <1>1 DEF HostInv, RunInv, ResultInv
<1>3. runErr = "nil" => child = "exit0"
    BY <1>1 DEF HostInv, RunInv, ResultInv, ProcessInv, RunTypeOK
<1>4. child # "running"
    BY <1>1 DEF HostInv, RunInv, ProcessInv
<1>5. child = "none" => runErr \in {"lookpath", "ctx"}
    BY <1>1 DEF HostInv, RunInv, ResultInv
<1>6. answer.status = Status
    BY <1>1 DEF HostInv, RunInv, ResultInv
<1>7. runErr \in {"lookpath", "ctx"} => Status = 0
    BY DEF Status
<1>8. QED
    BY <1>2, <1>3, <1>4, <1>5, <1>6, <1>7

\* A yes is no no.
LEMMA YesNoFact ==
    ASSUME NEW a, a = R(TRUE, "nil"), NEW e PROVE a # R(FALSE, e)
<1>1. SUFFICES ASSUME R(TRUE, "nil") = R(FALSE, e) PROVE FALSE
    OBVIOUS
<1>2. TRUE = FALSE
    BY <1>1, AnswerFact, Zenon
<1>3. QED
    BY <1>2

\* A yes that carries the helper's error carries none.
LEMMA YesErrFact ==
    ASSUME NEW a, a = R(TRUE, "nil"), a \in {R(TRUE, CmdErr), R(FALSE, "nil")}
    PROVE  runErr = "nil"
<1>1. a # R(FALSE, "nil")
    BY YesNoFact
<1>2. R(TRUE, CmdErr) = R(TRUE, "nil")
    BY <1>1
<1>3. CmdErr = "nil"
    BY <1>2, AnswerFact
<1>4. QED
    BY <1>3 DEF CmdErr

\* A yes of a package manager rests on its exit status.
LEMMA InstalledFact ==
    ASSUME backend \in PackageBackends \ {"null"}, NEW a \in Installed, a = R(TRUE, "nil")
    PROVE  runErr = "nil"
<1> SUFFICES ASSUME runErr # "nil" PROVE a = R(FALSE, "nil")
    BY YesNoFact
<1>1. CASE backend = "dpkg"
  <2>1. Installed = dpkgSetup
    BY <1>1 DEF Installed
  <2>2. QED
    BY <2>1 DEF dpkgSetup
<1>2. CASE backend = "apk"
  <2>1. Installed = apkSetup
    BY <1>2 DEF Installed
  <2>2. QED
    BY <2>1 DEF apkSetup
<1>3. CASE backend = "rpm"
  <2>1. Installed = rpmSetup
    BY <1>3 DEF Installed
  <2>2. (runErr = "nil") = FALSE
    OBVIOUS
  <2>3. QED
    BY <2>1, <2>2, Zenon DEF rpmSetup
<1>4. CASE backend = "pacman"
  <2>1. Installed = pacmanSetup
    BY <1>4 DEF Installed
  <2>2. QED
    BY <2>1 DEF pacmanSetup
<1>5. QED
    BY <1>1, <1>2, <1>3, <1>4, BackendsAssumption

\* Which reply goes with which getter.
LEMMA HelperAnswersFact ==
    ASSUME AsksHelper
    PROVE  /\ getter = "Installed" => HelperAnswers = Installed
           /\ getter = "Versions" => HelperAnswers = Versions
           /\ getter = "Owner" => HelperAnswers = getUserForUid
           /\ getter = "Exists" => HelperAnswers = systemdExists
           /\ getter = "Enabled" => HelperAnswers = systemdEnabled
           /\ getter = "Masked" => HelperAnswers = systemdMasked
           /\ getter \notin {"Installed", "Versions", "Owner", "Exists", "Enabled", "Masked"} =>
                HelperAnswers \in {initRunning, upstartRunning, systemdRunning}
<1>0. getter # "Running" => backend \notin {"init", "upstart"}
    BY BackendsAssumption DEF AsksHelper, HelperGetters
<1>1. CASE getter = "Installed"
    BY <1>0, <1>1 DEF HelperAnswers
<1>2. CASE getter = "Versions"
    BY <1>0, <1>2 DEF HelperAnswers
<1>3. CASE getter = "Owner"
    BY <1>0, <1>3 DEF HelperAnswers
<1>4. CASE getter = "Exists"
    BY <1>0, <1>4 DEF HelperAnswers
<1>5. CASE getter = "Enabled"
    BY <1>0, <1>5 DEF HelperAnswers
<1>6. CASE getter = "Masked"
    BY <1>0, <1>6 DEF HelperAnswers
<1>7. CASE getter \notin {"Installed", "Versions", "Owner", "Exists", "Enabled", "Masked"}
    BY <1>7 DEF HelperAnswers
<1>8. QED
    BY <1>1, <1>2, <1>3, <1>4, <1>5, <1>6, <1>7

\* A yes of any getter that asks a helper rests on the helper's exit status,
\* or on the files that legacy systemd reads when the helper says no.
LEMMA YesFact ==
    ASSUME AsksHelper, NEW a \in HelperAnswers, a = R(TRUE, "nil")
    PROVE  runErr = "nil" \/ (Legacy /\ getter \in {"Exists", "Enabled"})
<1>1. CASE getter \in {"Installed", "Versions"}
  <2>1. backend \in PackageBackends \ {"null"}
    BY <1>1, BackendsAssumption DEF AsksHelper, HelperGetters
  <2>2. CASE getter = "Installed"
    BY <2>1, <2>2, HelperAnswersFact, InstalledFact
  <2>3. CASE getter = "Versions"
    <3>1. a \in Versions
        BY <2>3, HelperAnswersFact
    <3>2. PICK b \in Installed : a = IF b = R(FALSE, "nil") THEN R(FALSE, "noversion") ELSE b
        BY <3>1, Zenon DEF Versions
    <3>3. a # R(FALSE, "noversion")
        BY YesNoFact
    <3>4. a = b
        BY <3>2, <3>3, Zenon
    <3>5. QED
        BY <2>1, <3>4, InstalledFact
  <2>4. QED
    BY <1>1, <2>2, <2>3
<1>2. CASE getter = "Owner"
  <2>1. a = R(runErr = "nil", runErr)
    BY <1>2, HelperAnswersFact, Zenon DEF getUserForUid
  <2>2. R(runErr = "nil", runErr) = R(TRUE, "nil")
    BY <2>1, Zenon
  <2>3. QED
    BY <2>2, AnswerFact, Zenon
<1>3. CASE getter \in {"Exists", "Enabled"} /\ ~Legacy
  <2>1. CASE getter = "Exists"
    <3>1. a \in systemdExists
        BY <2>1, HelperAnswersFact
    <3>2. a \in {R(TRUE, CmdErr), R(FALSE, "nil")}
        BY <1>3, <3>1 DEF systemdExists
    <3>3. QED
        BY <3>2, YesErrFact
  <2>2. CASE getter = "Enabled"
    <3>1. a \in systemdEnabled
        BY <2>2, HelperAnswersFact
    <3>2. a \in {R(TRUE, CmdErr), R(FALSE, "nil")}
        BY <1>3, <3>1 DEF systemdEnabled
    <3>3. QED
        BY <3>2, YesErrFact
  <2>3. QED
    BY <1>3, <2>1, <2>2
<1>4. CASE getter = "Masked"
  <2>1. a \in systemdMasked
    BY <1>4, HelperAnswersFact
  <2>2. runErr # "nil" => a = R(FALSE, runErr)
    BY <2>1 DEF systemdMasked, Fails
  <2>3. QED
    BY <2>2, YesNoFact
<1>5. CASE getter \notin {"Installed", "Versions", "Owner", "Exists", "Enabled", "Masked"}
  <2>1. a \in initRunning \cup upstartRunning \cup systemdRunning
    BY <1>5, HelperAnswersFact
  <2>2. a \in {R(TRUE, CmdErr), R(FALSE, "nil")}
    BY <2>1 DEF initRunning, upstartRunning, systemdRunning
  <2>3. QED
    BY <2>2, YesErrFact
<1>6. QED
    BY <1>1, <1>2, <1>3, <1>4, <1>5

\* A no is no failure, and no yes.
LEMMA NoErrFact ==
    ASSUME NEW e, e # "nil" PROVE R(FALSE, e) # R(FALSE, "nil") /\ R(TRUE, e) # R(FALSE, "nil")
<1>1. R(FALSE, e) # R(FALSE, "nil")
    BY AnswerFact
<1>2. R(TRUE, e) # R(FALSE, "nil")
    BY AnswerFact
<1>3. QED
    BY <1>1, <1>2

\* A no of a helper that never started is one of the three that are assumed: the
\* others carry its error.
LEMMA NoFact ==
    ASSUME AsksHelper, NEW a \in HelperAnswers, a = R(FALSE, "nil"),
           child = "none", runErr # "nil", answer.status = 0
    PROVE  MissingBinary
<1>1. R(FALSE, runErr) # R(FALSE, "nil") /\ R(TRUE, runErr) # R(FALSE, "nil")
    BY NoErrFact
<1>2. CASE getter = "Versions"
  <2>1. PICK b \in Installed : a = IF b = R(FALSE, "nil") THEN R(FALSE, "noversion") ELSE b
    BY <1>2, HelperAnswersFact, Zenon DEF Versions
  <2>2. R(FALSE, "noversion") # R(FALSE, "nil")
    BY NoErrFact
  <2>3. QED
    BY <2>1, <2>2, Zenon
<1>3. CASE getter = "Owner"
  <2>1. a = R(runErr = "nil", runErr)
    BY <1>3, HelperAnswersFact, Zenon DEF getUserForUid
  <2>2. runErr = "nil"
    BY <2>1, AnswerFact
  <2>3. QED
    BY <2>2
<1>4. CASE getter = "Enabled"
    BY <1>1, <1>4, HelperAnswersFact DEF systemdEnabled, CmdErr
<1>5. CASE getter = "Masked"
    BY <1>1, <1>5, HelperAnswersFact DEF systemdMasked, Fails
<1>6. CASE getter \notin {"Installed", "Versions", "Owner", "Exists", "Enabled", "Masked"} /\ backend # "upstart"
  <2>1. a \in initRunning \cup systemdRunning
    BY <1>6, HelperAnswersFact DEF HelperAnswers
  <2>2. a = R(TRUE, runErr)
    BY <2>1 DEF initRunning, systemdRunning, CmdErr
  <2>3. QED
    BY <1>1, <2>2
<1>7. QED
    BY <1>2, <1>3, <1>4, <1>5, <1>6 DEF MissingBinary

-----------------------------------------------------------------------------
(* The getters *)

\* Every reply, and the fallback, keeps HostInv.
LEMMA GetterStepInv == ASSUME HostInv, GetterStep PROVE HostInv'
<1>1. CASE ReplyInvalid
  <2>1. Pending /\ Reply({R(FALSE, "nil")}) /\ UNCHANGED runVars /\ invalidService
    BY <1>1 DEF ReplyInvalid
  <2>2. ~AsksHelper /\ backend \notin Tables \cup {"windows"}
    BY <2>1, HelperFact DEF AsksHelper
  <2>3. reply' = R(FALSE, "nil") /\ reply' # R(TRUE, "nil")
    BY <2>1, AnswerFact DEF Reply
  <2>4. QED
    BY <2>1, <2>2, <2>3, ReplyInv DEF HostInv, RepliesAreLearned
<1>2. CASE ReplyFromFiles
  <2>1. /\ Pending /\ Reply(ServiceAnswers(backend, getter)) /\ UNCHANGED runVars
        /\ ~AsksHelper /\ backend \in Services
    BY <1>2 DEF ReplyFromFiles
  <2>2. backend \notin Tables \cup {"windows"}
    BY <2>1, BackendsAssumption DEF Services
  <2>3. QED
    BY <2>1, <2>2, ReplyInv DEF HostInv, RepliesAreLearned
<1>3. CASE ReplyFromSCM
  <2>1. /\ Pending /\ Reply(SCMAnswers(getter, heard')) /\ UNCHANGED runVars
        /\ heard' \in handles /\ backend = "windows"
    BY <1>3 DEF ReplyFromSCM
  <2>2. ~AsksHelper /\ backend \notin Tables
    BY <2>1, HelperFact, BackendsAssumption
  <2>3. /\ reply' = R(FALSE, "nil") => heard' = IF getter = "Exists" THEN "notfound" ELSE "open"
        /\ reply' = R(TRUE, "nil") => heard' = "open"
    BY <2>1, SCMFact DEF Reply
  <2>4. QED
    BY <2>1, <2>2, <2>3, ReplyInv DEF HostInv, RepliesAreLearned
<1>4. CASE ReplyNull
  <2>1. Pending /\ Reply(Fails("null")) /\ UNCHANGED runVars
    BY <1>4 DEF ReplyNull
  <2>2. Errs(reply')
    BY <2>1, FailsFact DEF Reply
  <2>3. QED
    BY <2>1, <2>2, ReplyInv DEF HostInv, RepliesAreLearned, Errs
<1>5. CASE ReplyFromTable
  <2>1. PICK answers : /\ Pending /\ Reply(answers) /\ UNCHANGED runVars
                       /\ answers = IF getter = "Exists" THEN TableExists(backend, goos, heard')
                                    ELSE TableAttribute(backend, goos, heard')
                       /\ heard' \in Says(backend) /\ backend \in Tables
    BY <1>5 DEF ReplyFromTable
  <2>2. ~AsksHelper /\ backend # "windows"
    BY <2>1, HelperFact, BackendsAssumption
  <2>3. reply' \in TableExists(backend, goos, heard') \cup TableAttribute(backend, goos, heard')
    BY <2>1 DEF Reply
  <2>4. /\ reply' = R(FALSE, "nil") /\ backend \notin {"addr", "kernelparam"} => heard' = "absent"
        /\ reply' = R(TRUE, "nil") => heard' = "present"
    BY <2>1, <2>3, TableFact
  <2>5. QED
    BY <2>1, <2>2, <2>4, ReplyInv DEF HostInv, RepliesAreLearned
<1>6. CASE ReplyUnfinished
  <2>1. Pending /\ Reply(Fails(answer.err)) /\ UNCHANGED runVars /\ answer.err # "nil"
    BY <1>6 DEF ReplyUnfinished
  <2>2. Errs(reply')
    BY <2>1, FailsFact DEF Reply
  <2>3. QED
    BY <2>1, <2>2, ReplyInv DEF HostInv, RepliesAreLearned, Errs
<1>7. CASE ReplyFinished
  <2>1. Pending /\ Reply(HelperAnswers) /\ UNCHANGED runVars /\ answer.err = "nil" /\ AsksHelper
    BY <1>7 DEF ReplyFinished, Finished
  <2>2. backend \notin Tables \cup {"windows"}
    BY <2>1, HelperFact
  <2>3. ctx = "live"
    BY <2>1, HelperDone DEF runHelperCommand, HostInv, RunInv, RunTypeOK
  <2>4. reply' = R(TRUE, "nil") => child = "exit0" \/ (Legacy /\ getter \in {"Exists", "Enabled"})
    BY <2>1, YesFact, HelperDone DEF Reply
  <2>5. child \in {"none", "exit0", "exit1"}
    BY <2>1, <2>3, HelperDone DEF HostInv, RunInv, RunTypeOK, ProcessInv
  <2>6. reply' = R(FALSE, "nil") => child \in {"exit0", "exit1"} \/ MissingBinary
    BY <2>1, <2>5, NoFact, HelperDone DEF Reply
  <2>7. UNCHANGED <<child, ctx, getter, backend>>
    BY <2>1 DEF Reply, runVars, procVars
  <2>8. MissingBinary' = MissingBinary
    BY <2>7 DEF MissingBinary
  <2>9. QED
    BY <2>1, <2>2, <2>3, <2>4, <2>6, <2>7, <2>8, ReplyInv DEF HostInv, RepliesAreLearned
<1>8. CASE FallBack
  <2>1. /\ Pending /\ AsksHelper /\ Legacy /\ getter = "Running" /\ fallback' = TRUE /\ Again
        /\ UNCHANGED <<backend, getter, slashed, reply>>
    BY <1>8 DEF FallBack, Finished, NeedsFallback
  <2>2. kind = "helper" /\ kind' = kind
    BY <2>1 DEF HostInv, GetterInv, Again
  <2>3. RunInv'
    BY <2>1, <2>2, AgainInv DEF HostInv
  <2>4. AsksHelper' /\ Legacy' /\ reply' = NoReply
    BY <2>1 DEF AsksHelper, invalidService, Legacy, Pending
  <2>5. GetterInv'
    BY <2>1, <2>2, <2>4 DEF GetterInv
  <2>6. RepliesAreLearned'
    BY <2>4, NoReplyFact DEF RepliesAreLearned
  <2>7. QED
    BY <2>3, <2>5, <2>6 DEF HostInv
<1>9. CASE ReplyByFallback
  <2> DEFINE source == IF answer.err # "nil" THEN Fails(answer.err) ELSE initRunning
  <2>1. Pending /\ Reply(sysv(source)) /\ UNCHANGED runVars /\ fallback
    BY <1>9 DEF ReplyByFallback
  <2>2. AsksHelper /\ Legacy
    BY <2>1 DEF HostInv, GetterInv
  <2>3. backend \notin Tables \cup {"windows"}
    BY <2>2, HelperFact
  <2>4. ASSUME reply' = R(TRUE, "nil") PROVE runErr = "nil"
    <3>1. PICK a \in source : reply' = R(a.val /\ a.err = "nil", "nil")
        BY <2>1 DEF Reply, sysv
    <3>2. a.val /\ a.err = "nil"
        BY <2>4, <3>1, AnswerFact
    <3>3. a \in {R(TRUE, CmdErr), R(FALSE, "nil")} \cup Fails(answer.err)
        BY DEF initRunning
    <3>4. a # R(FALSE, "nil") /\ a # R(FALSE, answer.err)
        BY <3>2 DEF R
    <3>5. a = R(TRUE, CmdErr)
        BY <3>3, <3>4 DEF Fails
    <3>6. QED
        BY <3>2, <3>5 DEF R, CmdErr
  <2>5. reply' = R(TRUE, "nil") => child = "exit0"
    BY <2>1, <2>2, <2>4, HelperDone
  <2>6. QED
    BY <2>1, <2>2, <2>3, <2>5, ReplyInv DEF HostInv, RepliesAreLearned
<1>10. QED
    BY <1>1, <1>2, <1>3, <1>4, <1>5, <1>6, <1>7, <1>8, <1>9 DEF GetterStep

\* Every step of a check and its subprocess keeps HostInv.
LEMMA HostNextInv == HostInv /\ [HostNext]_<<runVars, hostVars>> => HostInv'
<1> SUFFICES ASSUME HostInv, [HostNext]_<<runVars, hostVars>> PROVE HostInv'
    OBVIOUS
<1>1. CASE GetterStep
    BY <1>1, GetterStepInv
<1>2. CASE RunNext /\ UNCHANGED hostVars
    BY <1>2, RunHostInv
<1>3. CASE UNCHANGED <<runVars, hostVars>>
  <2>1. UNCHANGED runVars /\ UNCHANGED hostVars
    BY <1>3
  <2>2. RunInv'
    BY <2>1 DEF HostInv, RunInv, RunTypeOK, JobInv, ProcessInv, ResultInv, ClockInv, runVars,
        procVars, setup, runHelperCommand, Status, budget, waitDelay
  <2>3. AsksHelper' = AsksHelper /\ Legacy' = Legacy
    BY <2>1 DEF hostVars, AsksHelper, invalidService, Legacy
  <2>4. UNCHANGED <<pc, kind, goos, child, ctx>>
    BY <2>1 DEF runVars, procVars
  <2>5. GetterInv'
    BY <2>1, <2>3, <2>4 DEF HostInv, GetterInv, hostVars
  <2>6. RepliesAreLearned'
    BY <2>1, <2>3, <2>4, Zenon DEF HostInv, RepliesAreLearned, MissingBinary, hostVars
  <2>7. QED
    BY <2>2, <2>5, <2>6 DEF HostInv
<1>4. QED
    BY <1>1, <1>2, <1>3 DEF HostNext

-----------------------------------------------------------------------------
(* What a subprocess and its getter promise *)

\* A check and its subprocess only reach states of HostInv.
THEOREM InvCorrect == HostSpec => []HostInv
BY HostInitInv, HostNextInv, PTL DEF HostSpec

\* Every subprocess stays within its types.
THEOREM TypeCorrect == HostSpec => []RunTypeOK
<1>1. HostInv => RunTypeOK
    BY DEF HostInv, RunInv
<1>2. QED
    BY <1>1, InvCorrect, PTL

\* Whatever the timeouts are, a subprocess costs at most its timeout and its
\* wait delay, even when a grandchild never lets go of the pipe.
THEOREM BoundedCorrect == HostSpec => []BoundedReturn
<1>1. HostInv => BoundedReturn
    BY TimingAssumption DEF HostInv, RunInv, RunTypeOK, ClockInv, BoundedReturn, budget, waitDelay
<1>2. QED
    BY <1>1, InvCorrect, PTL

\* A clean answer is of a child that ended by itself, with its whole output.
THEOREM CleanCorrect == HostSpec => []CleanIsReal
<1>1. HostInv => CleanIsReal
  <2> SUFFICES ASSUME HostInv, pc = "done", kind = "command", answer.err = "nil"
               PROVE  \/ child = "exit0" /\ answer.status = 0 /\ ~truncated
                      \/ child = "exit1" /\ answer.status = 1
    BY DEF CleanIsReal
  <2> USE DEF HostInv, RunInv, RunTypeOK, ProcessInv, ResultInv
  <2>1. setup = "nil" /\ answer.status = Status
    OBVIOUS
  <2>2. ctx = "live" /\ runErr \in {"nil", "exit"}
    BY <2>1 DEF setup
  <2>3. child \in {"exit0", "exit1"}
    BY <2>2
  <2>4. QED
    BY <2>1, <2>2, <2>3 DEF Status
<1>2. QED
    BY <1>1, InvCorrect, PTL

\* A kill reaches the whole group or job, and nothing else.
THEOREM KillsCorrect == HostSpec => []KillsExactly
<1>1. HostInv => KillsExactly
  <2> SUFFICES ASSUME HostInv PROVE KillsExactly
    OBVIOUS
  <2> USE DEF HostInv, RunInv, RunTypeOK, ProcessInv, ResultInv
  <2>1. ASSUME pc = "done", answer.err = "nil" PROVE ctx = "live"
    <3>1. kind # "none"
        BY <2>1 DEF NoAnswer
    <3>2. QED
        BY <2>1, <3>1 DEF setup, runHelperCommand
  <2>2. QED
    BY <2>1 DEF KillsExactly
<1>2. QED
    BY <1>1, InvCorrect, PTL

\* The job's handle is closed once on every path out of Run.
THEOREM HandleCorrect == HostSpec => []HandleClosedOnce
<1>1. HostInv => HandleClosedOnce
    BY DEF HostInv, RunInv, RunTypeOK, JobInv, HandleClosedOnce
<1>2. QED
    BY <1>1, InvCorrect, PTL

\* A negative reply without an error comes from a helper that ran to its own end
\* in time, or could not be started where that is taken for absence; a positive
\* one from a helper that exited 0.
THEOREM RepliesCorrect == HostSpec => []RepliesAreLearned
<1>1. HostInv => RepliesAreLearned
    BY DEF HostInv
<1>2. QED
    BY <1>1, InvCorrect, PTL

=============================================================================
