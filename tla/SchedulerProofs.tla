--------------------------- MODULE SchedulerProofs ---------------------------
(***************************************************************************)
(* Theorems about Scheduler, for every number of resources, every acyclic  *)
(* set of schedules and every number of workers.                           *)
(***************************************************************************)
EXTENDS Scheduler, WellFoundedInduction, TLAPS

-----------------------------------------------------------------------------
(* The constants *)

\* workerCount never returns less than one worker.
LEMMA WorkersFact == 1 \in Workers /\ NoWorker \notin Workers /\ Workers \subseteq Nat
BY WorkerAssumption DEF Workers, NoWorker, workerCount, AtLeast, AtMost

\* Refs are positive numbers, and 0 is no resource.
LEMMA RefsFact == 1 \in Refs /\ 0 \notin Refs /\ Refs \subseteq Nat
BY NAssumption DEF Refs

\* The refs a schedule's dependency lists hold are refs of the schedule.
LEMMA DepsFact ==
    ASSUME NEW d \in Schedules, NEW r \in Refs, NEW k \in DOMAIN d[r]
    PROVE  d[r][k] \in Refs
BY ScheduleAssumption DEF DependencyLists

\* A nonempty set of naturals has a least element.
LEMMA LeastElement ==
    ASSUME NEW S \in SUBSET Nat, S # {}
    PROVE  \E m \in S : \A n \in S : m <= n
<1>1. PICK m \in S : \A n \in S : ~(<<n, m>> \in OpToRel(<, Nat))
    BY NatLessThanWellFounded, WFMin
<1>2. ASSUME NEW n \in S, n < m PROVE <<n, m>> \in OpToRel(<, Nat)
  <2>1. <<n, m>> \in Nat \X Nat
     OBVIOUS
  <2>2. <<n, m>>[1] < <<n, m>>[2]
     BY <1>2
  <2>3. QED
    BY <1>2, <2>1, <2>2, Zenon DEF OpToRel
<1>3. \A n \in S : ~(n < m)
    BY <1>1, <1>2, Zenon
<1>4. QED
    BY <1>3

\* A group sent by a worker carries a skip reason of the right type: none.
LEMMA NoReasonFact == NoReason \in Reasons
BY NAssumption DEF NoReason, Reasons

\* The reason a pass gives for a skip is a skip reason.
LEMMA ReasonFact == ASSUME NEW p \in Refs PROVE ReasonOf(p) \in Reasons
BY NAssumption DEF ReasonOf, Reasons, Refs

-----------------------------------------------------------------------------
(* The inductive invariant *)

\* The locals and maps validateWithDependencies starts with satisfy Inv.
LEMMA InitInv == Init => Inv
<1> SUFFICES ASSUME Init PROVE Inv
    OBVIOUS
<1> USE RefsFact, WorkersFact DEF Init
<1>1. TypeOK
    BY NoReasonFact DEF TypeOK
<1>2. ScanPartition
    BY DEF ScanPartition, Waiting
<1>3. WorkerInv
    BY DEF WorkerInv, Busy
<1>4. DecidedInv
    BY DEF DecidedInv
<1>5. ProgressInv
    BY DEF ProgressInv
<1>6. SkipReasonExact
    BY DEF SkipReasonExact
<1>7. QED
    BY <1>1, <1>2, <1>3, <1>4, <1>5, <1>6 DEF Inv

\* A send on out keeps the types of what the outputer has received.
LEMMA DeliverType ==
    ASSUME delivered \in [Refs -> Nat], reason \in [Refs -> Reasons],
           NEW r \in Refs, NEW why \in Reasons, Deliver(r, why)
    PROVE  delivered' \in [Refs -> Nat] /\ reason' \in [Refs -> Reasons]
BY DEF Deliver

\* Every step of the scheduler, its workers and the outputer keeps the types.
LEMMA NextTypeOK == TypeOK /\ [Next]_vars => TypeOK'
<1> SUFFICES ASSUME TypeOK, [Next]_vars PROVE TypeOK'
    OBVIOUS
<1> USE RefsFact, WorkersFact DEF TypeOK, passVars, stateVars, workerVars, outVars
<1>1. ASSUME NEW r \in Refs, ExamineBlocked(r) PROVE TypeOK'
    BY <1>1 DEF ExamineBlocked
<1>2. ASSUME NEW r \in Refs, ExamineSkip(r) PROVE TypeOK'
  <2>1. PICK k \in DOMAIN deps[r] : Deliver(r, ReasonOf(deps[r][k]))
    BY <1>2 DEF ExamineSkip
  <2>2. deps[r][k] \in Refs
    BY DepsFact
  <2>3. ReasonOf(deps[r][k]) \in Reasons
    BY <2>2, ReasonFact
  <2>4. QED
    BY <1>2, <2>1, <2>3 DEF ExamineSkip, Deliver
<1>3. ASSUME NEW r \in Refs, ExamineRunnable(r) PROVE TypeOK'
    BY <1>3 DEF ExamineRunnable
<1>4. CASE PassAgain
    BY <1>4 DEF PassAgain, LoopOrClose
<1>5. CASE StartWave
    BY <1>5 DEF StartWave
<1>6. CASE EndWave
    BY <1>6 DEF EndWave, LoopOrClose
<1>7. ASSUME NEW w \in Workers, Take(w) PROVE TypeOK'
    BY <1>7 DEF Take, WorkerTo
<1>8. ASSUME NEW w \in Workers, Drained(w) PROVE TypeOK'
    BY <1>8 DEF Drained, WorkerTo
<1>9. ASSUME NEW w \in Workers, Validate(w) PROVE TypeOK'
    BY <1>9 DEF Validate, WorkerTo
<1>10. ASSUME NEW w \in Workers, Lock(w) PROVE TypeOK'
    BY <1>10 DEF Lock, WorkerTo
<1>11. ASSUME NEW w \in Workers, Write(w) PROVE TypeOK'
    BY <1>11 DEF Write, WorkerTo
<1>12. ASSUME NEW w \in Workers, Send(w) PROVE TypeOK'
  <2>1. item[w] \in Refs
    OBVIOUS
  <2>2. delivered' \in [Refs -> Nat] /\ reason' \in [Refs -> Reasons]
    BY <1>12, <2>1, NoReasonFact, DeliverType DEF Send
  <2>3. wpc' \in [Workers -> {"take", "validate", "lock", "write", "send", "exit"}]
    BY <1>12 DEF Send, WorkerTo
  <2>4. QED
    BY <1>12, <2>2, <2>3 DEF Send, Deliver
<1>13. CASE Consume
    BY <1>13 DEF Consume, Render, Finish
<1>14. CASE UNCHANGED vars
    BY <1>14 DEF vars
<1>15. QED
    BY <1>1, <1>2, <1>3, <1>4, <1>5, <1>6, <1>7, <1>8, <1>9, <1>10, <1>11,
       <1>12, <1>13, <1>14 DEF Next, Schedule, Work, Terminated

-----------------------------------------------------------------------------
(* A pass *)

\* Skip reasons stay exact when what they speak of does not change.
LEMMA SkipReasonStable ==
    ASSUME SkipReasonExact, UNCHANGED <<deps, status, completed, reason>>
    PROVE  SkipReasonExact'
<1>1. \A r : \A k : IsSkipReason(r, k)' <=> IsSkipReason(r, k)
    BY DEF IsSkipReason, NotPassed
<1>2. \A p : ReasonOf(p)' = ReasonOf(p)
    BY DEF ReasonOf
<1>3. \A r : Prerequisites(deps, r)' = Prerequisites(deps, r)
    BY DEF Prerequisites
<1>4. QED
    BY <1>1, <1>2, <1>3 DEF SkipReasonExact

\* Leaving an item in nextPending preserves Inv.
LEMMA ExamineBlockedInv ==
    ASSUME Inv, TypeOK', NEW r \in Refs, ExamineBlocked(r)
    PROVE  Inv'
<1> USE DEF ExamineBlocked, First, stateVars, workerVars, outVars
<1>0. /\ TypeOK /\ ScanPartition /\ WorkerInv /\ DecidedInv /\ ProgressInv
      /\ SkipReasonExact /\ r \in scan /\ ~completed[r] /\ pc' = "scan"
      /\ nextPending' = nextPending \cup {r}
    BY DEF Inv, ScanPartition, Waiting
<1>1. ScanPartition'
    BY <1>0 DEF ScanPartition, Waiting, Reported, TypeOK
<1>2. WorkerInv'
    BY <1>0 DEF WorkerInv, Busy
<1>3. DecidedInv'
    BY <1>0 DEF DecidedInv, Ready, Reported
<1>4. ProgressInv'
    BY <1>0 DEF ProgressInv, Ready
<1>5. SkipReasonExact'
    BY <1>0, SkipReasonStable
<1>6. QED
    BY <1>0, <1>1, <1>2, <1>3, <1>4, <1>5 DEF Inv

\* Adding an item whose prerequisites all passed to runnable preserves Inv.
LEMMA ExamineRunnableInv ==
    ASSUME Inv, TypeOK', NEW r \in Refs, ExamineRunnable(r)
    PROVE  Inv'
<1> USE DEF ExamineRunnable, First, stateVars, workerVars, outVars
<1>0. /\ TypeOK /\ ScanPartition /\ WorkerInv /\ DecidedInv /\ ProgressInv
      /\ SkipReasonExact /\ r \in scan /\ pc' = "scan"
    BY DEF Inv
<1>1. ScanPartition'
    BY <1>0 DEF ScanPartition, Waiting, Reported, TypeOK
<1>2. WorkerInv'
    BY <1>0 DEF WorkerInv, Busy
<1>3. DecidedInv'
  <2>1. ASSUME NEW k \in DOMAIN deps[r]
        PROVE  Reported(deps[r][k]) /\ status[deps[r][k]] = SUCCESS
    <3>1. deps[r][k] \in Refs /\ completed[deps[r][k]]
        BY <1>0, DepsFact DEF TypeOK, Ready
    <3>2. Reported(deps[r][k])
        BY <1>0, <3>1 DEF ScanPartition, Waiting
    <3>3. QED
        BY <1>0, <3>1, <3>2 DEF TypeOK, NotPassed
  <2>2. QED
    BY <1>0, <2>1 DEF DecidedInv, Ready, Reported
<1>4. ProgressInv'
    BY <1>0 DEF ProgressInv, Ready
<1>5. SkipReasonExact'
    BY <1>0, SkipReasonStable
<1>6. QED
    BY <1>0, <1>1, <1>2, <1>3, <1>4, <1>5 DEF Inv

\* Skipping an item, its group sent and its maps written, preserves Inv.
LEMMA ExamineSkipInv ==
    ASSUME Inv, TypeOK', NEW r \in Refs, ExamineSkip(r)
    PROVE  Inv'
<1> USE DEF ExamineSkip, First, workerVars
<1>0. /\ TypeOK /\ ScanPartition /\ WorkerInv /\ DecidedInv /\ ProgressInv
      /\ SkipReasonExact /\ r \in scan /\ pc' = "scan"
    BY DEF Inv
<1>k. PICK k \in DOMAIN deps[r] :
         IsSkipReason(r, k) /\ Deliver(r, ReasonOf(deps[r][k]))
    OBVIOUS
<1>s. /\ \A q \in Refs : q # r => /\ status'[q] = status[q]
                                 /\ completed'[q] = completed[q]
                                 /\ delivered'[q] = delivered[q]
                                 /\ reason'[q] = reason[q]
      /\ status'[r] = SKIP /\ completed'[r] /\ delivered'[r] = delivered[r] + 1
      /\ reason'[r] = ReasonOf(deps[r][k])
    BY <1>0, <1>k DEF TypeOK, Deliver
<1>r. r \notin runnable /\ r \notin nextPending /\ delivered[r] = 0
    BY <1>0 DEF ScanPartition, Waiting
<1>d. \A q \in Refs : \A j \in DOMAIN deps[q] :
         deps[q][j] \in Refs /\ (completed[deps[q][j]] => deps[q][j] # r)
    BY <1>0, DepsFact DEF TypeOK
<1>1. ScanPartition'
    BY <1>0, <1>s, <1>r DEF ScanPartition, Waiting, Reported, TypeOK
<1>2. WorkerInv'
    BY <1>0, <1>s, <1>r DEF WorkerInv, Busy
<1>3. DecidedInv'
  <2>1. \A q \in Refs : completed'[q] => Ready(q)'
    BY <1>0, <1>s, <1>d DEF DecidedInv, Ready
  <2>2. \A q \in Refs : ~completed'[q] => reason'[q] = NoReason
    BY <1>0, <1>s DEF DecidedInv
  <2>3. \A q \in runnable : \A j \in DOMAIN deps[q] :
            Reported(deps[q][j])' /\ status'[deps[q][j]] = SUCCESS
    BY <1>0, <1>s, <1>d DEF DecidedInv, Reported, TypeOK
  <2>4. QED
    BY <2>1, <2>2, <2>3 DEF DecidedInv
<1>4. ProgressInv'
    BY <1>0 DEF ProgressInv
<1>5. SkipReasonExact'
  <2> SUFFICES ASSUME NEW q \in Refs, completed'[q]
               PROVE  \/ /\ status'[q] = SKIP
                         /\ \E j \in DOMAIN deps[q] :
                               /\ IsSkipReason(q, j)'
                               /\ reason'[q] = ReasonOf(deps[q][j])'
                      \/ /\ status'[q] # SKIP
                         /\ reason'[q] = NoReason
                         /\ \A p \in Prerequisites(deps, q) : status'[p] = SUCCESS
    BY DEF SkipReasonExact
  <2>1. \A j \in DOMAIN deps[q] : deps[q][j] \in Refs /\ deps[q][j] # r
    BY <1>0, <1>s, <1>d DEF DecidedInv, Ready
  <2>a. \A j \in DOMAIN deps[q] : IsSkipReason(q, j)' <=> IsSkipReason(q, j)
    BY <1>s, <2>1 DEF IsSkipReason, NotPassed
  <2>b. \A j \in DOMAIN deps[q] : ReasonOf(deps[q][j])' = ReasonOf(deps[q][j])
    <3>1. \A j \in DOMAIN deps[q] : status'[deps[q][j]] = status[deps[q][j]]
        BY <1>s, <2>1
    <3>2. deps' = deps
        OBVIOUS
    <3>3. QED
        BY <3>1, <3>2 DEF ReasonOf
  <2>2. \A j \in DOMAIN deps[q] : /\ IsSkipReason(q, j)' <=> IsSkipReason(q, j)
                                 /\ ReasonOf(deps[q][j])' = ReasonOf(deps[q][j])
    BY <2>a, <2>b
  <2>3. \A p \in Prerequisites(deps, q) : status'[p] = status[p]
    BY <1>s, <2>1 DEF Prerequisites
  <2>4. CASE q = r
    BY <1>k, <1>s, <2>2, <2>4
  <2>5. CASE q # r
    BY <1>0, <1>s, <2>2, <2>3, <2>5 DEF SkipReasonExact
  <2>6. QED
    BY <2>4, <2>5
<1>6. QED
    BY <1>0, <1>1, <1>2, <1>3, <1>4, <1>5 DEF Inv

\* Another pass after one that only skipped preserves Inv.
LEMMA PassAgainInv == ASSUME Inv, TypeOK', PassAgain PROVE Inv'
<1> USE DEF PassAgain, LoopOrClose, stateVars, workerVars, outVars
<1>0. /\ TypeOK /\ ScanPartition /\ WorkerInv /\ DecidedInv /\ ProgressInv
      /\ SkipReasonExact /\ (pc' = "scan" \/ pc' = "closed")
    BY DEF Inv
<1>1. pc' = "scan" => ScanPartition'
    BY <1>0 DEF ScanPartition, Waiting, Reported, TypeOK
<1>2. pc' = "closed" => \A r \in Refs : Reported(r)'
    BY <1>0 DEF ScanPartition, Reported
<1>3. WorkerInv'
    BY <1>0 DEF WorkerInv, Busy
<1>4. DecidedInv'
    BY <1>0 DEF DecidedInv, Ready, Reported
<1>5. ProgressInv'
    BY <1>0 DEF ProgressInv
<1>6. SkipReasonExact'
    BY <1>0, SkipReasonStable
<1>7. QED
    BY <1>0, <1>1, <1>2, <1>3, <1>4, <1>5, <1>6 DEF Inv

-----------------------------------------------------------------------------
(* A wave *)

\* Handing runnable to the feeder and the workers preserves Inv.
LEMMA StartWaveInv == ASSUME Inv, TypeOK', StartWave PROVE Inv'
<1> USE DEF StartWave, passVars, stateVars, outVars
<1>0. /\ TypeOK /\ ScanPartition /\ WorkerInv /\ DecidedInv
      /\ SkipReasonExact /\ pc' = "wait"
      /\ \A w \in Workers : wpc'[w] = "take"
    BY DEF Inv
<1>1. WavePartition'
    BY <1>0 DEF ScanPartition, WavePartition, Waiting, Reported, TypeOK
<1>2. WorkerInv'
    BY <1>0 DEF WorkerInv, Busy
<1>3. DecidedInv'
    BY <1>0 DEF DecidedInv, Ready, Reported
<1>4. SkipReasonExact'
    BY <1>0, SkipReasonStable
<1>5. QED
    BY <1>0, <1>1, <1>2, <1>3, <1>4 DEF Inv, ProgressInv

\* Leaving wg.Wait with every worker gone preserves Inv.
LEMMA EndWaveInv == ASSUME Inv, TypeOK', EndWave PROVE Inv'
<1> USE DEF EndWave, LoopOrClose, stateVars, workerVars, outVars
<1>0. /\ TypeOK /\ WavePartition /\ WorkerInv /\ DecidedInv
      /\ SkipReasonExact /\ (pc' = "scan" \/ pc' = "closed")
    BY DEF Inv
<1>f. feed = {} /\ \A w \in Workers : ~Busy(w)
    BY <1>0, WorkersFact DEF WorkerInv, Busy
<1>r. /\ \A r \in nextPending : Waiting(r)
      /\ \A r \in Refs \ nextPending : Reported(r)
    BY <1>0, <1>f DEF WavePartition
<1>1. pc' = "scan" => ScanPartition'
    BY <1>0, <1>r DEF ScanPartition, Waiting, Reported, TypeOK
<1>2. pc' = "closed" => \A r \in Refs : Reported(r)'
    BY <1>r DEF Reported
<1>3. WorkerInv'
    BY <1>0, <1>f DEF WorkerInv, Busy
<1>4. DecidedInv'
    BY <1>0 DEF DecidedInv, Ready, Reported
<1>5. ProgressInv'
    BY <1>0 DEF ProgressInv
<1>6. SkipReasonExact'
    BY <1>0, SkipReasonStable
<1>7. QED
    BY <1>0, <1>1, <1>2, <1>3, <1>4, <1>5, <1>6 DEF Inv

\* A worker that receives an item from the feeder preserves Inv.
LEMMA TakeInv == ASSUME Inv, TypeOK', NEW w \in Workers, Take(w) PROVE Inv'
<1> USE DEF Take, WorkerTo, passVars, stateVars, outVars
<1>0. /\ TypeOK /\ WorkerInv /\ DecidedInv /\ SkipReasonExact
      /\ WavePartition /\ pc = "wait" /\ pc' = "wait"
    BY DEF Inv, WorkerInv, TypeOK
<1>r. PICK r \in feed : feed' = feed \ {r} /\ item' = [item EXCEPT ![w] = r]
    OBVIOUS
<1>s. /\ wpc'[w] = "validate" /\ item'[w] = r
      /\ \A v \in Workers : v # w => wpc'[v] = wpc[v] /\ item'[v] = item[v]
      /\ ~Busy(w) /\ Busy(w)' /\ \A v \in Workers : v # w => (Busy(v)' <=> Busy(v))
    BY <1>0, <1>r DEF TypeOK, Busy
<1>1. WavePartition'
  <2>1. \A q \in Refs \ (nextPending \cup feed') :
            Reported(q) \/ \E v \in Workers : Busy(v)' /\ item'[v] = q
    BY <1>0, <1>r, <1>s DEF WavePartition
  <2>2. QED
    BY <1>0, <1>r, <2>1 DEF WavePartition, Waiting, Reported
<1>2. WorkerInv'
  <2>1. \A v \in Workers : Busy(v)' =>
          /\ item'[v] \in runnable \ feed'
          /\ delivered[item'[v]] = 0
          /\ completed[item'[v]] <=> wpc'[v] = "send"
    BY <1>0, <1>r, <1>s DEF WorkerInv, WavePartition, Waiting, TypeOK
  <2>2. \A v, u \in Workers : Busy(v)' /\ Busy(u)' /\ item'[v] = item'[u] => v = u
    BY <1>0, <1>r, <1>s DEF WorkerInv
  <2>3. \A v \in Workers : wpc'[v] = "write" <=> stateMu = v
    BY <1>0, <1>s DEF WorkerInv
  <2>4. \A v \in Workers : wpc'[v] = "exit" => feed' = {}
    BY <1>0, <1>r, <1>s DEF WorkerInv
  <2>5. QED
    BY <1>0, <2>1, <2>2, <2>3, <2>4 DEF WorkerInv
<1>3. DecidedInv'
    BY <1>0 DEF DecidedInv, Ready, Reported
<1>4. SkipReasonExact'
    BY <1>0, SkipReasonStable
<1>5. QED
    BY <1>0, <1>1, <1>2, <1>3, <1>4 DEF Inv, ProgressInv

\* The steps of a worker that touch neither its resource nor the two maps.
LEMMA WorkerStepInv ==
    ASSUME Inv, TypeOK', NEW w \in Workers, Drained(w) \/ Validate(w) \/ Lock(w)
    PROVE  Inv'
<1> USE DEF Drained, Validate, Lock, WorkerTo, passVars, stateVars, outVars
<1>0. /\ TypeOK /\ WorkerInv /\ DecidedInv /\ SkipReasonExact
      /\ WavePartition /\ pc = "wait" /\ pc' = "wait"
    BY DEF Inv, WorkerInv, TypeOK
<1>s. /\ \A v \in Workers : v # w => wpc'[v] = wpc[v]
      /\ \A v \in Workers : Busy(v)' <=> Busy(v)
      /\ item' = item /\ feed' = feed
    BY <1>0 DEF TypeOK, Busy
<1>1. WavePartition'
    BY <1>0, <1>s DEF WavePartition, Waiting, Reported
<1>2. WorkerInv'
    BY <1>0, <1>s, WorkersFact DEF WorkerInv, TypeOK
<1>3. DecidedInv'
    BY <1>0 DEF DecidedInv, Ready, Reported
<1>4. SkipReasonExact'
    BY <1>0, SkipReasonStable
<1>5. QED
    BY <1>0, <1>1, <1>2, <1>3, <1>4 DEF Inv, ProgressInv

\* A worker records its resource: the only writer of the maps in a wave.
LEMMA WriteInv == ASSUME Inv, TypeOK', NEW w \in Workers, Write(w) PROVE Inv'
<1> USE DEF Write, WorkerTo, passVars, outVars
<1>0. /\ TypeOK /\ WorkerInv /\ DecidedInv /\ SkipReasonExact
      /\ WavePartition /\ pc = "wait" /\ pc' = "wait"
      /\ item[w] \in Refs
    BY DEF Inv, WorkerInv, TypeOK
<1> DEFINE r == item[w]
<1>s. /\ \A v \in Workers : v # w => wpc'[v] = wpc[v]
      /\ wpc'[w] = "send" /\ wpc[w] = "write"
      /\ \A v \in Workers : Busy(v)' <=> Busy(v)
      /\ Busy(w)
    BY <1>0 DEF TypeOK, Busy
<1>q. /\ \A q \in Refs : q # r => status'[q] = status[q] /\ completed'[q] = completed[q]
      /\ completed'[r] /\ status'[r] \in {SUCCESS, FAIL}
    BY <1>0 DEF TypeOK
<1>r. /\ r \in Refs /\ r \in runnable \ feed /\ ~completed[r] /\ r \notin nextPending
      /\ reason[r] = NoReason
      /\ \A v \in Workers : Busy(v) /\ v # w => item[v] # r
    BY <1>0, <1>s DEF WorkerInv, WavePartition, DecidedInv
<1>d. \A q \in Refs : \A j \in DOMAIN deps[q] :
         deps[q][j] \in Refs /\ (completed[deps[q][j]] => deps[q][j] # r)
    BY <1>0, <1>r, DepsFact DEF TypeOK
<1> HIDE DEF r
<1>1. WavePartition'
  <2>1. \A q \in Refs \ (nextPending \cup feed) :
            Reported(q)' \/ \E v \in Workers : Busy(v)' /\ item[v] = q
    BY <1>0, <1>s, <1>q DEF WavePartition, Reported, r
  <2>2. \A q \in nextPending \cup feed : Waiting(q)'
    BY <1>0, <1>q, <1>r DEF WavePartition, Waiting, TypeOK
  <2>3. QED
    BY <1>0, <2>1, <2>2 DEF WavePartition
<1>2. WorkerInv'
  <2>1. \A v \in Workers : Busy(v)' =>
          /\ item[v] \in runnable \ feed
          /\ delivered[item[v]] = 0
          /\ completed'[item[v]] <=> wpc'[v] = "send"
    BY <1>0, <1>s, <1>q, <1>r DEF WorkerInv, TypeOK, r
  <2>2. \A v \in Workers : wpc'[v] = "write" <=> stateMu' = v
    BY <1>0, <1>s, WorkersFact DEF WorkerInv, TypeOK
  <2>3. QED
    BY <1>0, <1>s, <2>1, <2>2 DEF WorkerInv
<1>3. DecidedInv'
  <2>1. \A q \in Refs : completed'[q] => Ready(q)'
    <3>1. Ready(r)
        BY <1>0, <1>r DEF DecidedInv, Ready, Reported
    <3>2. \A q \in Refs : completed'[q] => Ready(q)
        BY <1>0, <1>q, <3>1 DEF DecidedInv
    <3>3. QED
        BY <1>q, <1>d, <3>2 DEF Ready
  <2>2. \A q \in Refs : ~completed'[q] => reason[q] = NoReason
    BY <1>0, <1>q DEF DecidedInv
  <2>3. \A q \in runnable : \A j \in DOMAIN deps[q] :
            Reported(deps[q][j])' /\ status'[deps[q][j]] = SUCCESS
    <3> SUFFICES ASSUME NEW q \in runnable, NEW j \in DOMAIN deps[q]
                 PROVE  Reported(deps[q][j])' /\ status'[deps[q][j]] = SUCCESS
        OBVIOUS
    <3>1. Reported(deps[q][j]) /\ status[deps[q][j]] = SUCCESS /\ q \in Refs
        BY <1>0 DEF DecidedInv, TypeOK
    <3>2. deps[q][j] \in Refs /\ deps[q][j] # r
        BY <1>d, <3>1 DEF Reported
    <3>3. QED
        BY <1>q, <3>1, <3>2 DEF Reported
  <2>4. QED
    BY <2>1, <2>2, <2>3 DEF DecidedInv
<1>4. SkipReasonExact'
  <2> SUFFICES ASSUME NEW q \in Refs, completed'[q]
               PROVE  \/ /\ status'[q] = SKIP
                         /\ \E j \in DOMAIN deps[q] :
                               /\ IsSkipReason(q, j)'
                               /\ reason[q] = ReasonOf(deps[q][j])'
                      \/ /\ status'[q] # SKIP
                         /\ reason[q] = NoReason
                         /\ \A p \in Prerequisites(deps, q) : status'[p] = SUCCESS
    BY DEF SkipReasonExact
  <2>1. CASE q = r
    <3>1. \A j \in DOMAIN deps[r] : deps[r][j] # r /\ status[deps[r][j]] = SUCCESS
        BY <1>0, <1>r, <1>d DEF DecidedInv, Reported
    <3>2. \A p \in Prerequisites(deps, r) : status'[p] = SUCCESS
        BY <1>0, <1>q, <1>d, <3>1 DEF Prerequisites, r
    <3>3. status'[r] # SKIP
        BY <1>q DEF SUCCESS, FAIL, SKIP
    <3>4. QED
        BY <2>1, <1>r, <3>2, <3>3
  <2>2. CASE q # r
    <3>1. \A j \in DOMAIN deps[q] : deps[q][j] \in Refs /\ deps[q][j] # r
        BY <1>0, <1>q, <1>d, <2>2 DEF DecidedInv, Ready
    <3>2. \A j \in DOMAIN deps[q] : status'[deps[q][j]] = status[deps[q][j]]
        BY <1>q, <3>1
    <3>3. deps' = deps
        OBVIOUS
    <3>4. \A j \in DOMAIN deps[q] : IsSkipReason(q, j)' <=> IsSkipReason(q, j)
        BY <3>2, <3>3 DEF IsSkipReason, NotPassed
    <3>5. \A j \in DOMAIN deps[q] : ReasonOf(deps[q][j])' = ReasonOf(deps[q][j])
        BY <3>2, <3>3 DEF ReasonOf
    <3>6. \A p \in Prerequisites(deps, q) : status'[p] = status[p]
        BY <3>2 DEF Prerequisites
    <3>7. completed[q] /\ status'[q] = status[q]
        BY <1>q, <2>2
    <3>8. QED
        BY <1>0, <3>3, <3>4, <3>5, <3>6, <3>7 DEF SkipReasonExact
  <2>3. QED
    BY <2>1, <2>2
<1>5. QED
    BY <1>0, <1>1, <1>2, <1>3, <1>4 DEF Inv, ProgressInv

\* A worker that sends its group on out preserves Inv.
LEMMA SendInv == ASSUME Inv, TypeOK', NEW w \in Workers, Send(w) PROVE Inv'
<1> USE DEF Send, Deliver, WorkerTo, passVars, stateVars
<1>0. /\ TypeOK /\ WorkerInv /\ DecidedInv /\ SkipReasonExact
      /\ WavePartition /\ pc = "wait" /\ pc' = "wait"
      /\ item[w] \in Refs
    BY DEF Inv, WorkerInv, TypeOK
<1> DEFINE r == item[w]
<1>s. /\ \A v \in Workers : v # w => wpc'[v] = wpc[v]
      /\ wpc'[w] = "take" /\ wpc[w] = "send"
      /\ \A v \in Workers : v # w => (Busy(v)' <=> Busy(v))
      /\ Busy(w) /\ ~Busy(w)'
    BY <1>0 DEF TypeOK, Busy
<1>r. /\ r \in runnable \ feed /\ completed[r] /\ r \notin nextPending
      /\ delivered[r] = 0
      /\ \A v \in Workers : Busy(v) /\ v # w => item[v] # r
    BY <1>0, <1>s DEF WorkerInv, WavePartition
<1>q. /\ \A q \in Refs : q # r => delivered'[q] = delivered[q]
      /\ delivered'[r] = 1
    BY <1>0, <1>r DEF TypeOK
<1>n. reason' = reason
  <2>1. reason[r] = NoReason
    <3>1. \A j \in DOMAIN deps[r] : status[deps[r][j]] = SUCCESS
        BY <1>0, <1>r DEF DecidedInv
    <3>2. \A j \in DOMAIN deps[r] : ~IsSkipReason(r, j)
        BY <3>1 DEF IsSkipReason, NotPassed, SUCCESS, FAIL, SKIP
    <3>3. QED
        BY <1>0, <1>r, <3>2 DEF SkipReasonExact
  <2>2. QED
    BY <1>0, <2>1 DEF TypeOK
<1> HIDE DEF r
<1>1. WavePartition'
  <2>1. \A q \in Refs \ (nextPending \cup feed) :
            Reported(q)' \/ \E v \in Workers : Busy(v)' /\ item[v] = q
    BY <1>0, <1>s, <1>q, <1>r DEF WavePartition, Reported, r
  <2>2. \A q \in nextPending \cup feed : Waiting(q)'
    BY <1>0, <1>q, <1>r DEF WavePartition, Waiting, TypeOK
  <2>3. QED
    BY <1>0, <2>1, <2>2 DEF WavePartition
<1>2. WorkerInv'
  <2>1. \A v \in Workers : Busy(v)' =>
          /\ item[v] \in runnable \ feed
          /\ delivered'[item[v]] = 0
          /\ completed[item[v]] <=> wpc'[v] = "send"
    BY <1>0, <1>s, <1>q, <1>r DEF WorkerInv, TypeOK, r
  <2>2. \A v \in Workers : wpc'[v] = "write" <=> stateMu' = v
    BY <1>0, <1>s DEF WorkerInv
  <2>3. QED
    BY <1>0, <1>s, <2>1, <2>2 DEF WorkerInv
<1>3. DecidedInv'
  <2>1. \A q \in runnable : \A j \in DOMAIN deps[q] : deps[q][j] \in Refs /\ deps[q][j] # r
    BY <1>0, <1>r, DepsFact DEF DecidedInv, Reported, TypeOK
  <2>2. QED
    BY <1>0, <1>n, <1>q, <2>1 DEF DecidedInv, Ready, Reported
<1>4. SkipReasonExact'
    BY <1>0, <1>n, SkipReasonStable
<1>5. QED
    BY <1>0, <1>1, <1>2, <1>3, <1>4 DEF Inv, ProgressInv

\* The outputer's own steps, and stuttering, preserve Inv.
LEMMA IdleInv == ASSUME Inv, TypeOK', Consume \/ UNCHANGED vars PROVE Inv'
<1> USE DEF Consume, Render, Finish, vars, passVars, stateVars, workerVars, outVars
<1>1. (pc = "scan" => ScanPartition') /\ (pc = "wait" => WavePartition')
    BY DEF Inv, ScanPartition, WavePartition, Waiting, Reported, Busy
<1>2. pc = "closed" => \A r \in Refs : Reported(r)'
    BY DEF Inv, Reported
<1>3. WorkerInv'
    BY DEF Inv, WorkerInv, Busy
<1>4. DecidedInv'
    BY DEF Inv, DecidedInv, Ready, Reported
<1>5. ProgressInv'
    BY DEF Inv, ProgressInv, Ready
<1>6. SkipReasonExact'
    BY SkipReasonStable DEF Inv
<1>7. QED
    BY <1>1, <1>2, <1>3, <1>4, <1>5, <1>6 DEF Inv

-----------------------------------------------------------------------------
(* The theorems *)

\* Every behaviour of validateWithDependencies keeps the variables of the
\* scheduler, its workers and the outputer in their types.
THEOREM TypeCorrect == Spec => []TypeOK
<1>1. Init => TypeOK
    BY InitInv DEF Inv
<1>2. QED
    BY <1>1, NextTypeOK, PTL DEF Spec

\* The scheduler's inductive invariant holds for every acyclic schedule and
\* every worker count: each resource is in exactly one place in each phase.
THEOREM InvCorrect == Spec => []Inv
<1>1. Inv /\ [Next]_vars => Inv'
  <2> SUFFICES ASSUME Inv, [Next]_vars PROVE Inv'
    OBVIOUS
  <2>0. TypeOK'
    BY NextTypeOK DEF Inv
  <2>1. ASSUME NEW r \in Refs, ExamineBlocked(r) PROVE Inv'
    BY <2>0, <2>1, ExamineBlockedInv
  <2>2. ASSUME NEW r \in Refs, ExamineSkip(r) PROVE Inv'
    BY <2>0, <2>2, ExamineSkipInv
  <2>3. ASSUME NEW r \in Refs, ExamineRunnable(r) PROVE Inv'
    BY <2>0, <2>3, ExamineRunnableInv
  <2>4. CASE PassAgain
    BY <2>0, <2>4, PassAgainInv
  <2>5. CASE StartWave
    BY <2>0, <2>5, StartWaveInv
  <2>6. CASE EndWave
    BY <2>0, <2>6, EndWaveInv
  <2>7. ASSUME NEW w \in Workers, Take(w) PROVE Inv'
    BY <2>0, <2>7, TakeInv
  <2>8. ASSUME NEW w \in Workers, Drained(w) \/ Validate(w) \/ Lock(w) PROVE Inv'
    BY <2>0, <2>8, WorkerStepInv
  <2>9. ASSUME NEW w \in Workers, Write(w) PROVE Inv'
    BY <2>0, <2>9, WriteInv
  <2>10. ASSUME NEW w \in Workers, Send(w) PROVE Inv'
    BY <2>0, <2>10, SendInv
  <2>11. CASE Consume \/ UNCHANGED vars
    BY <2>0, <2>11, IdleInv
  <2>12. QED
    BY <2>1, <2>2, <2>3, <2>4, <2>5, <2>6, <2>7, <2>8, <2>9, <2>10, <2>11
    DEF Next, Schedule, Work, Terminated
<1>2. QED
    BY InitInv, <1>1, PTL DEF Spec

\* The outputer receives one group per resource, never two, and has them all
\* when validateWithDependencies closes out.
THEOREM ExactlyOnceCorrect == Spec => []ExactlyOnce
<1>1. Inv => ExactlyOnce
  <2> SUFFICES ASSUME Inv PROVE ExactlyOnce
    OBVIOUS
  <2>1. CASE pc = "scan"
    BY <2>1 DEF Inv, ScanPartition, Waiting, Reported, ExactlyOnce
  <2>2. CASE pc = "wait"
    <3>1. \A r \in Refs : delivered[r] = 0 \/ delivered[r] = 1
        BY <2>2 DEF Inv, WavePartition, WorkerInv, Waiting, Reported
    <3>2. QED
        BY <2>2, <3>1 DEF ExactlyOnce
  <2>3. CASE pc = "closed"
    BY <2>3 DEF Inv, Reported, ExactlyOnce
  <2>4. QED
    BY <2>1, <2>2, <2>3 DEF Inv, TypeOK
<1>2. QED
    BY <1>1, InvCorrect, PTL

\* The maps status and completed are never accessed by two goroutines at once.
THEOREM NoMapRaceCorrect == Spec => []NoMapRace
<1>1. Inv => NoMapRace
    BY DEF Inv, WorkerInv, NoMapRace
<1>2. QED
    BY <1>1, InvCorrect, PTL

\* No worker is left to send on out when it is closed.
THEOREM ClosedAfterSendersCorrect == Spec => []ClosedAfterSenders
<1>1. Inv => ClosedAfterSenders
    BY DEF Inv, WorkerInv, ClosedAfterSenders
<1>2. QED
    BY <1>1, InvCorrect, PTL

\* A resource is validated only after its prerequisites passed and were
\* reported.
THEOREM RunsAfterPassingCorrect == Spec => []RunsAfterPassing
<1>1. Inv => RunsAfterPassing
    BY DEF Inv, WorkerInv, DecidedInv, Reported, RunsAfterPassing, Prerequisites
<1>2. QED
    BY <1>1, InvCorrect, PTL

\* Skip reasons name the first prerequisite, in declared order, that did not
\* pass, whatever the order of the schedule and the speed of the workers.
THEOREM SkipReasonExactCorrect == Spec => []SkipReasonExact
<1>1. Inv => SkipReasonExact
    BY DEF Inv
<1>2. QED
    BY <1>1, InvCorrect, PTL

\* The "unsatisfied dependency" branch is dead code: among the resources a
\* pass left pending, one of least rank has no prerequisite left to wait for.
THEOREM NeverAbandonsCorrect == Spec => []NeverAbandons
<1>1. Inv => NeverAbandons
  <2> SUFFICES ASSUME Inv, MustAbandon PROVE FALSE
    BY DEF NeverAbandons
  <2>1. /\ nextPending # {} /\ nextPending \subseteq Refs
        /\ \A r \in nextPending : ~Ready(r)
        /\ \A r \in Refs \ nextPending : completed[r]
    BY DEF Inv, TypeOK, MustAbandon, ProgressInv, ScanPartition, Reported
  <2>2. PICK rank \in [Refs -> 0..N] : RankedBy(deps, rank)
    BY ScheduleAssumption DEF Inv, TypeOK, Acyclic
  <2> DEFINE Ranks == {rank[r] : r \in nextPending}
  <2>3. Ranks \subseteq Nat /\ Ranks # {}
    BY <2>1, <2>2
  <2> HIDE DEF Ranks
  <2>4. PICK least \in Ranks : \A n \in Ranks : least <= n
    BY <2>3, LeastElement
  <2> USE DEF Ranks
  <2>6. PICK r \in nextPending : rank[r] = least
    BY <2>4
  <2>7. PICK k \in DOMAIN deps[r] : ~completed[deps[r][k]]
    BY <2>1, <2>6 DEF Ready
  <2>8. deps[r][k] \in Refs
    BY <2>1, DepsFact DEF Inv, TypeOK
  <2>9. deps[r][k] \in nextPending /\ rank[deps[r][k]] < rank[r]
    BY <2>1, <2>2, <2>7, <2>8 DEF RankedBy
  <2>10. QED
    BY <2>1, <2>2, <2>4, <2>6, <2>8, <2>9
<1>2. QED
    BY <1>1, InvCorrect, PTL

-----------------------------------------------------------------------------
(* The refinement of Sweep *)

\* One group on out is one Report of the abstract stream.
LEMMA DeliverReports ==
    ASSUME NEW r \in Refs, TypeOK, TypeOK', deps' = deps, pc' = pc,
           delivered[r] = 0, delivered'[r] = 1,
           \A q \in Refs : q # r => delivered'[q] = delivered[q] /\ status'[q] = status[q],
           \A k \in DOMAIN deps[r] : delivered[deps[r][k]] = 1,
           \/ status'[r] \in {SUCCESS, FAIL} /\ \A k \in DOMAIN deps[r] : status[deps[r][k]] = SUCCESS
           \/ status'[r] = SKIP /\ \E k \in DOMAIN deps[r] : status[deps[r][k]] # SUCCESS
    PROVE  AbstractSweep!Report(r)
<1> USE DEF AbstractSweep!Unreported, AbstractSweep!SUCCESS, AbstractSweep!FAIL,
            AbstractSweep!SKIP, SUCCESS, FAIL, SKIP
<1>1. streamVerdict[r] = "unreported"
    BY DEF streamVerdict
<1>2. \A k \in DOMAIN deps[r] : deps[r][k] \in Refs
    BY DepsFact DEF TypeOK
<1>3. \A k \in DOMAIN deps[r] : streamVerdict[deps[r][k]] = status[deps[r][k]]
    BY <1>2 DEF streamVerdict
<1>4. \A k \in DOMAIN deps[r] : streamVerdict[deps[r][k]] # "unreported"
    BY <1>2, <1>3 DEF TypeOK
<1>5. \A p \in Prerequisites(deps, r) : streamVerdict[p] # "unreported"
    BY <1>4 DEF Prerequisites
<1>6. streamVerdict' = [streamVerdict EXCEPT ![r] = status'[r]]
  <2>1. \A q \in Refs : streamVerdict'[q] = IF q = r THEN status'[r] ELSE streamVerdict[q]
    BY DEF streamVerdict
  <2>2. streamVerdict = [q \in Refs |-> streamVerdict[q]]
        /\ streamVerdict' = [q \in Refs |-> streamVerdict'[q]]
    BY Zenon DEF streamVerdict
  <2>3. QED
    BY <2>1, <2>2
<1>7. status'[r] \in IF AbstractSweep!Passing(r) THEN {"SUCCESS", "FAIL"} ELSE {"SKIP"}
    BY <1>3 DEF AbstractSweep!Passing, AbstractSweep!Prerequisites, Prerequisites
<1>8. QED
    BY <1>1, <1>5, <1>6, <1>7 DEF AbstractSweep!Report, AbstractSweep!Prerequisites, Prerequisites

\* A step that delivers nothing and closes nothing is invisible in Sweep.
LEMMA SilentStep ==
    ASSUME deps' = deps, delivered' = delivered, (pc' = "closed") <=> (pc = "closed"),
           \A r \in Refs : delivered[r] = 0 \/ status'[r] = status[r]
    PROVE  UNCHANGED AbstractSweep!vars
<1>1. streamVerdict' = streamVerdict
    BY DEF streamVerdict
<1>2. QED
    BY <1>1 DEF AbstractSweep!vars

\* The scheduler implements the stream promised by Sweep: its result stream is
\* a topological order of the dependency lists with one group per resource,
\* a SKIP exactly when a prerequisite did not pass, and the close last.
THEOREM ImplementsSweepSafely == Spec => AbstractSweep!SafeSpec
<1>1. Init => AbstractSweep!Init
  <2> SUFFICES ASSUME Init PROVE AbstractSweep!Init
    OBVIOUS
  <2>1. streamVerdict = [r \in Refs |-> "unreported"]
    BY DEF Init, streamVerdict
  <2>2. deps \in DependencyLists
    BY ScheduleAssumption DEF Init
  <2>3. (pc = "closed") = FALSE
    BY DEF Init
  <2>4. QED
    BY <2>1, <2>2, <2>3 DEF AbstractSweep!Init, AbstractSweep!Unreported,
       AbstractSweep!DependencyLists, AbstractSweep!Refs, DependencyLists, Refs
<1>2. Inv /\ Inv' /\ [Next]_vars => [AbstractSweep!Next]_(AbstractSweep!vars)
  <2> SUFFICES ASSUME Inv, Inv', [Next]_vars
               PROVE  AbstractSweep!Next \/ UNCHANGED AbstractSweep!vars
    OBVIOUS
  <2> USE DEF passVars, stateVars, workerVars, outVars
  <2>1. ASSUME NEW r \in Refs, ExamineBlocked(r) PROVE UNCHANGED AbstractSweep!vars
    BY <2>1, SilentStep DEF ExamineBlocked
  <2>2. ASSUME NEW r \in Refs, ExamineRunnable(r) PROVE UNCHANGED AbstractSweep!vars
    BY <2>2, SilentStep DEF ExamineRunnable
  <2>3. ASSUME NEW r \in Refs, ExamineSkip(r) PROVE AbstractSweep!Report(r)
    <3>1. TypeOK /\ TypeOK' /\ ScanPartition /\ r \in scan /\ deps' = deps /\ pc' = pc
        BY <2>3 DEF Inv, ExamineSkip, First
    <3>2. PICK k \in DOMAIN deps[r] :
             IsSkipReason(r, k) /\ Deliver(r, ReasonOf(deps[r][k]))
        BY <2>3 DEF ExamineSkip
    <3>3. delivered[r] = 0 /\ delivered'[r] = 1 /\ status'[r] = SKIP
        BY <2>3, <3>1, <3>2 DEF ExamineSkip, Deliver, ScanPartition, Waiting, TypeOK
    <3>4. \A q \in Refs : q # r => delivered'[q] = delivered[q] /\ status'[q] = status[q]
        BY <2>3, <3>1, <3>2 DEF ExamineSkip, Deliver, TypeOK
    <3>5. \A j \in DOMAIN deps[r] : delivered[deps[r][j]] = 1
      <4>1. \A j \in DOMAIN deps[r] : deps[r][j] \in Refs /\ completed[deps[r][j]]
        BY <2>3, <3>1, DepsFact DEF ExamineSkip, Ready, TypeOK
      <4>2. QED
        BY <3>1, <4>1 DEF ScanPartition, Waiting, Reported
    <3>6. status[deps[r][k]] # SUCCESS
        BY <3>2 DEF IsSkipReason, NotPassed, SUCCESS, FAIL, SKIP
    <3>7. QED
        BY <3>1, <3>3, <3>4, <3>5, <3>6, DeliverReports
  <2>4. CASE StartWave
    BY <2>4, SilentStep DEF StartWave
  <2>5. CASE PassAgain \/ EndWave
    <3>1. deps' = deps /\ delivered' = delivered /\ status' = status /\ pc # "closed"
        BY <2>5 DEF PassAgain, EndWave
    <3>2. CASE pc' = "closed"
      <4>1. \A r \in Refs : delivered[r] = 1
        BY <3>1, <3>2 DEF Inv, Reported
      <4>2. \A r \in Refs : streamVerdict[r] # "unreported"
        BY <4>1 DEF streamVerdict, Inv, TypeOK, SUCCESS, FAIL, SKIP
      <4>3. streamVerdict' = streamVerdict
        BY <3>1 DEF streamVerdict
      <4>4. AbstractSweep!End
        BY <3>1, <3>2, <4>2, <4>3 DEF AbstractSweep!End, AbstractSweep!Unreported,
           AbstractSweep!Refs, Refs
      <4>5. QED
        BY <4>4 DEF AbstractSweep!Next
    <3>3. CASE pc' # "closed"
        BY <3>1, <3>3, SilentStep
    <3>4. QED
        BY <3>2, <3>3
  <2>6. ASSUME NEW w \in Workers, Take(w) \/ Drained(w) \/ Validate(w) \/ Lock(w)
        PROVE  UNCHANGED AbstractSweep!vars
    BY <2>6, SilentStep DEF Take, Drained, Validate, Lock
  <2>7. ASSUME NEW w \in Workers, Write(w) PROVE UNCHANGED AbstractSweep!vars
    <3>1. item[w] \in Refs /\ delivered[item[w]] = 0
        BY <2>7 DEF Write, Inv, WorkerInv, Busy, TypeOK
    <3>2. \A r \in Refs : delivered[r] = 0 \/ status'[r] = status[r]
        BY <2>7, <3>1 DEF Write, Inv, TypeOK
    <3>3. QED
        BY <2>7, <3>2, SilentStep DEF Write
  <2>8. ASSUME NEW w \in Workers, Send(w) PROVE \E r \in Refs : AbstractSweep!Report(r)
    <3>1. /\ TypeOK /\ TypeOK' /\ item[w] \in Refs /\ deps' = deps /\ pc' = pc
          /\ status' = status
        BY <2>8 DEF Inv, TypeOK, Send
    <3>2. /\ item[w] \in runnable /\ delivered[item[w]] = 0 /\ completed[item[w]]
        BY <2>8 DEF Send, Inv, WorkerInv, Busy
    <3>3. /\ delivered'[item[w]] = 1
          /\ \A q \in Refs : q # item[w] => delivered'[q] = delivered[q]
        BY <2>8, <3>1, <3>2 DEF Send, Deliver, TypeOK
    <3>4. \A k \in DOMAIN deps[item[w]] :
             delivered[deps[item[w]][k]] = 1 /\ status[deps[item[w]][k]] = SUCCESS
        BY <3>2 DEF Inv, DecidedInv, Reported
    <3>5. \A k \in DOMAIN deps[item[w]] : ~IsSkipReason(item[w], k)
        BY <3>4 DEF IsSkipReason, NotPassed, SUCCESS, FAIL, SKIP
    <3>6. status[item[w]] \in {SUCCESS, FAIL}
        BY <3>1, <3>2, <3>5 DEF Inv, SkipReasonExact, TypeOK
    <3>7. AbstractSweep!Report(item[w])
        BY <3>1, <3>2, <3>3, <3>4, <3>6, DeliverReports
    <3>8. QED
        BY <3>1, <3>7
  <2>9. CASE Consume \/ UNCHANGED vars
    BY <2>9, SilentStep DEF Consume, Render, Finish, vars
  <2>10. QED
    BY <2>1, <2>2, <2>3, <2>4, <2>5, <2>6, <2>7, <2>8, <2>9
    DEF Next, Schedule, Work, Terminated, AbstractSweep!Next, AbstractSweep!Refs, Refs
<1>3. QED
    BY <1>1, <1>2, InvCorrect, PTL DEF Spec, AbstractSweep!SafeSpec

==============================================================================
