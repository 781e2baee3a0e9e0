---------------------------- MODULE ReportProofs ----------------------------
(***************************************************************************)
(* Theorems about a sweep without depends-on (Parallel, in the composition *)
(* of Report), for every number of resources and of workers, every spec    *)
(* and every format, whether the outputer finishes or dies on the way.     *)
(***************************************************************************)
EXTENDS Report, FiniteSetTheorems, WellFoundedInduction, TLAPS

-----------------------------------------------------------------------------
(* The inductive invariant *)

TypeOK ==
    /\ feed \in SUBSET Refs
    /\ wpc \in [Workers -> {"take", "validate", "send", "exit"}]
    /\ item \in [Workers -> Refs]
    /\ outcome \in [Workers -> {"SUCCESS", "FAIL"}]
    /\ closed \in BOOLEAN
    /\ verdict \in [Refs -> Seq({"SUCCESS", "FAIL"})]

\* The worker holds a resource it has taken and not reported.
Busy(w) == wpc[w] \in {"validate", "send"}

\* A resource is with the feeder, with one worker, or reported: never two of
\* them, and never lost.
Partition ==
    /\ \A r \in feed : verdict[r] = <<>>
    /\ \A w \in Workers : Busy(w) => item[w] \notin feed /\ verdict[item[w]] = <<>>
    /\ \A v, w \in Workers : Busy(v) /\ Busy(w) /\ item[v] = item[w] => v = w
    /\ \A r \in Refs : \/ r \in feed
                       \/ \E w \in Workers : Busy(w) /\ item[w] = r
                       \/ Len(verdict[r]) = 1

\* A worker leaves when in is closed, and out is closed when all have left.
ExitInv ==
    /\ \A w \in Workers : wpc[w] = "exit" => feed = {}
    /\ closed => \A w \in Workers : wpc[w] = "exit"

Inv == TypeOK /\ Partition /\ ExitInv

\* There is at least one resource and one worker.
LEMMA PoolFact == 1 \in Refs /\ 1 \in Workers /\ Refs \subseteq Nat
BY NAssumption, WorkerAssumption DEF Refs, Workers, workerCount, AtLeast, AtMost

\* What the feeder and the workers start with satisfies Inv.
LEMMA InitInv == StartSweep => Inv
<1> SUFFICES ASSUME StartSweep PROVE Inv
    OBVIOUS
<1> USE PoolFact DEF StartSweep, Init
<1>1. <<>> \in Seq({"SUCCESS", "FAIL"})
    OBVIOUS
<1>2. TypeOK
    BY <1>1 DEF TypeOK
<1>3. QED
    BY <1>2 DEF Inv, Partition, Busy, ExitInv

-----------------------------------------------------------------------------
(* Steps of the workers *)

\* A worker takes the next resource from the feeder.
LEMMA TakeInv == ASSUME Inv, NEW w \in Workers, Take(w) PROVE Inv'
<1> USE DEF Inv, TypeOK, WorkerTo
<1>1. PICK r \in feed : feed' = feed \ {r} /\ item' = [item EXCEPT ![w] = r]
    BY DEF Take
<1>2. r \in Refs /\ verdict[r] = <<>> /\ ~Busy(w)
    BY <1>1 DEF Partition, Take, Busy
<1>3. /\ wpc' = [wpc EXCEPT ![w] = "validate"]
      /\ UNCHANGED <<outcome, closed, verdict>>
    BY DEF Take
<1>4. TypeOK'
    BY <1>1, <1>2, <1>3
<1>5. Busy(w)' /\ item'[w] = r
    BY <1>1, <1>3 DEF Busy
<1>6. \A v \in Workers : v # w => Busy(v)' = Busy(v) /\ item'[v] = item[v]
    BY <1>1, <1>3 DEF Busy
<1>7. \A v \in Workers : Busy(v) => item[v] # r
    BY <1>1 DEF Partition
<1>8. Partition'
  <2>1. \A q \in feed' : verdict'[q] = <<>>
    BY <1>1, <1>3 DEF Partition
  <2>2. \A v \in Workers : Busy(v)' => item'[v] \notin feed' /\ verdict'[item'[v]] = <<>>
    BY <1>1, <1>2, <1>3, <1>5, <1>6 DEF Partition
  <2>3. \A u, v \in Workers : Busy(u)' /\ Busy(v)' /\ item'[u] = item'[v] => u = v
    BY <1>5, <1>6, <1>7 DEF Partition
  <2>4. ASSUME NEW q \in Refs
        PROVE  q \in feed' \/ (\E v \in Workers : Busy(v)' /\ item'[v] = q) \/ Len(verdict'[q]) = 1
    <3>1. CASE q = r
        BY <3>1, <1>5
    <3>2. CASE q # r
        BY <3>2, <1>1, <1>2, <1>3, <1>6 DEF Partition
    <3>3. QED
        BY <3>1, <3>2
  <2>5. QED
    BY <2>1, <2>2, <2>3, <2>4 DEF Partition
<1>9. ExitInv'
    BY <1>1, <1>3 DEF ExitInv, Take
<1>10. QED
    BY <1>4, <1>8, <1>9

\* A worker validates what it holds.
LEMMA ValidateInv == ASSUME Inv, NEW w \in Workers, Validate(w) PROVE Inv'
<1> USE DEF Inv, TypeOK, WorkerTo, Validate
<1>1. TypeOK'
    OBVIOUS
<1>2. \A v \in Workers : Busy(v)' = Busy(v) /\ item'[v] = item[v]
    BY DEF Busy
<1>3. Partition'
    BY <1>2 DEF Partition
<1>4. ExitInv'
    BY DEF ExitInv
<1>5. QED
    BY <1>1, <1>3, <1>4

\* The outputer receives what a worker has: nobody else has that resource.
LEMMA SendInv == ASSUME Inv, NEW w \in Workers, Send(w) PROVE Inv'
<1> USE DEF Inv, TypeOK, WorkerTo
<1> DEFINE r == item[w]
<1>1. r \in Refs /\ Busy(w) /\ verdict[r] = <<>> /\ outcome[w] \in {"SUCCESS", "FAIL"}
    BY DEF Send, Busy, Partition
<1>2. /\ verdict' = [verdict EXCEPT ![r] = Append(<<>>, outcome[w])]
      /\ wpc' = [wpc EXCEPT ![w] = "take"]
      /\ UNCHANGED <<feed, item, outcome, closed>>
    BY <1>1 DEF Send
<1> HIDE DEF r
<1>3. Append(<<>>, outcome[w]) \in Seq({"SUCCESS", "FAIL"}) /\ Len(Append(<<>>, outcome[w])) = 1
    BY <1>1
<1>4. TypeOK'
    BY <1>1, <1>2, <1>3
<1>5. ~Busy(w)' /\ \A v \in Workers : v # w => Busy(v)' = Busy(v)
    BY <1>2 DEF Busy
<1>6. \A v \in Workers : v # w /\ Busy(v) => item[v] # r
    BY <1>1 DEF Partition, r
<1>7. r \notin feed
    BY <1>1 DEF Partition, r
<1>8. Partition'
  <2>1. \A q \in feed' : verdict'[q] = <<>>
    BY <1>1, <1>2, <1>7 DEF Partition
  <2>2. \A v \in Workers : Busy(v)' => item'[v] \notin feed' /\ verdict'[item'[v]] = <<>>
    BY <1>1, <1>2, <1>5, <1>6 DEF Partition
  <2>3. \A u, v \in Workers : Busy(u)' /\ Busy(v)' /\ item'[u] = item'[v] => u = v
    BY <1>2, <1>5 DEF Partition
  <2>4. ASSUME NEW q \in Refs
        PROVE  q \in feed' \/ (\E v \in Workers : Busy(v)' /\ item'[v] = q) \/ Len(verdict'[q]) = 1
    <3>1. CASE q = r
        BY <3>1, <1>1, <1>2, <1>3
    <3>2. CASE q # r
      <4>1. verdict'[q] = verdict[q]
        BY <3>2, <1>2
      <4>2. \A v \in Workers : Busy(v) /\ item[v] = q => Busy(v)' /\ item'[v] = q
        BY <3>2, <1>2, <1>5 DEF r
      <4>3. QED
        BY <4>1, <4>2, <1>2 DEF Partition
    <3>3. QED
        BY <3>1, <3>2
  <2>5. QED
    BY <2>1, <2>2, <2>3, <2>4 DEF Partition
<1>9. ExitInv'
    BY <1>2 DEF ExitInv, Send
<1>10. QED
    BY <1>4, <1>8, <1>9

\* A worker leaves once the feeder has closed in.
LEMMA DrainedInv == ASSUME Inv, NEW w \in Workers, Drained(w) PROVE Inv'
<1> USE DEF Inv, TypeOK, WorkerTo, Drained
<1>1. TypeOK'
    OBVIOUS
<1>2. \A v \in Workers : Busy(v)' = Busy(v) /\ item'[v] = item[v]
    BY DEF Busy
<1>3. Partition'
    BY <1>2 DEF Partition
<1>4. ExitInv'
    BY DEF ExitInv
<1>5. QED
    BY <1>1, <1>3, <1>4

\* Every step of the sweep keeps Inv.
LEMMA NextInv == Inv /\ [ReportNext]_reportVars => Inv'
<1> SUFFICES ASSUME Inv, [ReportNext]_reportVars PROVE Inv'
    OBVIOUS
<1>1. ASSUME NEW w \in Workers, WorkOnReport(w) PROVE Inv'
    BY <1>1, TakeInv, DrainedInv, ValidateInv, SendInv
    DEF WorkOnReport, TakeResource, ValidateResource, SendGroup
<1>2. CASE Close
    BY <1>2 DEF Close, workerVars, Inv, TypeOK, Partition, Busy, ExitInv
<1>3. CASE UNCHANGED <<workerVars, closed, verdict>>
    BY <1>3 DEF workerVars, Inv, TypeOK, Partition, Busy, ExitInv
<1>4. QED
    BY <1>1, <1>2, <1>3, Zenon
    DEF ReportNext, CloseOut, ConsumeReport, CollectGroup, RenderGroup, RenderSorted, Render,
        FinishReport, Finish,
        Crash, Ended, reportVars, vars

-----------------------------------------------------------------------------
(* What the stream of results promises *)

\* A sweep only reaches states of Inv.
THEOREM InvCorrect == SweepSpec => []Inv
BY InitInv, NextInv, PTL DEF SweepSpec

\* Whatever Inv allows, out is closed after every resource has reported.
LEMMA ClosedFact == Inv => ClosedAfterAllReported
<1> SUFFICES ASSUME Inv PROVE ClosedAfterAllReported
    OBVIOUS
<1> USE DEF Inv, TypeOK
<1>1. ASSUME NEW r \in Refs PROVE Len(verdict[r]) <= 1
  <2>1. CASE verdict[r] = <<>>
    BY <2>1
  <2>2. CASE verdict[r] # <<>>
    <3>1. r \notin feed /\ ~\E w \in Workers : Busy(w) /\ item[w] = r
        BY <2>2 DEF Partition
    <3>2. Len(verdict[r]) = 1
        BY <3>1 DEF Partition
    <3>3. QED
        BY <3>2
  <2>3. QED
    BY <2>1, <2>2
<1>2. ASSUME closed
      PROVE  (\A w \in Workers : wpc[w] = "exit") /\ (\A r \in Refs : Len(verdict[r]) = 1)
    BY <1>2, PoolFact DEF ExitInv, Partition, Busy
<1>3. QED
    BY <1>1, <1>2 DEF ClosedAfterAllReported

\* However the workers interleave, no resource reports twice, none is missing
\* when out is closed, and nobody is left to send on it.
THEOREM ClosedCorrect == SweepSpec => []ClosedAfterAllReported
BY ClosedFact, InvCorrect, PTL

\* Receiving a group reports its resource on the abstract stream.
LEMMA SendReports ==
    ASSUME Inv, NEW w \in Workers, Send(w)
    PROVE  AbstractSweep!Report(item[w])
<1> USE DEF Inv, TypeOK
<1> DEFINE r == item[w]
<1>1. r \in Refs /\ verdict[r] = <<>> /\ outcome[w] \in {"SUCCESS", "FAIL"}
    BY DEF Send, Busy, Partition
<1>2. verdict' = [verdict EXCEPT ![r] = Append(<<>>, outcome[w])] /\ UNCHANGED closed
    BY <1>1 DEF Send
<1> HIDE DEF r
<1>3. Append(<<>>, outcome[w]) # <<>> /\ Append(<<>>, outcome[w])[1] = outcome[w]
    BY <1>1
<1>4. streamVerdict' = [streamVerdict EXCEPT ![r] = outcome[w]]
    BY <1>1, <1>2, <1>3 DEF streamVerdict
<1>5. streamVerdict[r] = Unreported
    BY <1>1 DEF streamVerdict
<1>6. AbstractSweep!Prerequisites([q \in Refs |-> <<>>], r) = {}
    BY <1>1 DEF AbstractSweep!Prerequisites
<1>7. QED
    BY <1>1, <1>2, <1>4, <1>5, <1>6
    DEF AbstractSweep!Report, AbstractSweep!Passing, AbstractSweep!Unreported,
        AbstractSweep!SUCCESS, AbstractSweep!FAIL, Unreported, r

\* Closing out ends the abstract stream.
LEMMA CloseEnds == ASSUME Inv, Close PROVE AbstractSweep!End
<1> USE DEF Inv, TypeOK
<1>1. Inv'
    BY DEF Close, workerVars, Inv, Partition, Busy, ExitInv
<1>2. \A r \in Refs : Len(verdict[r]) = 1
    BY <1>1, ClosedFact, PoolFact DEF Close, workerVars, ExitInv, Partition, Busy
<1>3. \A r \in Refs : verdict[r] # <<>> /\ verdict[r][1] \in {"SUCCESS", "FAIL"}
    BY <1>2
<1>4. \A r \in Refs : streamVerdict[r] # Unreported
    BY <1>3 DEF streamVerdict, Unreported
<1>5. streamVerdict' = streamVerdict
    BY DEF Close, streamVerdict
<1>6. QED
    BY <1>4, <1>5 DEF Close, AbstractSweep!End, AbstractSweep!Unreported, Unreported,
        AbstractSweep!Refs, Refs

\* The sweep implements the abstract stream of results: every resource once,
\* in some order, and then the end.
THEOREM RefinementCorrect == SweepSpec => ImplementsSweep
<1>1. StartSweep => AbstractSweep!Init
  <2> SUFFICES ASSUME StartSweep PROVE AbstractSweep!Init
    OBVIOUS
  <2>1. [r \in Refs |-> <<>>] \in AbstractSweep!DependencyLists
    BY DEF AbstractSweep!DependencyLists, Refs, AbstractSweep!Refs
  <2>2. QED
    BY <2>1 DEF StartSweep, Init, AbstractSweep!Init, streamVerdict, AbstractSweep!Unreported,
        Unreported, Refs, AbstractSweep!Refs
<1>2. Inv /\ [ReportNext]_reportVars => [AbstractSweep!Next]_AbstractSweep!vars
  <2> SUFFICES ASSUME Inv, [ReportNext]_reportVars
               PROVE  [AbstractSweep!Next]_AbstractSweep!vars
    OBVIOUS
  <2>1. ASSUME NEW w \in Workers, Send(w) PROVE AbstractSweep!Next
    <3>1. item[w] \in AbstractSweep!Refs
        BY DEF Inv, TypeOK, Refs, AbstractSweep!Refs
    <3>2. QED
        BY <2>1, <3>1, SendReports DEF AbstractSweep!Next
  <2>2. CASE Close
    BY <2>2, CloseEnds DEF AbstractSweep!Next
  <2>3. CASE UNCHANGED <<closed, verdict>>
    BY <2>3 DEF AbstractSweep!vars, streamVerdict
  <2>4. \/ \E w \in Workers : Send(w)
        \/ Close
        \/ UNCHANGED <<closed, verdict>>
    BY Zenon DEF ReportNext, WorkOnReport, TakeResource, Take, Drained, ValidateResource, Validate,
        SendGroup, CloseOut, ConsumeReport, CollectGroup, RenderGroup, RenderSorted, Render,
        FinishReport, Finish,
        Crash, Ended, reportVars, vars
  <2>5. QED
    BY <2>1, <2>2, <2>3, <2>4
<1>3. QED
    BY <1>1, <1>2, InvCorrect, PTL DEF SweepSpec, ImplementsSweep, AbstractSweep!SafeSpec

-----------------------------------------------------------------------------
(* The order of a resource's results *)

\* A nonempty set of naturals has a least element.
LEMMA LeastElement ==
    ASSUME NEW S \in SUBSET Nat, S # {}
    PROVE  \E m \in S : \A n \in S : m <= n
<1>1. PICK m \in S : \A n \in S : ~(<<n, m>> \in OpToRel(<, Nat))
    BY NatLessThanWellFounded, WFMin
<1>2. ASSUME NEW n \in S, n < m PROVE <<n, m>> \in OpToRel(<, Nat)
  <2>1. <<n, m>> \in Nat \X Nat
     OBVIOUS
  <2>2. <<n, m>>[1] < <<n, m>>[2]
     BY <1>2
  <2>3. QED
     BY <2>1, <2>2, Zenon DEF OpToRel
<1>3. \A n \in S : ~(n < m)
    BY <1>1, <1>2, Zenon
<1>4. QED
    BY <1>3

\* A finite set of numbers has a k-th element for every k up to its size.
LEMMA KthElement ==
    ASSUME NEW n \in Nat, NEW S \in SUBSET (1..n), NEW k \in 1..Cardinality(S)
    PROVE  \E i \in S : Cardinality({j \in S : j < i}) = k - 1
<1> DEFINE UpTo(m) == {j \in S : j <= m}
<1>0. \A j \in S : j \in Int /\ 1 <= j /\ j <= n
    OBVIOUS
<1>1. \A m \in 0..n : IsFiniteSet(UpTo(m)) /\ Cardinality(UpTo(m)) \in Nat
  <2>1. IsFiniteSet(1..n)
    BY FS_Interval
  <2>2. \A m \in 0..n : UpTo(m) \in SUBSET (1..n)
    OBVIOUS
  <2>3. QED
    BY <2>1, <2>2, FS_Subset, FS_CardinalityType
<1>2. UpTo(n) = S /\ UpTo(0) = {}
  <2>1. \A j \in S : j <= n /\ ~(j <= 0)
    BY <1>0
  <2>2. QED
    BY <2>1, Zenon
<1>3. Cardinality(S) \in Nat /\ k \in Nat /\ 1 <= k /\ k <= Cardinality(S)
    BY <1>1, <1>2
<1> DEFINE T == {m \in 0..n : Cardinality(UpTo(m)) >= k}
<1>4. PICK m \in T : \A l \in T : m <= l
  <2>1. n \in T
    BY <1>2, <1>3
  <2>2. T \in SUBSET Nat
    OBVIOUS
  <2> HIDE DEF T
  <2>3. QED
    BY <2>1, <2>2, LeastElement
<1>5. m \in 1..n /\ m - 1 \in 0..n /\ m \in 0..n
    BY <1>2, <1>3, FS_EmptySet
<1>6. m - 1 \notin T
  <2>1. T \subseteq Nat
    OBVIOUS
  <2> HIDE DEF T
  <2>2. QED
    BY <1>4, <1>5, <2>1
<1> DEFINE below == UpTo(m - 1)
<1>7. Cardinality(below) < k /\ Cardinality(UpTo(m)) >= k
  <2>1. Cardinality(UpTo(m)) >= k /\ ~(Cardinality(below) >= k)
    BY <1>5, <1>6, Zenon
  <2>2. Cardinality(below) \in Nat
    BY <1>1, <1>5
  <2> HIDE DEF UpTo, below
  <2>3. QED
    BY <1>3, <2>1, <2>2
<1>8. {j \in S : j < m} = below
  <2>1. \A j \in S : j < m <=> j <= m - 1
    BY <1>0, <1>5
  <2>2. QED
    BY <2>1, Zenon
<1>9. UpTo(m) = IF m \in S THEN below \cup {m} ELSE below
  <2>1. \A j \in S : j <= m <=> j <= m - 1 \/ j = m
    BY <1>0, <1>5
  <2>2. m \in S => UpTo(m) = below \cup {m}
    BY <2>1, Zenon
  <2>3. m \notin S => UpTo(m) = below
    BY <2>1, Zenon
  <2>4. QED
    BY <2>2, <2>3, Zenon
<1>10. m \notin below
    BY <1>5
<1>11. IsFiniteSet(below) /\ Cardinality(below) \in Nat
    BY <1>1, <1>5
<1>12. m \in S
    BY <1>3, <1>7, <1>9, <1>11
<1>13. Cardinality(UpTo(m)) = Cardinality(below) + 1
    BY <1>9, <1>10, <1>11, <1>12, FS_AddElement
<1>14. Cardinality(below) = k - 1
    BY <1>3, <1>7, <1>11, <1>13
<1>15. QED
    BY <1>8, <1>12, <1>14

-----------------------------------------------------------------------------
(* Loops *)

\* Induction, over a set of numbers.
LEMMA Induction ==
    ASSUME NEW n \in Nat, NEW P \in SUBSET (0..n), 0 \in P,
           \A k \in 1..n : k - 1 \in P => k \in P
    PROVE  \A k \in 0..n : k \in P
<1> DEFINE Q == (0..n) \ P
<1>1. ASSUME Q # {} PROVE FALSE
  <2>1. PICK m \in Q : \A l \in Q : m <= l
    <3>1. Q \in SUBSET Nat
        OBVIOUS
    <3> HIDE DEF Q
    <3>2. QED
        BY <1>1, <3>1, LeastElement
  <2>2. m \in 1..n /\ m - 1 \in 0..n /\ m - 1 \in Nat /\ m \in Nat
    OBVIOUS
  <2>3. m - 1 \notin Q
    <3> HIDE DEF Q
    <3>1. QED
        BY <2>1, <2>2
  <2>4. QED
    BY <2>2, <2>3
<1>2. QED
    BY <1>1

\* The values of a loop that starts with s0 and makes n turns by F.
Loop(g, S, s0, n, F) ==
    g \in [0..n -> S] /\ g[0] = s0 /\ \A k \in 1..n : g[k] = F[k][g[k - 1]]

\* There is a run for every start, body and number of turns.
LEMMA LoopExists ==
    ASSUME NEW S, NEW s0 \in S, NEW n \in Nat, NEW F \in [1..n -> [S -> S]]
    PROVE  \E g : Loop(g, S, s0, n, F)
<1> DEFINE P == {m \in 0..n : \E g : Loop(g, S, s0, m, F)}
<1>1. 0 \in P
  <2>1. Loop([i \in 0..0 |-> s0], S, s0, 0, F)
    BY DEF Loop
  <2>2. QED
    BY <2>1
<1>2. ASSUME NEW m \in 1..n, m - 1 \in P PROVE m \in P
  <2>1. PICK g : Loop(g, S, s0, m - 1, F)
    BY <1>2
  <2> DEFINE h == [i \in 0..m |-> IF i = m THEN F[m][g[m - 1]] ELSE g[i]]
  <2>2. h \in [0..m -> S] /\ h[0] = s0
    BY <2>1 DEF Loop
  <2>3. ASSUME NEW k \in 1..m PROVE h[k] = F[k][h[k - 1]]
    <3>1. k - 1 \in 0..(m - 1) /\ k - 1 \in 0..m /\ k - 1 # m /\ k \in 0..m
        OBVIOUS
    <3>2. h[k - 1] = g[k - 1]
        BY <3>1
    <3>3. CASE k = m
        BY <3>1, <3>2, <3>3
    <3>4. CASE k # m
      <4>1. k \in 1..(m - 1)
        BY <3>4
      <4>2. h[k] = g[k]
        BY <3>1, <3>4
      <4>3. QED
        BY <4>1, <4>2, <3>2, <2>1 DEF Loop
    <3>5. QED
        BY <3>3, <3>4
  <2>4. Loop(h, S, s0, m, F)
    <3> HIDE DEF h
    <3>1. QED
        BY <2>2, <2>3 DEF Loop
  <2>5. QED
    BY <2>4
<1>3. P \in SUBSET (0..n) /\ n \in 0..n
    OBVIOUS
<1>4. n \in P
  <2> HIDE DEF P
  <2>1. QED
    BY <1>1, <1>2, <1>3, Induction
<1>5. QED
    BY <1>4

\* There is only one.
LEMMA LoopUnique ==
    ASSUME NEW S, NEW s0, NEW n \in Nat, NEW F, NEW g, Loop(g, S, s0, n, F), NEW c,
           DOMAIN c = 0..n, c[0] = s0,
           \A k \in 1..n : c[k - 1] \in S => c[k] = F[k][c[k - 1]]
    PROVE  \A k \in 0..n : c[k] = g[k]
<1> DEFINE P == {k \in 0..n : c[k] = g[k]}
<1>1. 0 \in P
    BY DEF Loop
<1>2. ASSUME NEW k \in 1..n, k - 1 \in P PROVE k \in P
  <2>1. c[k - 1] = g[k - 1] /\ g[k - 1] \in S
    BY <1>2 DEF Loop
  <2>2. c[k] = F[k][c[k - 1]] /\ g[k] = F[k][g[k - 1]]
    BY <2>1 DEF Loop
  <2>3. QED
    BY <2>1, <2>2
<1>3. P \in SUBSET (0..n)
    OBVIOUS
<1>4. \A k \in 0..n : k \in P
  <2> HIDE DEF P
  <2>1. QED
    BY <1>1, <1>2, <1>3, Induction
<1>5. QED
    BY <1>4

-----------------------------------------------------------------------------
(* have-patterns *)

ScanState(t) == [left : SUBSET DOMAIN t.pats, found : SUBSET DOMAIN t.pats, err : BOOLEAN]

\* A line leaves a scan a scan.
LEMMA ScanLineType ==
    ASSUME NEW t \in PatternLists, NEW s \in ScanState(t), NEW i \in 1..t.n
    PROVE  scanLine(t, s, i) \in ScanState(t)
BY DEF scanLine, ScanState

\* Scan is the loop over the lines.
LEMMA ScanFact ==
    ASSUME NEW t \in PatternLists
    PROVE  /\ t.n \in Nat
           /\ \E g \in [0..t.n -> ScanState(t)] :
                /\ Scan(t) = g[t.n]
                /\ g[0] = [left |-> DOMAIN t.pats, found |-> {}, err |-> FALSE]
                /\ \A k \in 1..t.n : g[k] = scanLine(t, g[k - 1], k)
<1> DEFINE n == t.n
           S == ScanState(t)
           s0 == [left |-> DOMAIN t.pats, found |-> {}, err |-> FALSE]
           F == [k \in 1..n |-> [v \in S |-> scanLine(t, v, k)]]
           E(s) == [i \in 0..n |-> IF i = 0 THEN s0 ELSE scanLine(t, s[i - 1], i)]
           c == CHOOSE s : s = E(s)
<1>1. n \in Nat
    BY MatchersAssumption DEF PatternLists
<1>2. s0 \in S
    BY DEF ScanState
<1>3. F \in [1..n -> [S -> S]]
    BY ScanLineType
<1>4. Scan(t) = c[n]
    BY DEF Scan
<1> HIDE DEF n, S, s0
<1>5. PICK g : Loop(g, S, s0, n, F)
  <2> HIDE DEF F
  <2>1. QED
    BY <1>1, <1>2, <1>3, LoopExists
<1>6. g \in [0..n -> S] /\ g[0] = s0
    BY <1>5 DEF Loop
<1>7. ASSUME NEW k \in 1..n PROVE g[k] = scanLine(t, g[k - 1], k)
  <2>1. g[k - 1] \in S
    BY <1>1, <1>6
  <2>2. F[k][g[k - 1]] = scanLine(t, g[k - 1], k)
    BY <2>1
  <2> HIDE DEF F
  <2>3. QED
    BY <1>5, <2>2 DEF Loop
<1>8. g = E(g)
    BY <1>1, <1>6, <1>7
<1>9. c = E(c)
  <2> HIDE DEF E
  <2>1. QED
    BY <1>8
<1> HIDE DEF c
<1>10. DOMAIN c = 0..n /\ c[0] = s0 /\ \A k \in 1..n : c[k] = scanLine(t, c[k - 1], k)
    BY <1>1, <1>9
<1>11. c[n] = g[n]
  <2>1. ASSUME NEW k \in 1..n, c[k - 1] \in S PROVE c[k] = F[k][c[k - 1]]
    BY <1>10, <2>1
  <2> HIDE DEF F
  <2>2. \A k \in 0..n : c[k] = g[k]
    BY <1>1, <1>5, <1>10, <2>1, LoopUnique
  <2>3. QED
    BY <1>1, <2>2
<1>12. QED
  <2> HIDE DEF E, F
  <2>1. QED
    BY <1>1, <1>4, <1>6, <1>7, <1>11 DEF n, S, s0

Hit(t, p, k) == \E i \in 1..k : i \in t.pats[p].hits

\* After k lines a scan that met no error has dropped the patterns that one of
\* them matched, and has found those of them that were wanted.
LEMMA ScanExact ==
    ASSUME NEW t \in PatternLists, ~Scan(t).err
    PROVE  /\ Scan(t).left = {p \in DOMAIN t.pats : ~Hit(t, p, t.n)}
           /\ Scan(t).found = {p \in DOMAIN t.pats : Hit(t, p, t.n) /\ ~t.pats[p].inverse}
<1> DEFINE n == t.n
           D == DOMAIN t.pats
           Exact(s, k) == ~s.err => /\ \A p \in D : p \in s.left <=> ~Hit(t, p, k)
                                    /\ \A p \in D : p \in s.found <=> Hit(t, p, k) /\ ~t.pats[p].inverse
<1>1. n \in Nat
    BY ScanFact
<1>2. PICK g \in [0..n -> ScanState(t)] :
          /\ Scan(t) = g[n]
          /\ g[0] = [left |-> D, found |-> {}, err |-> FALSE]
          /\ \A k \in 1..n : g[k] = scanLine(t, g[k - 1], k)
    BY ScanFact
<1> HIDE DEF n
<1> DEFINE P == {k \in 0..n : Exact(g[k], k)}
<1>3. 0 \in P
    BY <1>1, <1>2 DEF Hit
<1>4. ASSUME NEW k \in 1..n, k - 1 \in P PROVE k \in P
  <2> DEFINE s == g[k - 1]
  <2>1. s \in ScanState(t) /\ Exact(s, k - 1) /\ g[k] = scanLine(t, s, k) /\ k \in 0..n
    BY <1>1, <1>2, <1>4
  <2>2. \A p \in D : Hit(t, p, k) <=> Hit(t, p, k - 1) \/ k \in t.pats[p].hits
    BY <1>1 DEF Hit
  <2> HIDE DEF s
  <2>3. CASE s.err
    BY <2>1, <2>3 DEF scanLine
  <2>4. CASE ~s.err /\ s.left = {}
    BY <2>1, <2>2, <2>4 DEF scanLine
  <2>5. CASE ~s.err /\ s.left # {} /\ t.long = k
    <3>1. g[k].err
        BY <2>1, <2>5 DEF scanLine, ScanState
    <3>2. QED
        BY <2>1, <3>1
  <2>6. CASE ~s.err /\ s.left # {} /\ t.long # k
    <3> DEFINE hit == {p \in s.left : k \in t.pats[p].hits}
    <3>1. /\ g[k].left = s.left \ hit
          /\ g[k].found = s.found \cup {p \in hit : ~t.pats[p].inverse}
        BY <2>1, <2>6 DEF scanLine, ScanState
    <3>2. s.left \subseteq D /\ s.found \subseteq D
        BY <2>1 DEF ScanState
    <3>3. \A p \in D : p \in g[k].left <=> ~Hit(t, p, k)
        BY <2>1, <2>2, <2>6, <3>1
    <3>4. \A p \in D : p \in g[k].found <=> Hit(t, p, k) /\ ~t.pats[p].inverse
        BY <2>1, <2>2, <2>6, <3>1
    <3>5. QED
        BY <2>1, <3>3, <3>4
  <2>7. QED
    BY <2>3, <2>4, <2>5, <2>6
<1>5. P \in SUBSET (0..n) /\ n \in 0..n
    BY <1>1
<1>6. n \in P
  <2> HIDE DEF P
  <2>1. QED
    BY <1>1, <1>3, <1>4, <1>5, Induction
<1>7. Exact(Scan(t), n) /\ Scan(t) \in ScanState(t)
    BY <1>1, <1>2, <1>5, <1>6
<1>8. QED
    BY <1>7 DEF ScanState, n

Answers == [ok : BOOLEAN, err : BOOLEAN]

\* What a comparison says, as a matcher returns it.
LEMMA SaysFact ==
    ASSUME NEW v
    PROVE  /\ Says(v) \in Answers
           /\ Says(v).ok <=> v = "T"
           /\ Says(v).err <=> v = "E"
<1>1. (v = "T") \in BOOLEAN /\ (v = "E") \in BOOLEAN
    OBVIOUS
<1>2. Says(v).ok = (v = "T") /\ Says(v).err = (v = "E")
    BY DEF Says
<1>3. Says(v) \in Answers
    BY <1>1 DEF Says, Answers
<1>4. QED
    BY <1>2, <1>3

\* What have-patterns says of a text it could read is whether each of its
\* patterns holds of the whole text.
LEMMA HavePatternsFact ==
    ASSUME NEW t \in PatternLists
    PROVE  /\ HavePatterns(t) \in Answers
           /\ ~(HavePatterns(t).ok /\ HavePatterns(t).err)
           /\ ~HavePatterns(t).err =>
                /\ ~t.bad
                /\ HavePatterns(t).ok <=> \A p \in DOMAIN t.pats : Holds(t, p)
<1>1. \/ HavePatterns(t) = Says("E")
      \/ HavePatterns(t) \in {Says("T"), Says("F")}
    BY DEF HavePatterns, Failed
<1>2. HavePatterns(t) \in Answers /\ ~(HavePatterns(t).ok /\ HavePatterns(t).err)
    BY <1>1, SaysFact
<1>3. ASSUME ~HavePatterns(t).err
      PROVE  /\ ~t.bad
             /\ HavePatterns(t).ok <=> \A p \in DOMAIN t.pats : Holds(t, p)
  <2> DEFINE D == DOMAIN t.pats
             s == Scan(t)
             unseen == {p \in s.left : t.pats[p].inverse \/ t.pats[p].empty}
  <2>1. Says("E").err
    BY SaysFact
  <2>2. ~t.bad /\ ~s.err
    BY <1>3, <2>1 DEF HavePatterns, Failed
  <2>3. /\ s.left = {p \in D : ~Hit(t, p, t.n)}
        /\ s.found = {p \in D : Hit(t, p, t.n) /\ ~t.pats[p].inverse}
    BY <2>2, ScanExact
  <2>4. HavePatterns(t) = Says(IF s.found \cup unseen = D THEN "T" ELSE "F")
    BY <2>2 DEF HavePatterns
  <2>5. HavePatterns(t).ok <=> s.found \cup unseen = D
    <3>1. CASE s.found \cup unseen = D
        BY <3>1, <2>4, SaysFact
    <3>2. CASE s.found \cup unseen # D
      <4>1. HavePatterns(t) = Says("F")
        BY <3>2, <2>4
      <4>2. QED
        BY <3>2, <4>1, SaysFact
    <3>3. QED
        BY <3>1, <3>2
  <2>6. \A p \in D : (t.pats[p].hits \cap (1..t.n) = {}) <=> ~Hit(t, p, t.n)
    BY DEF Hit
  <2>7. \A p \in D : Holds(t, p) <=> IF t.pats[p].inverse THEN ~Hit(t, p, t.n)
                                     ELSE t.pats[p].empty \/ Hit(t, p, t.n)
    BY <2>6 DEF Holds
  <2>8. \A p \in D : p \in s.found \cup unseen <=> Holds(t, p)
    BY <2>3, <2>7
  <2>9. s.found \cup unseen \subseteq D
    BY <2>3
  <2>10. s.found \cup unseen = D <=> \A p \in D : Holds(t, p)
    <3> HIDE DEF unseen, s
    <3>1. QED
        BY <2>8, <2>9, Zenon
  <2>11. QED
    BY <2>2, <2>5, <2>10
<1>4. QED
    BY <1>2, <1>3

-----------------------------------------------------------------------------
(* Matchers: from the leaves up *)

\* A simple expectation has no parts.
LEMMA SimpleFact ==
    ASSUME NEW t \in Simple
    PROVE  /\ t.k \in {"leaf", "bad"}
           /\ t.k = "leaf" => t.says \in {"T", "F", "E"}
           /\ Children(t) = <<>>
<1>1. \/ \E v \in Leaves : t = Leaf(v)
      \/ t = Bad
    BY DEF Simple
<1>2. /\ t.k \in {"leaf", "bad"}
      /\ t.k = "leaf" => t.says \in {"T", "F", "E"}
    BY <1>1, MatchersAssumption DEF Leaf, Bad
<1>3. QED
    BY <1>2 DEF Children

\* The parts of a combinator.
LEMMA WideFact ==
    ASSUME NEW ms, NEW t \in Wide(ms)
    PROVE  /\ t.k \in {"not", "with", "and", "or", "elements"}
           /\ t.k \in {"not", "with"} => t.m \in ms /\ Children(t) = <<t.m>>
           /\ t.k = "with" => t.transforms \in BOOLEAN
           /\ t.k \in {"and", "or", "elements"} => t.ms \in Seq(ms) /\ Children(t) = t.ms
           /\ Children(t) \in Seq(ms)
<1>1. CASE t \in [k : {"not"}, m : ms]
    BY <1>1 DEF Children
<1>2. CASE t \in [k : {"with"}, transforms : BOOLEAN, m : ms]
    BY <1>2 DEF Children
<1>3. CASE t \in [k : {"and", "or", "elements"}, ms : Seq(ms)]
    BY <1>3 DEF Children
<1>4. QED
    BY <1>1, <1>2, <1>3 DEF Wide

\* What each reading makes of a simple expectation.
LEMMA SimpleUnfolds ==
    ASSUME NEW t \in Simple
    PROVE  /\ Match(t) = matchNode(t, <<>>)
           /\ Meaning(t) = meaningOf(t, <<>>)
           /\ Built(t) = buildNode(t, <<>>)
           /\ Swallows(t) = swallowsAt(t, <<>>)
<1>1. Children(t) = <<>>
    BY SimpleFact
<1>2. DOMAIN <<>> = {}
    OBVIOUS
<1>3. Match(t) = matchNode(t, <<>>)
    BY <1>1, <1>2 DEF Match, FromLeaves
<1>4. Meaning(t) = meaningOf(t, <<>>)
    BY <1>1, <1>2 DEF Meaning, FromLeaves
<1>5. Built(t) = buildNode(t, <<>>)
    BY <1>1, <1>2 DEF Built, FromLeaves
<1>6. Swallows(t) = swallowsAt(t, <<>>)
    BY <1>1, <1>2 DEF Swallows, FromLeaves
<1>7. QED
    BY <1>3, <1>4, <1>5, <1>6

\* The parts of an expectation of one level are simple.
LEMMA ShallowFact ==
    ASSUME NEW u \in Shallow, NEW j \in DOMAIN Children(u)
    PROVE  Children(u)[j] \in Simple /\ Children(Children(u)[j]) = <<>>
<1>1. CASE u \in Simple
    BY <1>1, SimpleFact
<1>2. CASE u \in Wide(Simple)
    BY <1>2, WideFact, SimpleFact
<1>3. QED
    BY <1>1, <1>2 DEF Shallow

\* Match, of an expectation of one level and of two: the node over its parts.
LEMMA MatchUnfolds ==
    ASSUME NEW t \in Shallow \cup Wide(Shallow)
    PROVE  Match(t) = matchNode(t, [i \in DOMAIN Children(t) |-> Match(Children(t)[i])])
<1> DEFINE inner(u) == matchNode(u, [j \in DOMAIN Children(u) |-> matchNode(Children(u)[j], <<>>)])
<1>1. DOMAIN <<>> = {}
    OBVIOUS
<1>2. \A v : Match(v) = matchNode(v, [i \in DOMAIN Children(v) |-> inner(Children(v)[i])])
    BY DEF Match, FromLeaves
<1>3. ASSUME NEW u \in Shallow PROVE Match(u) = inner(u)
  <2> DEFINE f == [i \in DOMAIN Children(u) |-> inner(Children(u)[i])]
             g == [i \in DOMAIN Children(u) |-> matchNode(Children(u)[i], <<>>)]
  <2>1. \A i \in DOMAIN Children(u) : inner(Children(u)[i]) = matchNode(Children(u)[i], <<>>)
    BY <1>1, ShallowFact
  <2>2. f = g
    <3> HIDE DEF inner
    <3>1. QED
        BY <2>1
  <2>3. QED
    BY <1>2, <2>2
<1>4. \A i \in DOMAIN Children(t) : Children(t)[i] \in Shallow
    BY ShallowFact, WideFact DEF Shallow
<1>5. [i \in DOMAIN Children(t) |-> inner(Children(t)[i])] = [i \in DOMAIN Children(t) |-> Match(Children(t)[i])]
  <2> HIDE DEF inner
  <2>1. QED
    BY <1>3, <1>4
<1>6. QED
    BY <1>2, <1>5

\* So with Meaning,
LEMMA MeaningUnfolds ==
    ASSUME NEW t \in Shallow \cup Wide(Shallow)
    PROVE  Meaning(t) = meaningOf(t, [i \in DOMAIN Children(t) |-> Meaning(Children(t)[i])])
<1> DEFINE inner(u) == meaningOf(u, [j \in DOMAIN Children(u) |-> meaningOf(Children(u)[j], <<>>)])
<1>1. DOMAIN <<>> = {}
    OBVIOUS
<1>2. \A v : Meaning(v) = meaningOf(v, [i \in DOMAIN Children(v) |-> inner(Children(v)[i])])
    BY DEF Meaning, FromLeaves
<1>3. ASSUME NEW u \in Shallow PROVE Meaning(u) = inner(u)
  <2> DEFINE f == [i \in DOMAIN Children(u) |-> inner(Children(u)[i])]
             g == [i \in DOMAIN Children(u) |-> meaningOf(Children(u)[i], <<>>)]
  <2>1. \A i \in DOMAIN Children(u) : inner(Children(u)[i]) = meaningOf(Children(u)[i], <<>>)
    BY <1>1, ShallowFact
  <2>2. f = g
    <3> HIDE DEF inner
    <3>1. QED
        BY <2>1
  <2>3. QED
    BY <1>2, <2>2
<1>4. \A i \in DOMAIN Children(t) : Children(t)[i] \in Shallow
    BY ShallowFact, WideFact DEF Shallow
<1>5. [i \in DOMAIN Children(t) |-> inner(Children(t)[i])] = [i \in DOMAIN Children(t) |-> Meaning(Children(t)[i])]
  <2> HIDE DEF inner
  <2>1. QED
    BY <1>3, <1>4
<1>6. QED
    BY <1>2, <1>5

\* with Built,
LEMMA BuiltUnfolds ==
    ASSUME NEW t \in Shallow \cup Wide(Shallow)
    PROVE  Built(t) = buildNode(t, [i \in DOMAIN Children(t) |-> Built(Children(t)[i])])
<1> DEFINE inner(u) == buildNode(u, [j \in DOMAIN Children(u) |-> buildNode(Children(u)[j], <<>>)])
<1>1. DOMAIN <<>> = {}
    OBVIOUS
<1>2. \A v : Built(v) = buildNode(v, [i \in DOMAIN Children(v) |-> inner(Children(v)[i])])
    BY DEF Built, FromLeaves
<1>3. ASSUME NEW u \in Shallow PROVE Built(u) = inner(u)
  <2> DEFINE f == [i \in DOMAIN Children(u) |-> inner(Children(u)[i])]
             g == [i \in DOMAIN Children(u) |-> buildNode(Children(u)[i], <<>>)]
  <2>1. \A i \in DOMAIN Children(u) : inner(Children(u)[i]) = buildNode(Children(u)[i], <<>>)
    BY <1>1, ShallowFact
  <2>2. f = g
    <3> HIDE DEF inner
    <3>1. QED
        BY <2>1
  <2>3. QED
    BY <1>2, <2>2
<1>4. \A i \in DOMAIN Children(t) : Children(t)[i] \in Shallow
    BY ShallowFact, WideFact DEF Shallow
<1>5. [i \in DOMAIN Children(t) |-> inner(Children(t)[i])] = [i \in DOMAIN Children(t) |-> Built(Children(t)[i])]
  <2> HIDE DEF inner
  <2>1. QED
    BY <1>3, <1>4
<1>6. QED
    BY <1>2, <1>5

\* and with Swallows.
LEMMA SwallowsUnfolds ==
    ASSUME NEW t \in Shallow \cup Wide(Shallow)
    PROVE  Swallows(t) = swallowsAt(t, [i \in DOMAIN Children(t) |-> Swallows(Children(t)[i])])
<1> DEFINE inner(u) == swallowsAt(u, [j \in DOMAIN Children(u) |-> swallowsAt(Children(u)[j], <<>>)])
<1>1. DOMAIN <<>> = {}
    OBVIOUS
<1>2. \A v : Swallows(v) = swallowsAt(v, [i \in DOMAIN Children(v) |-> inner(Children(v)[i])])
    BY DEF Swallows, FromLeaves
<1>3. ASSUME NEW u \in Shallow PROVE Swallows(u) = inner(u)
  <2> DEFINE f == [i \in DOMAIN Children(u) |-> inner(Children(u)[i])]
             g == [i \in DOMAIN Children(u) |-> swallowsAt(Children(u)[i], <<>>)]
  <2>1. \A i \in DOMAIN Children(u) : inner(Children(u)[i]) = swallowsAt(Children(u)[i], <<>>)
    BY <1>1, ShallowFact
  <2>2. f = g
    <3> HIDE DEF inner
    <3>1. QED
        BY <2>1
  <2>3. QED
    BY <1>2, <2>2
<1>4. \A i \in DOMAIN Children(t) : Children(t)[i] \in Shallow
    BY ShallowFact, WideFact DEF Shallow
<1>5. [i \in DOMAIN Children(t) |-> inner(Children(t)[i])] = [i \in DOMAIN Children(t) |-> Swallows(Children(t)[i])]
  <2> HIDE DEF inner
  <2>1. QED
    BY <1>3, <1>4
<1>6. QED
    BY <1>2, <1>5

Values == {"T", "F", "E"}

\* A matcher's answer is one: a match, a mismatch or an error.
Sound(r) == r \in Answers /\ ~(r.ok /\ r.err)

\* Unless it is an error, it is what v says.
Tells(r, v) == ~r.err => v = IF r.ok THEN "T" ELSE "F"

\* The least of the parts at which a combinator stops.
LEMMA FirstStop ==
    ASSUME NEW n \in Nat, NEW S \in SUBSET (1..n), S # {}
    PROVE  (CHOOSE i \in S : \A j \in S : i <= j) \in S
<1>1. S \in SUBSET Nat
    OBVIOUS
<1>2. \E i \in S : \A j \in S : i <= j
    BY <1>1, LeastElement
<1>3. QED
    BY <1>2, Zenon

\* AndMatcher tells the conjunction of what its parts tell.
LEMMA AndFact ==
    ASSUME NEW n \in Nat, NEW rs, DOMAIN rs = 1..n, \A i \in 1..n : Sound(rs[i])
    PROVE  /\ Sound(AndMatch(rs))
           /\ \A vs : DOMAIN vs = 1..n /\ (\A i \in 1..n : Tells(rs[i], vs[i])) =>
                Tells(AndMatch(rs), AllOf({vs[i] : i \in DOMAIN vs}))
<1> DEFINE stops == {i \in DOMAIN rs : ~rs[i].ok \/ rs[i].err}
           f == CHOOSE i \in stops : \A j \in stops : i <= j
<1>1. CASE stops = {}
  <2>1. AndMatch(rs) = Says("T")
    BY <1>1 DEF AndMatch
  <2>2. Sound(AndMatch(rs)) /\ AndMatch(rs).ok
    BY <2>1, SaysFact DEF Sound
  <2>3. ASSUME NEW vs, DOMAIN vs = 1..n, \A i \in 1..n : Tells(rs[i], vs[i])
        PROVE  AllOf({vs[i] : i \in DOMAIN vs}) = "T"
    <3>1. \A i \in 1..n : vs[i] = "T"
        BY <1>1, <2>3 DEF Tells
    <3>2. "F" \notin {vs[i] : i \in DOMAIN vs} /\ "E" \notin {vs[i] : i \in DOMAIN vs}
        BY <2>3, <3>1
    <3>3. QED
        BY <3>2 DEF AllOf
  <2>4. QED
    BY <2>2, <2>3 DEF Tells
<1>2. CASE stops # {}
  <2>1. f \in stops
    <3>1. stops \in SUBSET (1..n)
        OBVIOUS
    <3> HIDE DEF stops
    <3>2. QED
        BY <1>2, <3>1, FirstStop
  <2>2. AndMatch(rs) = [ok |-> FALSE, err |-> rs[f].err]
    BY <1>2 DEF AndMatch
  <2> HIDE DEF f
  <2>3. rs[f].err \in BOOLEAN /\ f \in 1..n
    BY <2>1 DEF Sound, Answers
  <2>4. Sound(AndMatch(rs)) /\ ~AndMatch(rs).ok /\ AndMatch(rs).err = rs[f].err
    BY <2>2, <2>3 DEF Sound, Answers
  <2>5. ASSUME NEW vs, DOMAIN vs = 1..n, \A i \in 1..n : Tells(rs[i], vs[i]), ~rs[f].err
        PROVE  AllOf({vs[i] : i \in DOMAIN vs}) = "F"
    <3>1. vs[f] = "F"
        BY <2>1, <2>3, <2>5 DEF Tells
    <3>2. "F" \in {vs[i] : i \in DOMAIN vs}
        BY <2>3, <2>5, <3>1
    <3>3. QED
        BY <3>2 DEF AllOf
  <2>6. QED
    BY <2>4, <2>5 DEF Tells
<1>3. QED
    BY <1>1, <1>2

\* OrMatcher tells the disjunction, which is the negation of a conjunction.
LEMMA OrFact ==
    ASSUME NEW n \in Nat, NEW rs, DOMAIN rs = 1..n, \A i \in 1..n : Sound(rs[i])
    PROVE  /\ Sound(OrMatch(rs))
           /\ \A vs : DOMAIN vs = 1..n /\ (\A i \in 1..n : Tells(rs[i], vs[i])) =>
                Tells(OrMatch(rs), Neg(AllOf({Neg(vs[i]) : i \in DOMAIN vs})))
<1> DEFINE stops == {i \in DOMAIN rs : rs[i].ok \/ rs[i].err}
           f == CHOOSE i \in stops : \A j \in stops : i <= j
<1>1. CASE stops = {}
  <2>1. OrMatch(rs) = Says("F")
    BY <1>1 DEF OrMatch
  <2>2. Sound(OrMatch(rs)) /\ ~OrMatch(rs).ok
    BY <2>1, SaysFact DEF Sound
  <2>3. ASSUME NEW vs, DOMAIN vs = 1..n, \A i \in 1..n : Tells(rs[i], vs[i])
        PROVE  Neg(AllOf({Neg(vs[i]) : i \in DOMAIN vs})) = "F"
    <3>1. \A i \in 1..n : Neg(vs[i]) = "T"
        BY <1>1, <2>3 DEF Tells, Neg
    <3>2. "F" \notin {Neg(vs[i]) : i \in DOMAIN vs} /\ "E" \notin {Neg(vs[i]) : i \in DOMAIN vs}
        BY <2>3, <3>1
    <3>3. QED
        BY <3>2 DEF AllOf, Neg
  <2>4. QED
    BY <2>2, <2>3 DEF Tells
<1>2. CASE stops # {}
  <2>1. f \in stops
    <3>1. stops \in SUBSET (1..n)
        OBVIOUS
    <3> HIDE DEF stops
    <3>2. QED
        BY <1>2, <3>1, FirstStop
  <2>2. OrMatch(rs) = [ok |-> rs[f].ok /\ ~rs[f].err, err |-> rs[f].err]
    BY <1>2 DEF OrMatch
  <2> HIDE DEF f
  <2>3. rs[f].err \in BOOLEAN /\ rs[f].ok \in BOOLEAN /\ f \in 1..n /\ Sound(rs[f]) /\ (rs[f].ok \/ rs[f].err)
    BY <2>1 DEF Sound, Answers
  <2>4. Sound(OrMatch(rs)) /\ (OrMatch(rs).ok <=> ~rs[f].err) /\ OrMatch(rs).err = rs[f].err
    BY <2>2, <2>3 DEF Sound, Answers
  <2>5. ASSUME NEW vs, DOMAIN vs = 1..n, \A i \in 1..n : Tells(rs[i], vs[i]), ~rs[f].err
        PROVE  Neg(AllOf({Neg(vs[i]) : i \in DOMAIN vs})) = "T"
    <3>1. Neg(vs[f]) = "F"
        BY <2>3, <2>5 DEF Tells, Neg
    <3>2. "F" \in {Neg(vs[i]) : i \in DOMAIN vs}
        BY <2>3, <2>5, <3>1
    <3>3. QED
        BY <3>2 DEF AllOf, Neg
  <2>6. QED
    BY <2>4, <2>5 DEF Tells
<1>3. QED
    BY <1>1, <1>2

-----------------------------------------------------------------------------
(* Matchers: what is judged is what is meant *)

\* A node can be built if its parts can.
LEMMA BuildNodeFact ==
    ASSUME NEW t, NEW built
    PROVE  /\ buildNode(t, built) \in BOOLEAN
           /\ buildNode(t, built) => t.k \notin {"bad", "missing"} /\ \A i \in DOMAIN built : built[i]
BY DEF buildNode

\* A node swallows nothing if its parts do not, and no part of a
\* contain-elements is in error.
LEMMA SwallowsAtFact ==
    ASSUME NEW t, NEW below, ~swallowsAt(t, below), NEW i \in DOMAIN below
    PROVE  ~below[i] /\ (t.k = "elements" => ~Match(t.ms[i]).err)
BY DEF swallowsAt

\* The answer is one, and where the expectation could be built and no error
\* is swallowed it is the expectation's meaning.
Agrees(t) ==
    /\ Sound(Match(t))
    /\ Meaning(t) \in Values
    /\ Built(t) /\ ~Swallows(t) => Tells(Match(t), Meaning(t))

\* A comparison agrees.
LEMMA SimpleAgrees == ASSUME NEW t \in Simple PROVE Agrees(t)
<1>1. /\ Match(t) = matchNode(t, <<>>)
      /\ Meaning(t) = meaningOf(t, <<>>)
      /\ Built(t) = buildNode(t, <<>>)
    BY SimpleUnfolds
<1>2. CASE t.k = "leaf"
  <2>1. t.says \in Values
    BY <1>2, SimpleFact DEF Values
  <2>2. Match(t) = Says(t.says) /\ Meaning(t) = t.says
    BY <1>1, <1>2 DEF matchNode, meaningOf
  <2>3. QED
    BY <2>1, <2>2, SaysFact DEF Agrees, Sound, Tells, Values
<1>3. CASE t.k = "bad"
  <2>1. Match(t) = Says("E") /\ Meaning(t) = "E"
    BY <1>1, <1>3 DEF matchNode, meaningOf, Failed
  <2>2. ~Built(t)
    BY <1>1, <1>3, BuildNodeFact
  <2>3. QED
    BY <2>1, <2>2, SaysFact DEF Agrees, Sound, Values
<1>4. QED
    BY <1>2, <1>3, SimpleFact

\* A combinator agrees if its parts do.
LEMMA NodeAgrees ==
    ASSUME NEW ms \in SUBSET Shallow, NEW t \in Wide(ms), \A m \in ms : Agrees(m)
    PROVE  Agrees(t)
<1> DEFINE cs == Children(t)
           rs == [i \in DOMAIN cs |-> Match(cs[i])]
           vs == [i \in DOMAIN cs |-> Meaning(cs[i])]
           bs == [i \in DOMAIN cs |-> Built(cs[i])]
           ws == [i \in DOMAIN cs |-> Swallows(cs[i])]
           n  == Len(cs)
<1>1. t \in Shallow \cup Wide(Shallow)
    BY DEF Wide
<1>2. /\ Match(t) = matchNode(t, rs)
      /\ Meaning(t) = meaningOf(t, vs)
      /\ Built(t) = buildNode(t, bs)
      /\ Swallows(t) = swallowsAt(t, ws)
    BY <1>1, MatchUnfolds, MeaningUnfolds, BuiltUnfolds, SwallowsUnfolds
<1>3. cs \in Seq(ms) /\ n \in Nat /\ DOMAIN cs = 1..n
    BY WideFact
<1>4. \A i \in 1..n : cs[i] \in ms /\ Agrees(cs[i])
    BY <1>3
<1>5. \A i \in 1..n : Built(t) => Built(cs[i])
    BY <1>2, <1>3, BuildNodeFact, Zenon
<1>6. ASSUME NEW i \in 1..n, ~Swallows(t) PROVE ~Swallows(cs[i])
  <2>1. i \in DOMAIN ws
    BY <1>3
  <2>2. ~swallowsAt(t, ws)
    BY <1>2, <1>6, Zenon
  <2> HIDE DEF ws
  <2>3. ~ws[i]
    BY <2>1, <2>2, SwallowsAtFact, Zenon
  <2> USE DEF ws
  <2>4. QED
    BY <1>3, <2>3, Zenon
<1>7. DOMAIN rs = 1..n /\ DOMAIN vs = 1..n
    BY <1>3
<1>8. \A i \in 1..n : /\ Sound(rs[i]) /\ vs[i] \in Values
                      /\ Built(t) /\ ~Swallows(t) => Tells(rs[i], vs[i])
    BY <1>3, <1>4, <1>5, <1>6 DEF Agrees
<1>9. t.k = "elements" /\ ~Swallows(t) => \A i \in 1..n : ~rs[i].err
  <2>1. t.k = "elements" => t.ms = cs
    BY WideFact
  <2>2. QED
    BY <1>2, <1>3, <2>1, SwallowsAtFact, Zenon
<1>10. t.k \in {"not", "with"} => n = 1
    BY WideFact
<1> HIDE DEF rs, vs, bs, ws, n, cs
<1>11. CASE t.k = "not"
  <2>1. Match(t) = NotMatch(rs[1]) /\ Meaning(t) = Neg(vs[1])
    BY <1>2, <1>11 DEF matchNode, meaningOf
  <2>2. Sound(rs[1]) /\ vs[1] \in Values /\ (Built(t) /\ ~Swallows(t) => Tells(rs[1], vs[1]))
    BY <1>8, <1>10, <1>11
  <2>3. /\ NotMatch(rs[1]) \in Answers
        /\ NotMatch(rs[1]).err = rs[1].err
        /\ NotMatch(rs[1]).ok <=> ~rs[1].err /\ ~rs[1].ok
    BY <2>2 DEF NotMatch, Answers, Sound
  <2>4. Neg(vs[1]) \in Values /\ (vs[1] = "T" => Neg(vs[1]) = "F") /\ (vs[1] = "F" => Neg(vs[1]) = "T")
    BY <2>2 DEF Neg, Values
  <2>5. QED
    BY <2>1, <2>2, <2>3, <2>4 DEF Agrees, Sound, Tells
<1>12. CASE t.k = "with"
  <2>1. Match(t) = SafeTransform(t.transforms, rs[1]) /\ Meaning(t) = IF t.transforms THEN vs[1] ELSE "E"
    BY <1>2, <1>12 DEF matchNode, meaningOf
  <2>2. Sound(rs[1]) /\ vs[1] \in Values /\ (Built(t) /\ ~Swallows(t) => Tells(rs[1], vs[1]))
    BY <1>8, <1>10, <1>12
  <2>3. CASE t.transforms
    BY <2>1, <2>2, <2>3 DEF SafeTransform, Agrees
  <2>4. CASE ~t.transforms
    BY <2>1, <2>4, SaysFact DEF SafeTransform, Failed, Agrees, Sound, Tells, Values
  <2>5. QED
    BY <2>3, <2>4
<1>13. CASE t.k = "and"
  <2>1. Match(t) = AndMatch(rs) /\ Meaning(t) = AllOf({vs[i] : i \in DOMAIN vs})
    BY <1>2, <1>13 DEF matchNode, meaningOf
  <2>2. AllOf({vs[i] : i \in DOMAIN vs}) \in Values
    BY DEF AllOf, Values
  <2>3. QED
    BY <1>3, <1>7, <1>8, <2>1, <2>2, AndFact DEF Agrees
<1>14. CASE t.k = "or"
  <2>1. Match(t) = OrMatch(rs) /\ Meaning(t) = Neg(AllOf({Neg(vs[i]) : i \in DOMAIN vs}))
    BY <1>2, <1>14 DEF matchNode, meaningOf
  <2>2. Neg(AllOf({Neg(vs[i]) : i \in DOMAIN vs})) \in Values
    BY DEF AllOf, Neg, Values
  <2>3. QED
    BY <1>3, <1>7, <1>8, <2>1, <2>2, OrFact DEF Agrees
<1>15. CASE t.k = "elements"
  <2> DEFINE all == \A i \in 1..n : rs[i].ok /\ ~rs[i].err
  <2>1. Match(t) = Says(IF all THEN "T" ELSE "F") /\ Meaning(t) = IF \A i \in 1..n : vs[i] = "T" THEN "T" ELSE "F"
    BY <1>2, <1>7, <1>15 DEF matchNode, meaningOf, ContainElements
  <2>2. Sound(Match(t)) /\ (Match(t).ok <=> all) /\ Meaning(t) \in Values
    BY <2>1, SaysFact DEF Sound, Values
  <2>3. Built(t) /\ ~Swallows(t) => (all <=> \A i \in 1..n : vs[i] = "T")
    BY <1>8, <1>9, <1>15 DEF Tells
  <2>4. QED
    BY <2>1, <2>2, <2>3 DEF Agrees, Tells
<1>16. QED
    BY <1>11, <1>12, <1>13, <1>14, <1>15, WideFact

\* Every expectation agrees.
LEMMA WantsAgree == ASSUME NEW t \in Wants PROVE Agrees(t)
<1>1. \A m \in Simple : Agrees(m)
    BY SimpleAgrees
<1>2. Simple \in SUBSET Shallow /\ Shallow \in SUBSET Shallow
    BY DEF Shallow
<1>3. \A m \in Shallow : Agrees(m)
    BY <1>1, <1>2, NodeAgrees DEF Shallow
<1>4. \A m \in Wide(Shallow) : Agrees(m)
    BY <1>2, <1>3, NodeAgrees
<1>5. ASSUME Children(t) = <<>>
      PROVE  /\ Match(t) = matchNode(t, <<>>)
             /\ Meaning(t) = meaningOf(t, <<>>)
             /\ Built(t) = buildNode(t, <<>>)
  <2>1. DOMAIN <<>> = {}
    OBVIOUS
  <2>2. Match(t) = matchNode(t, <<>>)
    BY <1>5, <2>1 DEF Match, FromLeaves
  <2>3. Meaning(t) = meaningOf(t, <<>>)
    BY <1>5, <2>1 DEF Meaning, FromLeaves
  <2>4. Built(t) = buildNode(t, <<>>)
    BY <1>5, <2>1 DEF Built, FromLeaves
  <2>5. QED
    BY <2>2, <2>3, <2>4
<1>6. CASE t \in PatternLists
  <2>1. t.k = "patterns" /\ Children(t) = <<>> /\ t.bad \in BOOLEAN
    BY <1>6 DEF PatternLists, Children
  <2> DEFINE every == \A p \in DOMAIN t.pats : Holds(t, p)
  <2>2. Match(t) = HavePatterns(t) /\ Meaning(t) = IF t.bad THEN "E" ELSE IF every THEN "T" ELSE "F"
    BY <1>5, <2>1 DEF matchNode, meaningOf
  <2> HIDE DEF every
  <2>3. /\ HavePatterns(t) \in Answers
        /\ ~(HavePatterns(t).ok /\ HavePatterns(t).err)
        /\ ~HavePatterns(t).err => ~t.bad /\ (HavePatterns(t).ok <=> every)
    BY <1>6, HavePatternsFact DEF every
  <2>4. QED
    BY <2>2, <2>3 DEF Agrees, Sound, Tells, Values
<1>7. CASE t = Missing
  <2>1. t.k = "missing" /\ Children(t) = <<>>
    BY <1>7 DEF Missing, Children
  <2>2. Match(t) = Says("E") /\ Meaning(t) = "E"
    BY <1>5, <2>1 DEF matchNode, meaningOf, Failed
  <2>3. ~Built(t)
    BY <1>5, <2>1, BuildNodeFact
  <2>4. QED
    BY <2>2, <2>3, SaysFact DEF Agrees, Sound, Values
<1>8. CASE \E s \in Leaves : t = EmptyList(s)
  <2>1. t.k = "emptylist" /\ Children(t) = <<>> /\ t.says \in Values
    BY <1>8, MatchersAssumption DEF EmptyList, Children, Values
  <2>2. Match(t) = Says(t.says) /\ Meaning(t) = t.says
    BY <1>5, <2>1 DEF matchNode, meaningOf
  <2>3. QED
    BY <2>1, <2>2, SaysFact DEF Agrees, Sound, Tells, Values
<1>9. QED
    BY <1>3, <1>4, <1>6, <1>7, <1>8 DEF Wants

-----------------------------------------------------------------------------
(* The results of one resource *)

Reasons == {NoReason, "did not pass", "is false"} \cup STRING

AnyResult ==
    [prop : Nat, result : {"SUCCESS", "FAIL", "SKIP"}, err : BOOLEAN, reason : Reasons,
     actualFalse : BOOLEAN, json : {"plain", "unsupported"}]

\* A skipped check says so; one that is not passes if its value was read and
\* its expectation built and met, and fails otherwise.
LEMMA ValueFact ==
    ASSUME NEW i \in Nat, NEW a \in AnyAttribute, NEW skip \in BOOLEAN,
           NEW v, v = ValidateValue(i, a, skip)
    PROVE  /\ v \in AnyResult /\ v.prop = i
           /\ skip <=> v.result = "SKIP"
           /\ v.actualFalse => v.result = "SUCCESS" /\ a.isFalse
           /\ v.result = "SUCCESS" => ~v.err /\ a.get # "err" /\ Built(a.want) /\ Match(a.want).ok
           /\ v.result = "FAIL" /\ ~v.err => Built(a.want) /\ ~Match(a.want).ok /\ ~Match(a.want).err
<1>0. NoReason \in Reasons
    BY DEF Reasons
<1>1. a.want \in Wants /\ a.isFalse \in BOOLEAN /\ a.json \in {"plain", "unsupported"}
    BY DEF AnyAttribute
<1>2. /\ Match(a.want).ok \in BOOLEAN /\ Match(a.want).err \in BOOLEAN
      /\ ~(Match(a.want).ok /\ Match(a.want).err)
    BY <1>1, WantsAgree DEF Agrees, Sound, Answers
<1>3. CASE skip
  <2>1. v = [prop |-> i, result |-> "SKIP", err |-> FALSE, reason |-> NoReason,
             actualFalse |-> FALSE, json |-> "plain"]
    BY <1>1, <1>3 DEF ValidateValue, skipResult, Result
  <2>2. v \in AnyResult
    BY <1>0, <2>1 DEF AnyResult
  <2>3. v.prop = i /\ v.result = "SKIP" /\ ~v.actualFalse
    BY <2>1
  <2>4. QED
    BY <1>3, <2>2, <2>3
<1>4. CASE ~skip /\ (a.get = "err" \/ ~Built(a.want))
  <2>1. v = [prop |-> i, result |-> "FAIL", err |-> TRUE, reason |-> NoReason,
             actualFalse |-> FALSE, json |-> "plain"]
    BY <1>1, <1>4 DEF ValidateValue, Result
  <2>2. v \in AnyResult
    BY <1>0, <2>1 DEF AnyResult
  <2>3. v.prop = i /\ v.result = "FAIL" /\ ~v.actualFalse /\ v.err
    BY <2>1
  <2>4. QED
    BY <1>4, <2>2, <2>3
<1>5. CASE ~skip /\ ~(a.get = "err" \/ ~Built(a.want))
  <2>1. v = Result(i, a, IF Match(a.want).ok THEN "SUCCESS" ELSE "FAIL", Match(a.want).err)
    BY <1>5 DEF ValidateValue
  <2>2. CASE Match(a.want).ok
    <3>1. v = [prop |-> i, result |-> "SUCCESS", err |-> Match(a.want).err, reason |-> NoReason,
               actualFalse |-> a.isFalse, json |-> a.json]
        BY <1>1, <2>1, <2>2 DEF Result
    <3>2. v \in AnyResult
        BY <1>0, <1>1, <1>2, <3>1 DEF AnyResult
    <3>3. v.prop = i /\ v.result = "SUCCESS" /\ v.actualFalse = a.isFalse /\ v.err = Match(a.want).err
        BY <3>1
    <3>4. QED
        BY <1>2, <1>5, <2>2, <3>2, <3>3
  <2>3. CASE ~Match(a.want).ok
    <3>1. v = [prop |-> i, result |-> "FAIL", err |-> Match(a.want).err, reason |-> NoReason,
               actualFalse |-> FALSE, json |-> a.json]
        BY <1>1, <2>1, <2>3 DEF Result
    <3>2. v \in AnyResult
        BY <1>0, <1>1, <1>2, <3>1 DEF AnyResult
    <3>3. v.prop = i /\ v.result = "FAIL" /\ ~v.actualFalse /\ v.err = Match(a.want).err
        BY <3>1
    <3>4. QED
        BY <1>5, <2>3, <3>2, <3>3
  <2>4. QED
    BY <2>2, <2>3
<1>6. QED
    BY <1>3, <1>4, <1>5

\* Every type has at least one attribute.
LEMMA TypesFact ==
    ASSUME NEW t \in Types
    PROVE  Len(t.props) >= 1 /\ Len(t.props) \in Nat
<1>1. Len(File.props) >= 1 /\ Len(File.props) \in Nat
    BY DEF File, Type
<1>2. Len(Mount.props) >= 1 /\ Len(Mount.props) \in Nat
    BY DEF Mount, Type
<1>3. Len(HTTP.props) >= 1 /\ Len(HTTP.props) \in Nat
    BY DEF HTTP, Type
<1>4. Len(User.props) >= 1 /\ Len(User.props) \in Nat
    BY DEF User, Type
<1>5. Len(Registry.props) >= 1 /\ Len(Registry.props) \in Nat
    BY DEF Registry, Type
<1>6. Len(DNS.props) >= 1 /\ Len(DNS.props) \in Nat
    BY DEF DNS, Type
<1>7. Len(Interface.props) >= 1 /\ Len(Interface.props) \in Nat
    BY DEF Interface, Type
<1>8. Len(Port.props) >= 1 /\ Len(Port.props) \in Nat
    BY DEF Port, Type
<1>9. Len(Process.props) >= 1 /\ Len(Process.props) \in Nat
    BY DEF Process, Type
<1>10. Len(Package.props) >= 1 /\ Len(Package.props) \in Nat
    BY DEF Package, Type
<1>11. Len(Group.props) >= 1 /\ Len(Group.props) \in Nat
    BY DEF Group, Type
<1>12. Len(Service.props) >= 1 /\ Len(Service.props) \in Nat
    BY DEF Service, Type
<1>13. Len(Command.props) >= 1 /\ Len(Command.props) \in Nat
    BY DEF Command, Type
<1>14. Len(Addr.props) >= 1 /\ Len(Addr.props) \in Nat
    BY DEF Addr, Type
<1>15. Len(KernelParam.props) >= 1 /\ Len(KernelParam.props) \in Nat
    BY DEF KernelParam, Type
<1>16. Len(Matching.props) >= 1 /\ Len(Matching.props) \in Nat
    BY DEF Matching, Type
<1>17. QED
    BY <1>1, <1>2, <1>3, <1>4, <1>5, <1>6, <1>7, <1>8, <1>9, <1>10, <1>11, <1>12, <1>13, <1>14, <1>15, <1>16,
       Zenon DEF Types

\* A resource has attributes, and finitely many report.
LEMMA ResourceFact ==
    ASSUME NEW r \in AnyResource
    PROVE  /\ DOMAIN r.attrs = 1..Len(r.attrs) /\ Len(r.attrs) \in Nat /\ 1 \in DOMAIN r.attrs
           /\ \A i \in DOMAIN r.attrs : r.attrs[i] \in AnyAttribute /\ i \in Nat
           /\ r.skip \in BOOLEAN /\ r.skipReason \in STRING
           /\ Reporting(r) \in SUBSET (1..Len(r.attrs))
           /\ \A i \in DOMAIN r.attrs : Skipped(r, i) \in BOOLEAN
           /\ IsFiniteSet(Reporting(r)) /\ Cardinality(Reporting(r)) \in Nat
<1>1. r.type \in Types /\ r.attrs \in Seq(AnyAttribute) /\ Len(r.attrs) = Len(r.type.props)
    BY DEF AnyResource
<1>2. /\ DOMAIN r.attrs = 1..Len(r.attrs) /\ Len(r.attrs) \in Nat /\ 1 \in DOMAIN r.attrs
      /\ \A i \in DOMAIN r.attrs : r.attrs[i] \in AnyAttribute /\ i \in Nat
    BY <1>1, TypesFact
<1>3. r.skip \in BOOLEAN /\ r.skipReason \in STRING
    BY DEF AnyResource
<1>4. Reporting(r) \in SUBSET (1..Len(r.attrs))
    BY <1>2 DEF Reporting
<1>5. \A i \in DOMAIN r.attrs : Skipped(r, i) \in BOOLEAN
    BY <1>3 DEF Skipped
<1>6. IsFiniteSet(Reporting(r)) /\ Cardinality(Reporting(r)) \in Nat
  <2>1. IsFiniteSet(1..Len(r.attrs))
    BY <1>2, FS_Interval
  <2>2. QED
    BY <1>4, <2>1, FS_Subset, FS_CardinalityType
<1>7. QED
    BY <1>2, <1>3, <1>4, <1>5, <1>6

\* The k-th reporting attribute reports; the first attribute comes first, if
\* it reports.
LEMMA ReportsFact ==
    ASSUME NEW r \in AnyResource, NEW k \in 1..Cardinality(Reporting(r))
    PROVE  /\ Reports(r, k) \in Reporting(r)
           /\ 1 \in Reporting(r) => (Reports(r, k) = 1 <=> k = 1)
<1> DEFINE S == Reporting(r)
           i == Reports(r, k)
           before == {j \in S : j < i}
<1>1. S \in SUBSET (1..Len(r.attrs)) /\ Len(r.attrs) \in Nat /\ IsFiniteSet(S) /\ Cardinality(S) \in Nat
    BY ResourceFact
<1>2. i \in S /\ Cardinality(before) = k - 1
  <2>1. \E m \in S : Cardinality({j \in S : j < m}) = k - 1
    <3> HIDE DEF S
    <3>1. k \in 1..Cardinality(S)
        BY DEF S
    <3>2. QED
        BY <1>1, <3>1, KthElement
  <2>2. QED
    BY <2>1, Zenon DEF Reports
<1>3. IsFiniteSet(before)
    BY <1>1, FS_Subset
<1> HIDE DEF i
<1>4. ASSUME 1 \in S PROVE i = 1 <=> k = 1
  <2>1. i \in 1..Len(r.attrs)
    BY <1>1, <1>2
  <2>2. CASE i = 1
    <3>1. \A j \in S : ~(j < i)
        BY <1>1, <2>2
    <3>2. before = {}
        BY <3>1, Zenon
    <3>3. QED
      <4>1. Cardinality({}) = 0
        BY FS_EmptySet
      <4>2. Cardinality(before) = 0
        BY <3>2, <4>1, Zenon
      <4> HIDE DEF before
      <4>3. QED
        BY <1>1, <1>2, <2>2, <4>2
  <2>3. CASE i # 1
    <3>1. 1 \in before
        BY <1>1, <1>4, <2>1, <2>3
    <3>2. Cardinality(before) # 0
        BY <1>3, <3>1, FS_EmptySet
    <3>3. QED
        BY <1>1, <1>2, <2>3, <3>2
  <2>4. QED
    BY <2>2, <2>3
<1>5. QED
    BY <1>2, <1>4 DEF i

\* What ValidateSafe returns where nothing panics: the values of the
\* reporting attributes, with the reason of the first filled in on the skips.
LEMMA SafeFact ==
    ASSUME NEW r \in AnyResource, ~Panics(r), NEW g, g = ValidateSafe(r),
           NEW k \in DOMAIN g
    PROVE  /\ k \in 1..Cardinality(Reporting(r)) /\ 1 \in DOMAIN g
           /\ g[k] \in AnyResult
           /\ LET v(j) == Validated(r)[j]
              IN  /\ g[k].prop = v(k).prop /\ g[k].result = v(k).result
                  /\ g[k].err = v(k).err /\ g[k].json = v(k).json
                  /\ v(k).result = "SKIP" =>
                       g[k].reason = IF v(1).result = "SKIP" THEN r.skipReason
                                     ELSE promotedSkipReason(v(1))
<1> DEFINE c == Cardinality(Reporting(r))
           rs == Validated(r)
           reason == IF rs[1].result = "SKIP" THEN r.skipReason ELSE promotedSkipReason(rs[1])
<1>1. c \in Nat /\ r.skipReason \in STRING
    BY ResourceFact
<1>2. DOMAIN rs = 1..c
    BY DEF Validated
<1>3. \A j \in 1..c : rs[j] \in AnyResult
  <2> TAKE j \in 1..c
  <2>1. Reports(r, j) \in DOMAIN r.attrs
    BY ReportsFact, ResourceFact
  <2>2. rs[j] = ValidateValue(Reports(r, j), r.attrs[Reports(r, j)], Skipped(r, Reports(r, j)))
    BY DEF Validated
  <2>3. QED
    BY <2>1, <2>2, ValueFact, ResourceFact
<1>4. g = annotateSkipReasons(r, rs)
    BY DEF ValidateSafe
<1> HIDE DEF rs
<1>5. rs # <<>> /\ k \in 1..c /\ 1 \in 1..c
    BY <1>1, <1>2, <1>4 DEF annotateSkipReasons
<1>6. g = [j \in DOMAIN rs |-> IF rs[j].result = "SKIP" THEN [rs[j] EXCEPT !.reason = reason] ELSE rs[j]]
    BY <1>4, <1>5 DEF annotateSkipReasons
<1>7. reason \in Reasons
    BY <1>1 DEF promotedSkipReason, Reasons
<1> HIDE DEF reason
<1>8. g[k] = IF rs[k].result = "SKIP" THEN [rs[k] EXCEPT !.reason = reason] ELSE rs[k]
    BY <1>2, <1>5, <1>6
<1>9. g[k] \in AnyResult
    BY <1>3, <1>5, <1>7, <1>8 DEF AnyResult, Reasons
<1>10. /\ g[k].prop = rs[k].prop /\ g[k].result = rs[k].result
       /\ g[k].err = rs[k].err /\ g[k].json = rs[k].json
       /\ rs[k].result = "SKIP" => g[k].reason = reason
    BY <1>3, <1>5, <1>8 DEF AnyResult, Reasons
<1>11. DOMAIN g = 1..c
    BY <1>2, <1>6
<1>12. QED
    BY <1>5, <1>9, <1>10, <1>11 DEF rs, reason

\* A panic is reported as one failure, with an error.
LEMMA PanicFact ==
    ASSUME NEW r, Panics(r), NEW g, g = ValidateSafe(r), NEW k \in DOMAIN g
    PROVE  k = 1 /\ DOMAIN g = {1} /\ g[k] \in AnyResult /\ g[k].result = "FAIL" /\ g[k].err
<1>1. g = <<[prop |-> 0, result |-> "FAIL", err |-> TRUE, reason |-> NoReason,
             actualFalse |-> FALSE, json |-> "plain"]>>
    BY DEF ValidateSafe, panicResults
<1>2. NoReason \in Reasons
    BY DEF Reasons
<1> DEFINE res == [prop |-> 0, result |-> "FAIL", err |-> TRUE, reason |-> NoReason,
                   actualFalse |-> FALSE, json |-> "plain"]
<1>3. res \in AnyResult
    BY <1>2 DEF AnyResult
<1>4. res.result = "FAIL" /\ res.err
    OBVIOUS
<1> HIDE DEF res
<1>5. DOMAIN g = {1} /\ g[1] = res
    BY <1>1 DEF res
<1>6. QED
    BY <1>3, <1>4, <1>5

\* The k-th result is that of the k-th reporting attribute.
LEMMA ResultFact ==
    ASSUME NEW r \in AnyResource, ~Panics(r), NEW g, g = ValidateSafe(r),
           NEW k \in DOMAIN g, NEW i, i = Reports(r, k)
    PROVE  /\ i \in Reporting(r) /\ i \in Nat /\ r.attrs[i] \in AnyAttribute
           /\ Skipped(r, i) \in BOOLEAN
           /\ Validated(r)[k] = ValidateValue(i, r.attrs[i], Skipped(r, i))
           /\ 1 \in Reporting(r) => (i = 1 <=> k = 1)
<1>1. k \in 1..Cardinality(Reporting(r))
    BY SafeFact
<1>2. i \in Reporting(r) /\ (1 \in Reporting(r) => (i = 1 <=> k = 1))
    BY <1>1, ReportsFact
<1>3. i \in DOMAIN r.attrs
    BY <1>2, ResourceFact
<1>4. Validated(r)[k] = ValidateValue(i, r.attrs[i], Skipped(r, i))
    BY <1>1 DEF Validated
<1>5. QED
    BY <1>2, <1>3, <1>4, ResourceFact

\* What a result says is what its attribute is.
LEMMA PassFact ==
    ASSUME NEW r \in AnyResource, NEW g, g = ValidateSafe(r), NEW k \in DOMAIN g,
           NEW a, a = r.attrs[g[k].prop]
    PROVE  /\ g[k].result = "SUCCESS" =>
                /\ a.get = "ok" /\ Built(a.want)
                /\ Swallows(a.want) \/ Meaning(a.want) = "T"
           /\ g[k].result = "FAIL" /\ ~g[k].err =>
                Swallows(a.want) \/ Meaning(a.want) # "T"
<1>1. CASE Panics(r)
    BY <1>1, PanicFact
<1>2. CASE ~Panics(r)
  <2> DEFINE i == Reports(r, k)
             v == Validated(r)[k]
  <2>1. /\ i \in Reporting(r) /\ i \in Nat /\ r.attrs[i] \in AnyAttribute
        /\ Skipped(r, i) \in BOOLEAN
        /\ v = ValidateValue(i, r.attrs[i], Skipped(r, i))
    BY <1>2, ResultFact
  <2>2. g[k].prop = v.prop /\ g[k].result = v.result /\ g[k].err = v.err
    BY <1>2, SafeFact
  <2> HIDE DEF i, v
  <2>3. v.prop = i
    BY <2>1, ValueFact
  <2>4. a = r.attrs[i] /\ a \in AnyAttribute
    BY <2>1, <2>2, <2>3
  <2>5. /\ Skipped(r, i) <=> v.result = "SKIP"
        /\ v.result = "SUCCESS" => a.get # "err" /\ Built(a.want) /\ Match(a.want).ok
        /\ v.result = "FAIL" /\ ~v.err => Built(a.want) /\ ~Match(a.want).ok /\ ~Match(a.want).err
    <3> DEFINE sk == Skipped(r, i)
    <3>1. i \in Nat /\ a \in AnyAttribute /\ sk \in BOOLEAN /\ v = ValidateValue(i, a, sk)
        BY <2>1, <2>4
    <3> HIDE DEF sk
    <3>2. /\ sk <=> v.result = "SKIP"
          /\ v.result = "SUCCESS" => a.get # "err" /\ Built(a.want) /\ Match(a.want).ok
          /\ v.result = "FAIL" /\ ~v.err => Built(a.want) /\ ~Match(a.want).ok /\ ~Match(a.want).err
        BY <3>1, ValueFact
    <3>3. QED
        BY <3>2 DEF sk
  <2>6. a.get = "panic" => Skipped(r, i)
    BY <1>2, <2>1, <2>4, Zenon DEF Panics
  <2>7. a.want \in Wants /\ a.get \in {"ok", "err", "panic"}
    BY <2>4 DEF AnyAttribute
  <2>8. /\ ~(Match(a.want).ok /\ Match(a.want).err)
        /\ Built(a.want) /\ ~Swallows(a.want) /\ ~Match(a.want).err =>
             Meaning(a.want) = IF Match(a.want).ok THEN "T" ELSE "F"
    BY <2>7, WantsAgree DEF Agrees, Sound, Tells
  <2>9. QED
    BY <2>2, <2>5, <2>6, <2>7, <2>8
<1>3. QED
    BY <1>1, <1>2

\* Why a result is a skip.
LEMMA SkipFact ==
    ASSUME NEW r \in AnyResource, NEW g, g = ValidateSafe(r), NEW k \in DOMAIN g,
           g[k].result = "SKIP"
    PROVE  /\ \A j \in DOMAIN g : (j > 1 \/ r.skip) => g[j].result = "SKIP"
           /\ IF r.skip THEN g[k].reason = r.skipReason
              ELSE /\ g[1].result # "SKIP"
                   /\ g[k].reason = IF g[1].result = "FAIL" \/ g[1].err
                                    THEN "did not pass" ELSE "is false"
                   /\ g[1].result = "SUCCESS" => r.attrs[1].isFalse
<1>1. ~Panics(r)
    BY PanicFact
<1> DEFINE val(j) == Validated(r)[j]
           at(j) == Reports(r, j)
<1>2. ASSUME NEW j \in DOMAIN g
      PROVE  /\ at(j) \in Reporting(r) /\ at(j) \in Nat /\ r.attrs[at(j)] \in AnyAttribute
             /\ Skipped(r, at(j)) \in BOOLEAN
             /\ val(j) = ValidateValue(at(j), r.attrs[at(j)], Skipped(r, at(j)))
             /\ 1 \in Reporting(r) => (at(j) = 1 <=> j = 1)
    BY <1>1, ResultFact
<1>3. ASSUME NEW j \in DOMAIN g
      PROVE  /\ val(j) \in AnyResult
             /\ Skipped(r, at(j)) <=> val(j).result = "SKIP"
             /\ val(j).actualFalse => val(j).result = "SUCCESS" /\ r.attrs[at(j)].isFalse
             /\ val(j).result = "SUCCESS" => ~val(j).err
             /\ g[j].result = val(j).result /\ g[j].err = val(j).err
             /\ j \in Nat /\ 1 \in DOMAIN g /\ j >= 1
  <2>1. g[j].result = val(j).result /\ g[j].err = val(j).err
    BY <1>1, SafeFact
  <2>2. j \in 1..Cardinality(Reporting(r)) /\ Cardinality(Reporting(r)) \in Nat /\ 1 \in DOMAIN g
    BY <1>1, SafeFact, ResourceFact
  <2>3. /\ val(j) \in AnyResult
        /\ Skipped(r, at(j)) <=> val(j).result = "SKIP"
        /\ val(j).actualFalse => val(j).result = "SUCCESS" /\ r.attrs[at(j)].isFalse
        /\ val(j).result = "SUCCESS" => ~val(j).err
    <3> HIDE DEF val, at
    <3>1. QED
        BY <1>2, ValueFact
  <2>4. QED
    BY <2>1, <2>2, <2>3
<1>4. g[k].reason = IF val(1).result = "SKIP" THEN r.skipReason ELSE promotedSkipReason(val(1))
  <2>1. val(k).result = "SKIP"
    BY <1>3
  <2>2. QED
    BY <1>1, <2>1, SafeFact
<1>5. r.skip \in BOOLEAN /\ 1 \in DOMAIN g
    BY <1>3, ResourceFact
<1> HIDE DEF val, at
<1>6. CASE r.skip
  <2>1. \A j \in DOMAIN g : g[j].result = "SKIP"
    BY <1>3, <1>6 DEF Skipped
  <2>2. val(1).result = "SKIP"
    BY <1>3, <1>5, <2>1
  <2>3. QED
    BY <1>4, <1>6, <2>1, <2>2
<1>7. CASE ~r.skip
  <2> DEFINE first == ValidateValue(1, r.attrs[1], r.skip)
  <2>1. Skipped(r, at(k))
    BY <1>3
  <2>2. r.type.first = "promotes" /\ at(k) > 1 /\ shouldSkip(first)
    BY <1>7, <2>1 DEF Skipped
  <2>3. 1 \in Reporting(r)
    BY <2>2, ResourceFact DEF Reporting
  <2>4. at(1) = 1 /\ ~Skipped(r, 1)
    <3>1. at(1) = 1
        BY <1>2, <1>5, <2>3
    <3>2. ~(1 > 1)
        OBVIOUS
    <3>3. QED
        BY <1>7, <3>1, <3>2, Zenon DEF Skipped
  <2>5. val(1) = first
    <3>1. Skipped(r, 1) = r.skip
        BY <1>2, <1>5, <1>7, <2>4
    <3>2. QED
        BY <1>2, <1>5, <2>4, <3>1
  <2> HIDE DEF first
  <2>6. /\ val(1).result \in {"SUCCESS", "FAIL"}
        /\ val(1).err \/ val(1).result # "SUCCESS" \/ val(1).actualFalse
        /\ val(1).actualFalse => r.attrs[1].isFalse
    BY <1>3, <1>5, <2>2, <2>4, <2>5 DEF shouldSkip, AnyResult
  <2>7. ASSUME NEW j \in DOMAIN g, j > 1 PROVE g[j].result = "SKIP"
    <3>1. at(j) # 1 /\ at(j) \in Reporting(r)
        BY <1>2, <1>3, <2>3, <2>7
    <3>2. at(j) > 1
        BY <3>1, ResourceFact
    <3>3. QED
        BY <1>3, <2>2, <2>7, <3>2 DEF Skipped, first
  <2>8. val(1).err \in BOOLEAN /\ val(1).actualFalse \in BOOLEAN
    BY <1>3, <1>5 DEF AnyResult
  <2>9. g[k].reason = IF val(1).result = "FAIL" \/ val(1).err THEN "did not pass" ELSE "is false"
    BY <1>4, <2>6, <2>8 DEF promotedSkipReason
  <2>10. g[1].result = val(1).result /\ g[1].err = val(1).err
    BY <1>3, <1>5
  <2>11. val(1).result = "SUCCESS" => r.attrs[1].isFalse
    BY <1>3, <1>5, <2>6
  <2>12. QED
    BY <1>7, <2>6, <2>7, <2>9, <2>10, <2>11
<1>8. QED
    BY <1>5, <1>6, <1>7

-----------------------------------------------------------------------------
(* What the groups of a sweep say *)

GroupInv ==
    /\ AnySpec
    /\ group = [r \in Refs |-> ValidateSafe(resources[r])]
    /\ received \in Seq(Refs)

\* The spec and what it validates to never change, and only groups of its
\* resources are received.
LEMMA GroupNext == Inv /\ GroupInv /\ [ReportNext]_reportVars => GroupInv'
<1> SUFFICES ASSUME Inv, GroupInv, [ReportNext]_reportVars PROVE GroupInv'
    OBVIOUS
<1>1. UNCHANGED flags => AnySpec' /\ group' = [r \in Refs |-> ValidateSafe(resources'[r])]
    BY DEF flags, GroupInv, AnySpec
<1>2. UNCHANGED <<flags, received>> => GroupInv'
    BY <1>1 DEF GroupInv
<1>3. ASSUME NEW w \in Workers, SendGroup(w) PROVE GroupInv'
  <2>1. item[w] \in Refs /\ received \in Seq(Refs)
    BY DEF Inv, TypeOK, GroupInv
  <2>2. received' \in Seq(Refs) /\ UNCHANGED flags
    BY <1>3, <2>1 DEF SendGroup
  <2>3. QED
    BY <1>1, <2>2 DEF GroupInv
<1>4. (\E w \in Workers : SendGroup(w)) \/ UNCHANGED <<flags, received>>
    BY Zenon DEF ReportNext, WorkOnReport, TakeResource, ValidateResource,
        CloseOut, ConsumeReport, CollectGroup, RenderGroup, RenderSorted, Turn,
        FinishReport, Crash, Ended, reportVars
<1>5. QED
    BY <1>2, <1>3, <1>4

\* A sweep of any spec keeps it.
THEOREM GroupInvCorrect == AnySweepSpec => [](Inv /\ GroupInv)
<1>1. AnySpec /\ StartSweep => GroupInv
    BY DEF StartSweep, GroupInv
<1>2. QED
    BY <1>1, InitInv, NextInv, GroupNext, PTL DEF AnySweepSpec, SweepSpec

\* The group of a resource that was received.
LEMMA ReceivedFact ==
    ASSUME GroupInv, NEW r \in Range(received)
    PROVE  r \in Refs /\ resources[r] \in AnyResource /\ group[r] = ValidateSafe(resources[r])
<1>1. r \in Refs
  <2>1. PICK i \in DOMAIN received : r = received[i]
    BY DEF Range
  <2>2. QED
    BY <2>1 DEF GroupInv
<1>2. QED
    BY <1>1 DEF GroupInv, AnySpec

\* A check that passed met its expectation in full, and one that failed with
\* no error did not: for expectations of two levels and of any width, texts
\* and pattern lists of any length, whatever the getters do.
THEOREM PassCorrect == AnySweepSpec => []PassIsReal
<1>1. GroupInv => PassIsReal
  <2> SUFFICES ASSUME GroupInv, NEW r \in Range(received), NEW k \in DOMAIN group[r],
                      NEW a, a = resources[r].attrs[group[r][k].prop]
               PROVE  /\ group[r][k].result = "SUCCESS" =>
                           /\ a.get = "ok" /\ Built(a.want)
                           /\ Swallows(a.want) \/ Meaning(a.want) = "T"
                      /\ group[r][k].result = "FAIL" /\ ~group[r][k].err =>
                           Swallows(a.want) \/ Meaning(a.want) # "T"
    BY Zenon DEF PassIsReal
  <2>1. resources[r] \in AnyResource /\ group[r] = ValidateSafe(resources[r])
    BY ReceivedFact
  <2>2. QED
    BY <2>1, PassFact
<1>2. QED
    BY <1>1, GroupInvCorrect, PTL

\* Every skip of every resource is accounted for.
THEOREM SkipsCorrect == AnySweepSpec => []SkipsExplained
<1>1. GroupInv => SkipsExplained
  <2> SUFFICES ASSUME GroupInv, NEW r \in Range(received), NEW k \in DOMAIN group[r],
                      group[r][k].result = "SKIP"
               PROVE  /\ \A j \in DOMAIN group[r] :
                            (j > 1 \/ resources[r].skip) => group[r][j].result = "SKIP"
                      /\ IF resources[r].skip THEN group[r][k].reason = resources[r].skipReason
                         ELSE /\ group[r][1].result # "SKIP"
                              /\ group[r][k].reason = IF group[r][1].result = "FAIL" \/ group[r][1].err
                                                      THEN "did not pass" ELSE "is false"
                              /\ group[r][1].result = "SUCCESS" => resources[r].attrs[1].isFalse
    BY Zenon DEF SkipsExplained
  <2>1. resources[r] \in AnyResource /\ group[r] = ValidateSafe(resources[r])
    BY ReceivedFact
  <2>2. QED
    BY <2>1, SkipFact
<1>2. QED
    BY <1>1, GroupInvCorrect, PTL

-----------------------------------------------------------------------------
(* The overall outcome prometheus records *)

Outcomes == {"pass", "fail", "skip"}

\* The worst of a set of outcomes.
Worst(S) ==
    IF "fail" \in S THEN "fail" ELSE IF "pass" \in S THEN "pass"
    ELSE IF "skip" \in S THEN "skip" ELSE "unknown"

\* The outcome of a result.
LEMMA OutcomeFact ==
    ASSUME NEW v \in {"SUCCESS", "FAIL", "SKIP"}
    PROVE  /\ ToOutcome(v) \in Outcomes
           /\ ToOutcome(v) = "fail" <=> v = "FAIL"
BY DEF ToOutcome, Outcomes

\* One more result, once there was one, makes the overall outcome the worst
\* of both.
LEMMA WorstNext ==
    ASSUME NEW S \in SUBSET Outcomes, S # {}, NEW v \in {"SUCCESS", "FAIL", "SKIP"}
    PROVE  /\ Worst(S) \in Outcomes
           /\ overallNext(Worst(S), v) = Worst(S \cup {ToOutcome(v)})
<1> DEFINE o == ToOutcome(v)
<1>1. o \in Outcomes
    BY OutcomeFact
<1> HIDE DEF o
<1>2. overallNext(Worst(S), v) = IF canChangeOverallOutcome(Worst(S), o) THEN o ELSE Worst(S)
    BY DEF overallNext, o
<1>3. CASE "fail" \in S
  <2>1. Worst(S) = "fail" /\ Worst(S \cup {o}) = "fail"
    BY <1>3 DEF Worst
  <2>2. QED
    BY <1>2, <2>1 DEF canChangeOverallOutcome, Outcomes, o
<1>4. CASE "fail" \notin S /\ "pass" \in S
  <2>1. Worst(S) = "pass" /\ Worst(S \cup {o}) = IF o = "fail" THEN "fail" ELSE "pass"
    BY <1>4 DEF Worst
  <2>2. QED
    BY <1>1, <1>2, <2>1 DEF canChangeOverallOutcome, Outcomes, o
<1>5. CASE S = {"skip"}
  <2>1. Worst(S) = "skip" /\ Worst(S \cup {o}) = o
    BY <1>1, <1>5 DEF Worst, Outcomes
  <2>2. QED
    BY <1>2, <2>1 DEF canChangeOverallOutcome, Outcomes, o
<1>6. QED
    BY <1>3, <1>4, <1>5 DEF Outcomes

\* The loop over one group: the worst of what there was and what it adds.
LEMMA OverallFact ==
    ASSUME NEW S \in SUBSET Outcomes, NEW g \in Seq(AnyResult), NEW n, n = Len(g)
    PROVE  overallAfter(Worst(S), S # {}, g) = Worst(S \cup {ToOutcome(g[k].result) : k \in 1..n})
<1>1. n \in Nat /\ (g = <<>> <=> n = 0) /\ \A k \in 1..n : g[k].result \in {"SUCCESS", "FAIL", "SKIP"}
  <2>1. n \in Nat /\ (g = <<>> <=> n = 0) /\ \A k \in 1..n : g[k] \in AnyResult
    OBVIOUS
  <2>2. QED
    BY <2>1 DEF AnyResult
<1> DEFINE out(k) == ToOutcome(g[k].result)
           upTo(k) == {out(j) : j \in 1..k}
           start == IF S # {} \/ g = <<>> THEN Worst(S) ELSE ToOutcome(g[1].result)
           E(s) == [k \in 0..n |-> IF k = 0 THEN start ELSE overallNext(s[k - 1], g[k].result)]
           c == CHOOSE s : s = E(s)
<1>2. overallAfter(Worst(S), S # {}, g) = c[n]
    BY <1>1 DEF overallAfter
<1>3. CASE n = 0
  <2>1. start = Worst(S) /\ S \cup upTo(n) = S
    BY <1>1, <1>3
  <2>2. E([k \in 0..0 |-> start]) = [k \in 0..0 |-> start]
    BY <1>3
  <2>3. c = E(c)
    <3> HIDE DEF E
    <3>1. QED
        BY <2>2
  <2> HIDE DEF c
  <2>4. c[0] = start
    BY <1>3, <2>3
  <2>5. QED
    BY <1>2, <1>3, <2>1, <2>4
<1>4. CASE n # 0
  <2> DEFINE S0 == IF S # {} THEN S ELSE {out(1)}
  <2>1. \A k \in 1..n : out(k) \in Outcomes
    BY <1>1, OutcomeFact
  <2>2. 1 \in 1..n
    BY <1>4
  <2>3. S0 \in SUBSET Outcomes /\ S0 # {} /\ S0 \cup upTo(n) = S \cup upTo(n)
    BY <2>1, <2>2
  <2>4. start = Worst(S0)
    BY <1>1, <1>4, <2>1, <2>2 DEF Worst, Outcomes
  <2> DEFINE h == [k \in 0..n |-> Worst(S0 \cup upTo(k))]
  <2>5. upTo(0) = {} /\ S0 \cup upTo(0) = S0
    OBVIOUS
  <2>6. ASSUME NEW k \in 1..n PROVE upTo(k) = upTo(k - 1) \cup {out(k)}
    <3>1. \A j : j \in 1..k <=> j \in 1..(k - 1) \/ j = k
        OBVIOUS
    <3>2. QED
        BY <3>1, Zenon
  <2>7. \A k \in 0..n : upTo(k) \in SUBSET Outcomes
    BY <2>1
  <2> HIDE DEF S0, upTo, start
  <2>8. ASSUME NEW k \in 1..n PROVE h[k] = overallNext(h[k - 1], g[k].result)
    <3>1. k - 1 \in 0..n /\ k \in 0..n
        OBVIOUS
    <3>2. h[k - 1] = Worst(S0 \cup upTo(k - 1)) /\ h[k] = Worst(S0 \cup upTo(k))
        BY <3>1
    <3>3. S0 \cup upTo(k - 1) \in SUBSET Outcomes /\ S0 \cup upTo(k - 1) # {}
        BY <2>3, <2>7, <3>1
    <3>4. (S0 \cup upTo(k - 1)) \cup {out(k)} = S0 \cup upTo(k)
        BY <2>6
    <3> HIDE DEF h
    <3>5. QED
        BY <1>1, <3>2, <3>3, <3>4, WorstNext
  <2>9. h[0] = start
    <3>1. 0 \in 0..n
        BY <1>1
    <3>2. h[0] = Worst(S0 \cup upTo(0))
        BY <3>1
    <3>3. QED
        BY <2>4, <2>5, <3>2
  <2>10. E(h) = h
    <3>1. DOMAIN h = 0..n
        OBVIOUS
    <3>2. h = [k \in 0..n |-> h[k]]
        OBVIOUS
    <3> HIDE DEF h
    <3>3. \A k \in 0..n : h[k] = IF k = 0 THEN start ELSE overallNext(h[k - 1], g[k].result)
      <4>1. \A k \in 0..n : k = 0 \/ k \in 1..n
        BY <1>1
      <4>2. QED
        BY <2>8, <2>9, <4>1
    <3>4. QED
        BY <3>2, <3>3
  <2> HIDE DEF h
  <2>11. c = E(c)
    <3> HIDE DEF E
    <3>1. QED
        BY <2>10
  <2> HIDE DEF c
  <2>12. c[0] = start /\ \A k \in 1..n : c[k] = overallNext(c[k - 1], g[k].result)
    BY <2>11
  <2> DEFINE P == {k \in 0..n : c[k] = h[k]}
  <2>13. 0 \in P
    BY <2>9, <2>12
  <2>14. ASSUME NEW k \in 1..n, k - 1 \in P PROVE k \in P
    BY <2>8, <2>12, <2>14
  <2>15. n \in P
    <3>1. P \in SUBSET (0..n) /\ n \in 0..n
        OBVIOUS
    <3> HIDE DEF P
    <3>2. QED
        BY <1>1, <2>13, <2>14, <3>1, Induction
  <2>16. c[n] = h[n] /\ h[n] = Worst(S0 \cup upTo(n))
    BY <2>15 DEF h
  <2>17. QED
    BY <1>2, <2>3, <2>16 DEF upTo
<1>5. QED
    BY <1>3, <1>4

-----------------------------------------------------------------------------
(* The counts of the groups that were rendered *)

\* What ValidateSafe returns is a sequence of results.
LEMMA GroupSeq ==
    ASSUME NEW r \in AnyResource
    PROVE  ValidateSafe(r) \in Seq(AnyResult)
<1> DEFINE g == ValidateSafe(r)
<1>1. \A k \in DOMAIN g : g[k] \in AnyResult
  <2> HIDE DEF g
  <2>1. g = ValidateSafe(r)
    BY DEF g
  <2>2. QED
    BY <2>1, PanicFact, SafeFact
<1>2. \E n \in Nat : g = [k \in 1..n |-> g[k]]
  <2>1. CASE Panics(r)
    <3>1. g = panicResults
        BY <2>1 DEF ValidateSafe
    <3>2. panicResults = [k \in 1..1 |-> panicResults[k]]
        BY DEF panicResults
    <3> HIDE DEF g
    <3>3. QED
        BY <3>1, <3>2
  <2>2. CASE ~Panics(r)
    <3> DEFINE rs == Validated(r)
               n == Cardinality(Reporting(r))
    <3>1. n \in Nat
        BY ResourceFact
    <3>2. rs = [k \in 1..n |-> rs[k]] /\ DOMAIN rs = 1..n
        BY DEF Validated
    <3>3. g = annotateSkipReasons(r, rs)
        BY <2>2 DEF ValidateSafe
    <3> HIDE DEF rs, n, g
    <3>4. DOMAIN g = 1..n /\ g = [k \in DOMAIN g |-> g[k]]
        BY <3>2, <3>3 DEF annotateSkipReasons
    <3>5. QED
        BY <3>1, <3>4
  <2>3. QED
    BY <2>1, <2>2
<1> HIDE DEF g
<1>3. g \in Seq(AnyResult)
    BY <1>1, <1>2
<1>4. QED
    BY <1>3 DEF g

At(x) == group[x[1]][x[2]]
Marked(v) == {x \in AllResults : At(x).result = v}

\* Those of S that are of the resources of R.
From(R, S) == {x \in S : x[1] \in R}

\* The results, by resource and place.
LEMMA AllResultsFact ==
    /\ \A r \in Refs : \A k \in DOMAIN group[r] : <<r, k>> \in AllResults
    /\ \A x \in AllResults : x[1] \in Refs /\ x[2] \in DOMAIN group[x[1]] /\ x = <<x[1], x[2]>>
<1>1. \A r \in Refs : \A k \in DOMAIN group[r] : <<r, k>> \in {r} \X DOMAIN group[r]
    OBVIOUS
<1>2. \A r \in Refs : \A x \in {r} \X DOMAIN group[r] :
        x[1] \in Refs /\ x[2] \in DOMAIN group[x[1]] /\ x = <<x[1], x[2]>>
    OBVIOUS
<1>3. \A x : x \in AllResults <=> \E r \in Refs : x \in {r} \X DOMAIN group[r]
    BY Zenon DEF AllResults
<1>4. \A r \in Refs : \A k \in DOMAIN group[r] : <<r, k>> \in AllResults
    BY <1>1, <1>3, Zenon
<1>5. \A x \in AllResults : x[1] \in Refs /\ x[2] \in DOMAIN group[x[1]] /\ x = <<x[1], x[2]>>
    BY <1>2, <1>3
<1>6. QED
    BY <1>4, <1>5

\* Each of them is a pass, a failure or a skip.
LEMMA ResultsFact ==
    ASSUME GroupInv, NEW x \in AllResults
    PROVE  At(x).result \in {"SUCCESS", "FAIL", "SKIP"}
<1>1. x[1] \in Refs /\ x[2] \in DOMAIN group[x[1]]
    BY AllResultsFact
<1>2. group[x[1]] \in Seq(AnyResult)
    BY <1>1, GroupSeq DEF GroupInv, AnySpec
<1>3. At(x) \in AnyResult
    BY <1>1, <1>2 DEF At
<1>4. QED
    BY <1>3 DEF AnyResult

\* One more resource adds as many results as its group has.
LEMMA CountTurn ==
    ASSUME GroupInv, NEW R \in SUBSET Refs, NEW r \in Refs, r \notin R,
           NEW S \in SUBSET AllResults, IsFiniteSet(From(R, S)),
           NEW K, K = {k \in DOMAIN group[r] : <<r, k>> \in S}
    PROVE  /\ IsFiniteSet(From(R \cup {r}, S))
           /\ Cardinality(From(R \cup {r}, S)) = Cardinality(From(R, S)) + Cardinality(K)
           /\ Cardinality(From(R, S)) \in Nat /\ Cardinality(K) \in Nat
<1> DEFINE old == From(R, S)
           new == {r} \X K
<1>1. IsFiniteSet(K) /\ Cardinality(K) \in Nat
  <2>1. group[r] \in Seq(AnyResult)
    BY GroupSeq DEF GroupInv, AnySpec
  <2>2. DOMAIN group[r] = 1..Len(group[r]) /\ Len(group[r]) \in Nat
    BY <2>1
  <2>3. IsFiniteSet(DOMAIN group[r])
    BY <2>2, FS_Interval
  <2>4. K \in SUBSET DOMAIN group[r]
    OBVIOUS
  <2>5. QED
    BY <2>3, <2>4, FS_Subset, FS_CardinalityType
<1>2. IsFiniteSet(new) /\ Cardinality(new) = Cardinality(K)
  <2>1. IsFiniteSet({r}) /\ Cardinality({r}) = 1
    BY FS_Singleton
  <2>2. IsFiniteSet(new) /\ Cardinality(new) = Cardinality({r}) * Cardinality(K)
    BY <1>1, <2>1, FS_Product
  <2>3. QED
    BY <1>1, <2>1, <2>2
<1>3. From(R \cup {r}, S) = old \cup new
  <2>1. \A x \in S : x[1] \in R \cup {r} <=> x[1] \in R \/ x[1] = r
    OBVIOUS
  <2>2. \A x \in S : x[1] = r => x \in new
    BY AllResultsFact
  <2>3. \A x \in new : x \in S /\ x[1] = r
    OBVIOUS
  <2> HIDE DEF new
  <2>4. QED
    BY <2>1, <2>2, <2>3, Zenon DEF From
<1>4. old \cap new = {}
  <2>1. \A x \in new : x[1] = r
    OBVIOUS
  <2> HIDE DEF new
  <2>2. QED
    BY <2>1 DEF From
<1>5. Cardinality(old) \in Nat
    BY FS_CardinalityType
<1> HIDE DEF old, new
<1>6. IsFiniteSet(old)
    BY DEF old
<1>7. /\ IsFiniteSet(old \cup new)
      /\ Cardinality(old \cup new) = Cardinality(old) + Cardinality(new) - Cardinality(old \cap new)
    BY <1>2, <1>6, FS_Union
<1>8. Cardinality(old \cap new) = 0
    BY <1>4, FS_EmptySet
<1>9. Cardinality(old \cup new) = Cardinality(old) + Cardinality(K)
    BY <1>1, <1>2, <1>5, <1>7, <1>8
<1>10. QED
    BY <1>1, <1>3, <1>5, <1>7, <1>9 DEF old

Rendered == From(rendered, AllResults)

\* The tally is that of the groups the loop is through with.
TallyInv ==
    /\ rendered \in SUBSET Refs
    /\ IsFiniteSet(From(rendered, Marked("FAIL")))
    /\ tally.failed = Cardinality(From(rendered, Marked("FAIL")))
    /\ IsFiniteSet(From(rendered, Marked("SKIP")))
    /\ tally.skipped = Cardinality(From(rendered, Marked("SKIP")))
    /\ IsFiniteSet(Rendered)
    /\ format # "json" => tally.count = Cardinality(Rendered)
    /\ tally.renderFailed <=> \E x \in Rendered : ~renders(format, At(x))
    /\ tally.renderFailed \in BOOLEAN
    /\ tally.seeded = (Rendered # {})
    /\ format = "prometheus" => tally.overall = Worst({ToOutcome(At(x).result) : x \in Rendered})

\* Nothing is rendered, and the tally is new.
LEMMA TallyInit == StartSweep => TallyInv
<1> SUFFICES ASSUME StartSweep PROVE TallyInv
    OBVIOUS
<1>1. rendered = {} /\ tally = NewTally
    BY DEF StartSweep
<1>2. \A S : From(rendered, S) = {}
    BY <1>1 DEF From
<1>3. Rendered = {}
    BY <1>2 DEF Rendered
<1>4. IsFiniteSet({}) /\ Cardinality({}) = 0
    BY FS_EmptySet
<1>5. Worst({ToOutcome(At(x).result) : x \in {}}) = "unknown"
    BY DEF Worst
<1>6. /\ tally.count = 0 /\ tally.failed = 0 /\ tally.skipped = 0
      /\ tally.renderFailed = FALSE /\ tally.seeded = FALSE /\ tally.overall = "unknown"
    BY <1>1 DEF NewTally
<1>7. From(rendered, Marked("FAIL")) = {} /\ From(rendered, Marked("SKIP")) = {} /\ rendered \in SUBSET Refs
    BY <1>1, <1>2
<1>8. QED
    BY <1>3, <1>4, <1>5, <1>6, <1>7 DEF TallyInv

\* One turn of the loop adds the group of its resource.
LEMMA TallyTurn ==
    ASSUME GroupInv, TallyInv, NEW r \in Refs, r \notin rendered, Turn(r)
    PROVE  TallyInv'
<1> DEFINE g == group[r]
           old == Rendered
           D == DOMAIN g
<1>1. /\ tally' = tallyGroup(format, tally, g) /\ rendered' = rendered \cup {r}
      /\ group' = group /\ format' = format
    BY DEF Turn, flags
<1>2. g \in Seq(AnyResult)
    BY GroupSeq DEF GroupInv, AnySpec
<1>3. D = 1..Len(g) /\ Len(g) \in Nat
    BY <1>2
<1>4. \A k \in D : g[k] \in AnyResult /\ At(<<r, k>>) = g[k] /\ <<r, k>> \in AllResults
    BY <1>2, AllResultsFact DEF At
<1>5. AllResults' = AllResults /\ (\A x : At(x)' = At(x)) /\ \A v : Marked(v)' = Marked(v)
    BY <1>1 DEF AllResults, At, Marked
<1>6. rendered' \in SUBSET Refs
    BY <1>1 DEF TallyInv
<1>7. Rendered' = From(rendered \cup {r}, AllResults)
    BY <1>1, <1>5 DEF Rendered, From
<1>8. ASSUME NEW x
      PROVE  x \in Rendered' <=> x \in old \/ \E k \in D : x = <<r, k>>
    BY <1>4, <1>7, AllResultsFact DEF Rendered, From
<1>9. /\ tally'.count = tally.count + Cardinality({k \in D : format # "json" \/ renders(format, g[k])})
      /\ tally'.failed = tally.failed + Cardinality({k \in D : g[k].result = "FAIL"})
      /\ tally'.skipped = tally.skipped + Cardinality({k \in D : g[k].result = "SKIP"})
      /\ tally'.renderFailed = (tally.renderFailed \/ \E k \in D : ~renders(format, g[k]))
      /\ tally'.seeded = (tally.seeded \/ g # <<>>)
      /\ format = "prometheus" => tally'.overall = overallAfter(tally.overall, tally.seeded, g)
    BY <1>1 DEF tallyGroup, counted
<1> HIDE DEF g, D
<1>10. ASSUME NEW v \in {"FAIL", "SKIP"}, IsFiniteSet(From(rendered, Marked(v)))
       PROVE  /\ IsFiniteSet(From(rendered', Marked(v)'))
              /\ Cardinality(From(rendered', Marked(v)')) =
                   Cardinality(From(rendered, Marked(v))) + Cardinality({k \in D : g[k].result = v})
  <2> DEFINE K == {k \in D : g[k].result = v}
             S == Marked(v)
  <2>1. S \in SUBSET AllResults
    BY DEF Marked
  <2>2. \A k \in D : <<r, k>> \in S <=> g[k].result = v
    BY <1>4 DEF Marked
  <2>3. K = {k \in DOMAIN group[r] : <<r, k>> \in S}
    BY <2>2, Zenon DEF D, g
  <2>4. rendered \in SUBSET Refs
    BY DEF TallyInv
  <2> HIDE DEF S, K
  <2>5. IsFiniteSet(From(rendered, S))
    BY <1>10 DEF S
  <2>6. /\ IsFiniteSet(From(rendered \cup {r}, S))
        /\ Cardinality(From(rendered \cup {r}, S)) = Cardinality(From(rendered, S)) + Cardinality(K)
    BY <2>1, <2>3, <2>4, <2>5, CountTurn
  <2>7. Marked(v)' = S
    BY <1>5 DEF S
  <2>8. QED
    BY <1>1, <2>6, <2>7 DEF S, K
<1>11. /\ IsFiniteSet(Rendered')
       /\ Cardinality(Rendered') = Cardinality(Rendered) + Cardinality(D)
  <2>1. D = {k \in DOMAIN group[r] : <<r, k>> \in AllResults}
    BY <1>4 DEF D, g
  <2>2. rendered \in SUBSET Refs /\ IsFiniteSet(From(rendered, AllResults))
    BY DEF TallyInv, Rendered
  <2>3. AllResults \in SUBSET AllResults
    OBVIOUS
  <2>4. /\ IsFiniteSet(From(rendered \cup {r}, AllResults))
        /\ Cardinality(From(rendered \cup {r}, AllResults)) = Cardinality(From(rendered, AllResults)) + Cardinality(D)
    BY <2>1, <2>2, <2>3, CountTurn
  <2>5. QED
    BY <1>7, <2>4 DEF Rendered
<1>12. format # "json" => tally'.count = Cardinality(Rendered')
  <2>1. format # "json" => {k \in D : format # "json" \/ renders(format, g[k])} = D
    OBVIOUS
  <2>2. QED
    BY <1>9, <1>11, <2>1 DEF TallyInv
<1>13. tally'.renderFailed <=> \E x \in Rendered' : ~renders(format, At(x))
  <2>1. (\E x \in Rendered' : ~renders(format, At(x))) <=>
            (\E x \in old : ~renders(format, At(x))) \/ \E k \in D : ~renders(format, g[k])
    BY <1>4, <1>8
  <2>2. QED
    BY <1>9, <2>1 DEF TallyInv
<1>14. tally'.renderFailed \in BOOLEAN
    BY <1>9
<1>15. tally'.seeded = (Rendered' # {})
  <2>1. g # <<>> <=> \E k \in D : TRUE
    BY <1>2, <1>3
  <2>2. Rendered' # {} <=> old # {} \/ \E k \in D : TRUE
    BY <1>8
  <2>3. QED
    BY <1>9, <2>1, <2>2 DEF TallyInv
<1>16. ASSUME format = "prometheus"
       PROVE  tally'.overall = Worst({ToOutcome(At(x).result) : x \in Rendered'})
  <2> DEFINE S == {ToOutcome(At(x).result) : x \in old}
             T == {ToOutcome(g[k].result) : k \in 1..Len(g)}
  <2>1. \A x \in AllResults : At(x).result \in {"SUCCESS", "FAIL", "SKIP"}
    BY ResultsFact
  <2>2. S \in SUBSET Outcomes
    BY <2>1, OutcomeFact DEF Rendered, From
  <2>3. S # {} <=> old # {}
    OBVIOUS
  <2>4. {ToOutcome(At(x).result) : x \in Rendered'} = S \cup T
    <3> DEFINE all == {ToOutcome(At(x).result) : x \in Rendered'}
    <3>1. ASSUME NEW x \in Rendered' PROVE ToOutcome(At(x).result) \in S \cup T
      <4>1. CASE x \in old
        BY <4>1
      <4>2. CASE \E k \in D : x = <<r, k>>
        <5>1. PICK k \in D : x = <<r, k>>
            BY <4>2
        <5>2. At(x) = g[k] /\ k \in 1..Len(g)
            BY <1>3, <1>4, <5>1
        <5>3. QED
            BY <5>2
      <4>3. QED
        BY <1>8, <4>1, <4>2
    <3>2. ASSUME NEW x \in old PROVE ToOutcome(At(x).result) \in all
        BY <1>8
    <3>3. ASSUME NEW k \in 1..Len(g) PROVE ToOutcome(g[k].result) \in all
      <4>1. <<r, k>> \in Rendered' /\ At(<<r, k>>) = g[k]
        BY <1>3, <1>4, <1>8
      <4>2. QED
        BY <4>1
    <3>4. all \subseteq S \cup T
        BY <3>1, Zenon
    <3>5. S \subseteq all /\ T \subseteq all
      <4>1. S \subseteq all
        BY <3>2, Zenon
      <4>2. T \subseteq all
        BY <3>3, Zenon
      <4>3. QED
        BY <4>1, <4>2
    <3> HIDE DEF S, T, all
    <3>6. all = S \cup T
        BY <3>4, <3>5
    <3>7. QED
        BY <3>6 DEF all
  <2>5. tally.overall = Worst(S) /\ tally.seeded = (S # {})
    BY <1>16, <2>3 DEF TallyInv
  <2> HIDE DEF S, T
  <2>6. overallAfter(Worst(S), S # {}, g) = Worst(S \cup T)
    BY <1>2, <2>2, OverallFact DEF T
  <2>7. QED
    BY <1>9, <1>16, <2>4, <2>5, <2>6
<1>17. /\ IsFiniteSet(From(rendered', Marked("FAIL")'))
       /\ tally'.failed = Cardinality(From(rendered', Marked("FAIL")'))
    BY <1>9, <1>10 DEF TallyInv
<1>18. /\ IsFiniteSet(From(rendered', Marked("SKIP")'))
       /\ tally'.skipped = Cardinality(From(rendered', Marked("SKIP")'))
    BY <1>9, <1>10 DEF TallyInv
<1>19. QED
    BY <1>1, <1>5, <1>6, <1>11, <1>12, <1>13, <1>14, <1>15, <1>16, <1>17, <1>18 DEF TallyInv

-----------------------------------------------------------------------------
(* Every group is rendered once, and all are when Output returns *)

StreamInv ==
    /\ Range(received) = {r \in Refs : verdict[r] # <<>>}
    /\ rendered \subseteq Range(received)
    /\ ~collects /\ outputer = "recv" => rendered = Range(received)
    /\ ~collects /\ outputer = "render" =>
          /\ Last(received) \in Range(received) \ rendered
          /\ Range(received) = rendered \cup {Last(received)}
    /\ outputer = "done" => rendered = Refs /\ code = exitCode(format, tally)

ReportInv == GroupInv /\ TallyInv /\ StreamInv

\* A group that is received is the last of those received.
LEMMA AppendFact ==
    ASSUME NEW s \in Seq(Refs), NEW r \in Refs
    PROVE  Range(Append(s, r)) = Range(s) \cup {r} /\ Last(Append(s, r)) = r
<1> DEFINE t == Append(s, r)
           n == Len(s)
<1>1. n \in Nat /\ Len(t) = n + 1 /\ DOMAIN s = 1..n /\ DOMAIN t = 1..(n + 1)
    OBVIOUS
<1>2. t[n + 1] = r /\ \A i \in 1..n : t[i] = s[i]
    OBVIOUS
<1> HIDE DEF t, n
<1>3. \A i : i \in 1..(n + 1) <=> i \in 1..n \/ i = n + 1
    BY <1>1
<1>4. \A e : e \in Range(t) <=> e \in Range(s) \/ e = r
    BY <1>1, <1>2, <1>3, Zenon DEF Range
<1>5. Range(t) = Range(s) \cup {r}
    BY <1>4
<1>6. QED
    BY <1>1, <1>2, <1>5 DEF Last, t

\* What a step that leaves the tally alone keeps of it.
LEMMA TallySame ==
    ASSUME TallyInv, UNCHANGED <<flags, rendered, tally>>
    PROVE  TallyInv'
<1>1. AllResults' = AllResults /\ (\A x : At(x)' = At(x)) /\ (\A v : Marked(v)' = Marked(v)) /\ Rendered' = Rendered
    BY DEF flags, AllResults, At, Marked, Rendered, From
<1>2. rendered' = rendered /\ tally' = tally /\ format' = format
    BY DEF flags
<1>3. QED
    BY <1>1, <1>2 DEF TallyInv

\* Receiving a group.
LEMMA StreamSend ==
    ASSUME Inv, ReportInv, NEW w \in Workers, SendGroup(w)
    PROVE  StreamInv'
<1> DEFINE r == item[w]
<1> USE DEF Inv, TypeOK
<1>1. r \in Refs /\ verdict[r] = <<>> /\ outcome[w] \in {"SUCCESS", "FAIL"}
    BY DEF SendGroup, Send, Busy, Partition
<1>2. /\ verdict' = [verdict EXCEPT ![r] = Append(<<>>, outcome[w])]
      /\ outputer' = "render" /\ received' = Append(received, r)
      /\ UNCHANGED <<flags, rendered, tally, code>> /\ outputer = "recv"
    BY <1>1 DEF SendGroup, Send
<1> HIDE DEF r
<1>3. Append(<<>>, outcome[w]) # <<>>
    BY <1>1
<1>4. Range(received') = Range(received) \cup {r} /\ Last(received') = r
    BY <1>1, <1>2, AppendFact DEF ReportInv, GroupInv
<1>5. \A q \in Refs : verdict'[q] # <<>> <=> verdict[q] # <<>> \/ q = r
    BY <1>1, <1>2, <1>3
<1>6. r \notin Range(received)
    BY <1>1 DEF ReportInv, StreamInv
<1>7. Range(received') = {q \in Refs : verdict'[q] # <<>>}
    BY <1>1, <1>4, <1>5 DEF ReportInv, StreamInv
<1>8. collects' = collects
    BY <1>2 DEF collects, flags
<1>9. QED
    BY <1>2, <1>4, <1>6, <1>7, <1>8 DEF ReportInv, StreamInv

\* Once out is closed, every group was received.
LEMMA ClosedRange ==
    ASSUME Inv, StreamInv, closed
    PROVE  Range(received) = Refs
<1>1. \A r \in Refs : Len(verdict[r]) = 1
    BY ClosedFact DEF ClosedAfterAllReported
<1>2. \A r \in Refs : verdict[r] # <<>>
    BY <1>1
<1>3. QED
    BY <1>2 DEF StreamInv

\* Every step keeps the counts.
LEMMA ReportInvNext == Inv /\ ReportInv /\ [ReportNext]_reportVars => ReportInv'
<1> SUFFICES ASSUME Inv, ReportInv, [ReportNext]_reportVars PROVE ReportInv'
    OBVIOUS
<1>0. GroupInv'
    BY GroupNext DEF ReportInv
<1>1. UNCHANGED flags => collects' = collects /\ format' = format
    BY DEF flags, collects
<1>2. ASSUME UNCHANGED <<flags, received, rendered, tally, code, outputer, verdict>> PROVE ReportInv'
  <2>1. StreamInv'
    BY <1>1, <1>2 DEF ReportInv, StreamInv
  <2>2. QED
    BY <1>0, <1>2, <2>1, TallySame DEF ReportInv
<1>3. ASSUME NEW w \in Workers, SendGroup(w) PROVE ReportInv'
  <2>1. UNCHANGED <<flags, rendered, tally>>
    BY <1>3 DEF SendGroup
  <2>2. QED
    BY <1>0, <1>3, <2>1, StreamSend, TallySame DEF ReportInv
<1>4. CASE CollectGroup
  <2>1. /\ collects /\ outputer' = "recv" /\ UNCHANGED verdict
        /\ UNCHANGED <<flags, received, rendered, tally, code>>
    BY <1>4 DEF CollectGroup, Render
  <2>2. StreamInv'
    BY <1>1, <2>1 DEF ReportInv, StreamInv
  <2>3. QED
    BY <1>0, <2>1, <2>2, TallySame DEF ReportInv
<1>5. CASE RenderGroup
  <2> DEFINE r == Last(received)
  <2>1. /\ ~collects /\ outputer = "render" /\ outputer' = "recv" /\ UNCHANGED verdict
        /\ Turn(r) /\ rendered' = rendered \cup {r} /\ UNCHANGED <<flags, received>>
    BY <1>5 DEF RenderGroup, Render, Turn
  <2>2. r \in Range(received) \ rendered /\ Range(received) = rendered \cup {r}
    BY <2>1 DEF ReportInv, StreamInv
  <2> HIDE DEF r
  <2>3. r \in Refs
    BY <2>2 DEF ReportInv, StreamInv
  <2>4. TallyInv'
    BY <2>1, <2>2, <2>3, TallyTurn DEF ReportInv
  <2>5. StreamInv'
    BY <1>1, <2>1, <2>2 DEF ReportInv, StreamInv
  <2>6. QED
    BY <1>0, <2>4, <2>5 DEF ReportInv
<1>6. CASE RenderSorted
  <2>1. PICK r \in Range(received) \ rendered : Turn(r)
    BY <1>6 DEF RenderSorted
  <2>2. collects /\ outputer = "recv" /\ UNCHANGED <<outputer, verdict>>
    BY <1>6 DEF RenderSorted, Sorted, vars
  <2>3. rendered' = rendered \cup {r} /\ UNCHANGED <<flags, received>>
    BY <2>1 DEF Turn
  <2>4. r \in Refs
    BY DEF ReportInv, StreamInv
  <2>5. TallyInv'
    BY <2>1, <2>4, TallyTurn DEF ReportInv
  <2>6. StreamInv'
    BY <1>1, <2>2, <2>3 DEF ReportInv, StreamInv
  <2>7. QED
    BY <1>0, <2>5, <2>6 DEF ReportInv
<1>7. CASE FinishReport
  <2>1. /\ ~Sorted /\ outputer = "recv" /\ closed /\ outputer' = "done" /\ UNCHANGED verdict
        /\ code' = exitCode(format, tally) /\ UNCHANGED <<flags, received, rendered, tally>>
    BY <1>7 DEF FinishReport, Finish
  <2>2. rendered = Range(received)
    BY <2>1 DEF Sorted, ReportInv, StreamInv
  <2>3. Range(received) = Refs
    BY <2>1, ClosedRange DEF ReportInv
  <2>4. StreamInv'
    BY <1>1, <2>1, <2>2, <2>3 DEF ReportInv, StreamInv
  <2>5. QED
    BY <1>0, <2>1, <2>4, TallySame DEF ReportInv
<1>8. CASE Crash
  <2>1. outputer' = "crashed" /\ UNCHANGED <<verdict, flags, received, rendered, tally>>
    BY <1>8 DEF Crash
  <2>2. StreamInv'
    BY <2>1 DEF ReportInv, StreamInv
  <2>3. QED
    BY <1>0, <2>1, <2>2, TallySame DEF ReportInv
<1>9. \/ \E w \in Workers : SendGroup(w)
      \/ UNCHANGED <<flags, received, rendered, tally, code, outputer, verdict>>
      \/ CollectGroup \/ RenderGroup \/ RenderSorted \/ FinishReport \/ Crash
    BY Zenon DEF ReportNext, WorkOnReport, TakeResource, Take, Drained, ValidateResource, Validate,
        CloseOut, Close, ConsumeReport, Ended, reportVars, vars
<1>10. QED
    BY <1>2, <1>3, <1>4, <1>5, <1>6, <1>7, <1>8, <1>9

\* The spec and the stream of its groups agree with the tally in every state.
THEOREM ReportInvCorrect == AnySweepSpec => [](Inv /\ ReportInv)
<1>1. AnySpec /\ StartSweep => StreamInv
  <2> SUFFICES ASSUME StartSweep PROVE StreamInv
    OBVIOUS
  <2>1. received = <<>> /\ rendered = {} /\ outputer = "recv" /\ verdict = [r \in Refs |-> <<>>]
    BY DEF StartSweep, Init
  <2>2. Range(received) = {}
    BY <2>1 DEF Range
  <2>3. QED
    BY <2>1, <2>2 DEF StreamInv
<1>2. AnySpec /\ StartSweep => GroupInv
    BY DEF StartSweep, GroupInv
<1>3. AnySpec /\ StartSweep => ReportInv
    BY <1>1, <1>2, TallyInit DEF ReportInv
<1>4. QED
    BY <1>3, InitInv, NextInv, ReportInvNext, PTL DEF AnySweepSpec, SweepSpec

\* What Output returns with: nonzero exactly if a check failed or could not be
\* printed, except for prometheus.
LEMMA ExitFact ==
    ASSUME NEW f \in Formats, NEW t, t.failed \in Nat, t.renderFailed \in BOOLEAN
    PROVE  exitCode(f, t) = 0 <=> f = "prometheus" \/ (t.failed = 0 /\ ~t.renderFailed)
<1>1. f \in {"silent", "nagios", "tap", "junit", "rspecish",
             "documentation", "json", "structured", "prometheus"}
    BY FormatsAssumption
<1>2. GetOutputer(f).failure = IF f = "prometheus" THEN 0 ELSE IF f = "nagios" THEN 2 ELSE 1
    BY <1>1 DEF GetOutputer, Outputer, Silent, Nagios, Prometheus, Tap, JUnit, Rspecish,
                Documentation, Json, Structured
<1>3. QED
    BY <1>2 DEF exitCode

\* Which formats cannot print every value.
LEMMA StrictFact ==
    ASSUME NEW f \in Formats, NEW res
    PROVE  renders(f, res) <=> ~(f \in {"json", "structured"} /\ res.json = "unsupported")
<1>1. f \in {"silent", "nagios", "tap", "junit", "rspecish",
             "documentation", "json", "structured", "prometheus"}
    BY FormatsAssumption
<1>2. GetOutputer(f).strict = IF f \in {"json", "structured"} THEN TRUE ELSE FALSE
    BY <1>1 DEF GetOutputer, Outputer, Silent, Nagios, Prometheus, Tap, JUnit, Rspecish,
                Documentation, Json, Structured
<1>3. QED
    BY <1>2 DEF renders

\* However the groups are ordered, sorted or not, Output returns with the
\* counts, the exit code and the overall outcome of the whole spec.
THEOREM TallyCorrect == AnySweepSpec => []TallyExact
<1>1. ReportInv => TallyExact
  <2> SUFFICES ASSUME ReportInv, outputer = "done" PROVE TallyExact
    BY DEF TallyExact
  <2>1. rendered = Refs /\ code = exitCode(format, tally) /\ format \in Formats
    BY DEF ReportInv, StreamInv, GroupInv, AnySpec
  <2>2. ASSUME NEW S \in SUBSET AllResults PROVE From(rendered, S) = S
    <3>1. \A x \in S : x[1] \in Refs
        BY AllResultsFact
    <3>2. QED
        BY <2>1, <3>1 DEF From
  <2> DEFINE fails == {x \in AllResults : At(x).result = "FAIL"}
             skips == {x \in AllResults : At(x).result = "SKIP"}
             with(v) == {x \in AllResults : ToOutcome(At(x).result) = v}
             odd == {x \in AllResults : At(x).json = "unsupported"}
  <2>3. Rendered = AllResults /\ From(rendered, Marked("FAIL")) = fails /\ From(rendered, Marked("SKIP")) = skips
    BY <2>2 DEF Rendered, Marked
  <2>4. /\ IsFiniteSet(AllResults) /\ IsFiniteSet(fails)
        /\ tally.failed = Cardinality(fails) /\ tally.skipped = Cardinality(skips)
        /\ format # "json" => tally.count = Cardinality(AllResults)
        /\ tally.renderFailed \in BOOLEAN
        /\ tally.renderFailed <=> \E x \in AllResults : ~renders(format, At(x))
        /\ format = "prometheus" => tally.overall = Worst({ToOutcome(At(x).result) : x \in AllResults})
    BY <2>3 DEF ReportInv, TallyInv
  <2>5. ASSUME NEW S \in SUBSET AllResults
        PROVE  Cardinality(S) \in Nat /\ (Cardinality(S) = 0 <=> S = {})
    <3>1. IsFiniteSet(S)
        BY <2>4, FS_Subset
    <3>2. QED
        BY <3>1, FS_CardinalityType, FS_EmptySet
  <2>6. \A v : Cardinality(with(v)) > 0 <=> \E x \in AllResults : ToOutcome(At(x).result) = v
    <3> TAKE v
    <3>1. with(v) \in SUBSET AllResults
        OBVIOUS
    <3>2. with(v) # {} <=> \E x \in AllResults : ToOutcome(At(x).result) = v
        OBVIOUS
    <3> HIDE DEF with
    <3>3. QED
        BY <2>5, <3>1, <3>2
  <2>7. Cardinality(odd) = 0 <=> ~\E x \in AllResults : At(x).json = "unsupported"
    <3>1. odd \in SUBSET AllResults
        OBVIOUS
    <3>2. odd # {} <=> \E x \in AllResults : At(x).json = "unsupported"
        OBVIOUS
    <3> HIDE DEF odd
    <3>3. QED
        BY <2>5, <3>1, <3>2
  <2>8. \A x \in AllResults : At(x).result = "FAIL" <=> ToOutcome(At(x).result) = "fail"
    BY ResultsFact, OutcomeFact DEF ReportInv
  <2>9. tally.failed \in Nat /\ (tally.failed = 0 <=> ~(Cardinality(with("fail")) > 0))
    <3>1. fails \in SUBSET AllResults
        OBVIOUS
    <3>2. fails = {} <=> ~\E x \in AllResults : ToOutcome(At(x).result) = "fail"
        BY <2>8
    <3> HIDE DEF fails, with
    <3>3. QED
        BY <2>4, <2>5, <2>6, <3>1, <3>2
  <2>10. tally.renderFailed <=> format \in {"json", "structured"} /\ Cardinality(odd) # 0
    BY <2>1, <2>4, <2>7, StrictFact
  <2> DEFINE green == /\ ~(Cardinality(with("fail")) > 0)
                      /\ format \in {"json", "structured"} => Cardinality(odd) = 0
  <2>11. (code = 0) = (green \/ format = "prometheus")
    <3> HIDE DEF with, odd
    <3>1. QED
        BY <2>1, <2>4, <2>9, <2>10, ExitFact
  <2>12. ASSUME format = "prometheus"
         PROVE  tally.overall = IF Cardinality(with("fail")) > 0 THEN "fail"
                                ELSE IF Cardinality(with("pass")) > 0 THEN "pass"
                                ELSE IF Cardinality(with("skip")) > 0 THEN "skip" ELSE "unknown"
    <3> DEFINE S == {ToOutcome(At(x).result) : x \in AllResults}
    <3>1. \A v : v \in S <=> Cardinality(with(v)) > 0
      <4>1. \A v : v \in S <=> \E x \in AllResults : ToOutcome(At(x).result) = v
        OBVIOUS
      <4> HIDE DEF S, with
      <4>2. QED
        BY <2>6, <4>1
    <3>2. tally.overall = Worst(S)
        BY <2>4, <2>12
    <3> HIDE DEF S, with
    <3>3. QED
        BY <3>1, <3>2 DEF Worst
  <2>13. {x \in AllResults : TRUE} = AllResults
    OBVIOUS
  <2>14. QED
    BY <2>4, <2>11, <2>12, <2>13, Zenon DEF TallyExact, Count, At
<1>2. QED
    BY <1>1, ReportInvCorrect, PTL

=============================================================================
