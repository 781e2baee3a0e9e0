-------------------------- MODULE HealthServerProofs -------------------------
(***************************************************************************)
(* Theorems about HealthServer, for any number of probes, formats, sweeps  *)
(* and expiries of the cache.                                              *)
(***************************************************************************)
EXTENDS HealthServer, TLAPS

-----------------------------------------------------------------------------
(* The inductive invariant *)

SweepRecord == [failed : BOOLEAN, hostDown : BOOLEAN, ctxDone : BOOLEAN]

TypeOK ==
    /\ Cache \in BOOLEAN /\ specError \in BOOLEAN
    /\ hostDown \in BOOLEAN /\ ctxDone \in BOOLEAN
    /\ pc \in [Requests -> {"idle", "lookup", "lock", "recheck", "validate",
                            "output", "answered", "aborted"}]
    /\ syverMu \in Requests \cup {NoRequest}
    /\ sweeps \in Seq(SweepRecord)
    /\ cache \in Nat /\ expiries \in Nat
    /\ got \in [Requests -> Nat]
    /\ status \in [Requests -> {0, 200, 503}]
    /\ seen \in [Requests -> Nat]

\* Whoever is between Lock and Unlock of fillCache holds syverMu.
MutexInv == \A q \in Requests : pc[q] \in {"recheck", "validate"} => syverMu = q

\* The cache holds the last sweep or nothing, always nothing when it is off,
\* and nothing while a sweep runs to fill it; every sweep but the one it holds
\* was dropped by an expiry.
CacheInv ==
    /\ cache \in {NoSweep, Len(sweeps)}
    /\ ~Cache => cache = NoSweep
    /\ Cache => /\ Len(sweeps) <= expiries + (IF cache = NoSweep THEN 0 ELSE 1)
                /\ \A q \in Requests : pc[q] = "validate" => cache = NoSweep

\* A probe has a sweep, one that has completed, exactly when it renders it.
ReadInv ==
    \A q \in Requests :
        /\ (got[q] # NoSweep) = (pc[q] \in {"output", "answered", "aborted"})
        /\ got[q] <= Len(sweeps)
        /\ seen[q] <= Len(sweeps)
        /\ status[q] # 0 => pc[q] = "answered"

\* A sweep failed for a reason the server knows, and the status says so.
VerdictInv ==
    /\ \A n \in 1..Len(sweeps) :
          /\ ~sweeps[n].failed => ~specError /\ ~sweeps[n].hostDown
          /\ sweeps[n].failed => specError \/ sweeps[n].hostDown \/ sweeps[n].ctxDone
    /\ \A q \in Requests :
          /\ status[q] = 200 => ~sweeps[got[q]].failed
          /\ status[q] = 503 => sweeps[got[q]].failed

Inv == TypeOK /\ MutexInv /\ CacheInv /\ ReadInv /\ MonotonicReads /\ VerdictInv

\* A server that has answered nothing satisfies Inv.
LEMMA InitInv == Init => Inv
<1> SUFFICES ASSUME Init PROVE Inv
    OBVIOUS
<1> USE DEF Init, NoSweep
<1>1. sweeps \in Seq(SweepRecord) /\ Len(sweeps) = 0
    OBVIOUS
<1>2. ctxDone \in BOOLEAN
    OBVIOUS
<1>3. TypeOK
    BY <1>1, <1>2 DEF TypeOK
<1>4. QED
    BY <1>1, <1>3 DEF Inv, MutexInv, CacheInv, ReadInv, MonotonicReads, VerdictInv

-----------------------------------------------------------------------------
(* One lemma per step of a probe *)

\* A probe arrives: what it will read is bounded below from now on.
LEMMA ArriveInv == ASSUME Inv, NEW q \in Requests, Arrive(q) PROVE Inv'
<1> USE DEF Inv, TypeOK, Arrive, To, serverVars, cacheVars, NoSweep
<1>1. Len(sweeps) \in Nat
    OBVIOUS
<1>2. TypeOK'
    BY <1>1
<1>3. MutexInv' /\ CacheInv'
    BY DEF MutexInv, CacheInv
<1>4. got[q] = NoSweep
    BY DEF ReadInv
<1>5. ReadInv' /\ MonotonicReads'
    BY <1>1, <1>4 DEF ReadInv, MonotonicReads
<1>6. VerdictInv'
    BY DEF VerdictInv
<1>7. QED
    BY <1>2, <1>3, <1>5, <1>6

\* A probe that finds the cache filled takes the last sweep: Lookup and Recheck.
LEMMA HitInv ==
    ASSUME Inv, NEW q \in Requests, cachedResults # NoSweep,
           pc[q] \in {"lookup", "recheck"},
           To(q, "output"), got' = [got EXCEPT ![q] = cachedResults],
           syverMu' = IF pc[q] = "recheck" THEN NoRequest ELSE syverMu,
           UNCHANGED <<serverVars, hostDown, status, seen, cache, sweeps, expiries>>
    PROVE  Inv'
<1> USE DEF Inv, TypeOK, To, serverVars, NoSweep
<1>1. Cache /\ cachedResults = Len(sweeps) /\ cache = Len(sweeps) /\ Len(sweeps) \in Nat
    BY DEF cachedResults, cacheEnabled, CacheInv
<1>2. TypeOK'
    BY <1>1
<1>3. MutexInv'
    BY DEF MutexInv
<1>4. CacheInv'
    BY <1>1 DEF CacheInv
<1>5. ReadInv' /\ MonotonicReads'
    BY <1>1 DEF ReadInv, MonotonicReads
<1>6. status[q] = 0
    BY DEF ReadInv
<1>7. VerdictInv'
    BY <1>6 DEF VerdictInv
<1>8. QED
    BY <1>2, <1>3, <1>4, <1>5, <1>7

\* A probe moves towards its sweep: a miss of Lookup, Acquire, a miss of Recheck.
LEMMA MoveInv ==
    ASSUME Inv, NEW q \in Requests, NEW label \in {"lock", "recheck", "validate"},
           pc[q] \in {"lookup", "lock", "recheck"},
           To(q, label),
           label \in {"recheck", "validate"} => syverMu' = q,
           label = "lock" => syverMu' = syverMu /\ pc[q] = "lookup",
           syverMu \in {NoRequest, q} \/ syverMu' = syverMu,
           label = "validate" => cachedResults = NoSweep,
           UNCHANGED <<serverVars, hostDown, status, seen, got, cache, sweeps, expiries>>
    PROVE  Inv'
<1> USE RequestsAssumption DEF Inv, TypeOK, To, serverVars, NoSweep
<1>1. TypeOK'
    OBVIOUS
<1>2. MutexInv'
    BY DEF MutexInv
<1>3. CacheInv'
    BY DEF CacheInv, cachedResults, cacheEnabled
<1>4. ReadInv' /\ MonotonicReads'
    BY DEF ReadInv, MonotonicReads
<1>5. VerdictInv'
    BY DEF VerdictInv
<1>6. QED
    BY <1>1, <1>2, <1>3, <1>4, <1>5

\* A sweep completes: it is the newest, and only the probe that ran it has it.
LEMMA FillCacheInv == ASSUME Inv, NEW q \in Requests, FillCache(q) PROVE Inv'
<1> USE DEF Inv, TypeOK, FillCache, To, At, serverVars, NoSweep
<1> DEFINE n == Len(sweeps) + 1
<1>1. PICK failed \in validate(q) :
          sweeps' = Append(sweeps, [failed |-> failed, hostDown |-> hostDown, ctxDone |-> ctxDone])
    OBVIOUS
<1>2. /\ failed \in BOOLEAN
      /\ ~failed => ~specError /\ ~hostDown
      /\ failed => specError \/ hostDown \/ ctxDone
    BY DEF validate, sweepCancelled
<1> DEFINE s == [failed |-> failed, hostDown |-> hostDown, ctxDone |-> ctxDone]
<1>3. s \in SweepRecord
    BY <1>2 DEF SweepRecord
<1>4. /\ s.failed = failed /\ s.hostDown = hostDown /\ s.ctxDone = ctxDone
    OBVIOUS
<1> HIDE DEF s
<1>5. /\ Len(sweeps) \in Nat /\ n \in Nat /\ Len(sweeps') = n
      /\ sweeps' \in Seq(SweepRecord)
      /\ \A i \in 1..Len(sweeps) : sweeps'[i] = sweeps[i]
      /\ sweeps'[n] = s
    BY <1>1, <1>3 DEF s
<1>6. \A p \in Requests : p # q => pc[p] \notin {"recheck", "validate"}
    BY DEF MutexInv
<1>7. TypeOK'
    BY <1>5, Zenon
<1>8. MutexInv'
    BY <1>6 DEF MutexInv
<1>9. CacheInv'
    BY <1>5, <1>6 DEF CacheInv, cacheEnabled
<1>10. ReadInv'
    BY <1>5 DEF ReadInv
<1>11. MonotonicReads'
    BY <1>5 DEF ReadInv, MonotonicReads
<1>12. VerdictInv'
  <2>1. ASSUME NEW i \in 1..Len(sweeps')
        PROVE  /\ ~sweeps'[i].failed => ~specError' /\ ~sweeps'[i].hostDown
               /\ sweeps'[i].failed => specError' \/ sweeps'[i].hostDown \/ sweeps'[i].ctxDone
    <3>1. CASE i = n
        BY <3>1, <1>2, <1>4, <1>5
    <3>2. CASE i # n
      <4>1. i \in 1..Len(sweeps)
        BY <1>5, <3>2
      <4>2. QED
        BY <4>1, <1>5 DEF VerdictInv
    <3>3. QED
        BY <3>1, <3>2
  <2>2. ASSUME NEW p \in Requests
        PROVE  /\ status'[p] = 200 => ~sweeps'[got'[p]].failed
               /\ status'[p] = 503 => sweeps'[got'[p]].failed
    <3>1. CASE status[p] # 0
      <4>1. p # q /\ got'[p] = got[p] /\ got[p] \in 1..Len(sweeps)
        BY <3>1, <1>5 DEF ReadInv
      <4>2. QED
        BY <4>1, <1>5 DEF VerdictInv
    <3>2. CASE status[p] = 0
        BY <3>2
    <3>3. QED
        BY <3>1, <3>2
  <2>3. QED
    BY <2>1, <2>2, Zenon DEF VerdictInv
<1>13. QED
    BY <1>7, <1>8, <1>9, <1>10, <1>11, <1>12

\* The status is the verdict of the sweep the probe has; one whose outputer
\* panics has none.
LEMMA OutputInv == ASSUME Inv, NEW q \in Requests, Output(q) PROVE Inv'
<1> DEFINE label == IF format[q] \in panicking THEN "aborted" ELSE "answered"
           code == IF format[q] \in panicking THEN status[q] ELSE statusCode(q)
<1>0. /\ pc[q] = "output" /\ pc' = [pc EXCEPT ![q] = label]
      /\ status' = [status EXCEPT ![q] = code]
      /\ UNCHANGED <<serverVars, hostDown, got, seen, cacheVars>>
    BY DEF Inv, TypeOK, Output, To, At
<1>a. /\ label \in {"aborted", "answered"} /\ status[q] = 0
      /\ code = 0 \/ (label = "answered" /\ code = statusCode(q))
    BY <1>0 DEF Inv, TypeOK, ReadInv
<1> HIDE DEF label, code
<1> USE <1>0, <1>a DEF Inv, TypeOK, serverVars, cacheVars, NoSweep
<1>1. code \in {0, 200, 503}
    BY DEF statusCode
<1>2. TypeOK'
    BY <1>1
<1>3. MutexInv' /\ CacheInv'
    BY DEF MutexInv, CacheInv
<1>4. ReadInv' /\ MonotonicReads'
    BY DEF ReadInv, MonotonicReads
<1>5. VerdictInv'
    BY DEF VerdictInv, statusCode, anyFailed
<1>6. QED
    BY <1>2, <1>3, <1>4, <1>5

\* Every step of the probes, the server and the environment keeps Inv.
LEMMA NextInv == Inv /\ [Next]_vars => Inv'
<1> SUFFICES ASSUME Inv, [Next]_vars PROVE Inv'
    OBVIOUS
<1> USE DEF serverVars, requestVars, cacheVars
<1>1. ASSUME NEW q \in Requests, Lookup(q) PROVE Inv'
  <2>1. CASE cachedResults # NoSweep
    BY <1>1, <2>1, HitInv DEF Lookup, At
  <2>2. CASE cachedResults = NoSweep
    BY <1>1, <2>2, MoveInv DEF Lookup, At
  <2>3. QED
    BY <2>1, <2>2
<1>2. ASSUME NEW q \in Requests, Acquire(q) PROVE Inv'
    BY <1>2, MoveInv DEF Acquire, At
<1>3. ASSUME NEW q \in Requests, Recheck(q) PROVE Inv'
  <2>1. CASE cachedResults # NoSweep
    BY <1>3, <2>1, HitInv DEF Recheck, At
  <2>2. CASE cachedResults = NoSweep
    BY <1>3, <2>2, MoveInv DEF Recheck, At, Inv, MutexInv
  <2>3. QED
    BY <2>1, <2>2
<1> USE DEF Inv, TypeOK, MutexInv, CacheInv, ReadInv, MonotonicReads, VerdictInv, NoSweep
<1>4. ASSUME NEW q \in Requests, Disconnect(q) PROVE Inv'
    BY <1>4 DEF Disconnect
<1>5. CASE Expire
  <2>1. Len(sweeps) \in Nat
    OBVIOUS
  <2>2. QED
    BY <1>5, <2>1 DEF Expire
<1>6. CASE HostChanges
    BY <1>6 DEF HostChanges
<1>7. CASE Signal
    BY <1>7 DEF Signal
<1>8. CASE Lifecycle
    BY <1>8 DEF Lifecycle, Listen, ListenFails, BeginShutdown, ShutdownComplete,
        ShutdownDeadline, ServerTo
<1>9. CASE UNCHANGED vars
    BY <1>9 DEF vars
<1> HIDE DEF Inv, TypeOK, MutexInv, CacheInv, ReadInv, MonotonicReads, VerdictInv
<1>10. QED
    BY <1>1, <1>2, <1>3, <1>4, <1>5, <1>6, <1>7, <1>8, <1>9,
       ArriveInv, FillCacheInv, OutputInv
    DEF Next, Probe, Stopped

-----------------------------------------------------------------------------
(* What the health endpoint promises *)

\* The server only reaches states of Inv.
THEOREM InvCorrect == Spec => []Inv
BY InitInv, NextInv, PTL DEF Spec

\* However many probes miss at once, sweeps are serialized and the cache costs
\* one sweep per expiry.
THEOREM BurstCorrect == Spec => []BurstCostsOneSweep
<1>1. Inv => BurstCostsOneSweep
  <2> SUFFICES ASSUME Inv PROVE BurstCostsOneSweep
    OBVIOUS
  <2>1. \A p, q \in Requests : pc[p] = "validate" /\ pc[q] = "validate" => p = q
    BY DEF Inv, MutexInv
  <2>2. Cache => Len(sweeps) <= expiries + 1
    BY DEF Inv, TypeOK, CacheInv
  <2>3. QED
    BY <2>1, <2>2 DEF BurstCostsOneSweep
<1>2. QED
    BY <1>1, InvCorrect, PTL

\* No probe renders a sweep older than one that had completed when it came,
\* and without the cache no two probes share one.
THEOREM ReadsCorrect == Spec => []MonotonicReads
<1>1. Inv => MonotonicReads
    BY DEF Inv
<1>2. QED
    BY <1>1, InvCorrect, PTL

\* 200 and 503 mean what the sweep found, whatever the format.
THEOREM StatusCorrect == Spec => []StatusHonest
<1>1. Inv => StatusHonest
  <2> SUFFICES ASSUME Inv, NEW q \in Requests
               PROVE  /\ status[q] = 200 => ~specError /\ ~sweeps[got[q]].hostDown
                      /\ status[q] = 503 => \/ specError
                                            \/ sweeps[got[q]].hostDown
                                            \/ sweeps[got[q]].ctxDone
    BY DEF StatusHonest
  <2>1. status[q] # 0 => got[q] \in 1..Len(sweeps)
    BY DEF Inv, TypeOK, ReadInv, NoSweep
  <2>2. /\ status[q] = 200 => ~sweeps[got[q]].failed
        /\ status[q] = 503 => sweeps[got[q]].failed
    BY DEF Inv, VerdictInv
  <2>3. ASSUME got[q] \in 1..Len(sweeps)
        PROVE  /\ ~sweeps[got[q]].failed => ~specError /\ ~sweeps[got[q]].hostDown
               /\ sweeps[got[q]].failed => \/ specError
                                           \/ sweeps[got[q]].hostDown
                                           \/ sweeps[got[q]].ctxDone
    BY <2>3, Zenon DEF Inv, VerdictInv
  <2>4. status[q] \in {200, 503} => status[q] # 0
    OBVIOUS
  <2>5. QED
    BY <2>1, <2>2, <2>3, <2>4, Zenon
<1>2. QED
    BY <1>1, InvCorrect, PTL

==============================================================================
