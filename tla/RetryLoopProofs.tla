--------------------------- MODULE RetryLoopProofs ---------------------------
(***************************************************************************)
(* Theorems about RetryLoop, for every set of --retry-timeout and --sleep  *)
(* values, of either sign, however long a sweep takes and however often it *)
(* is retried.                                                             *)
(***************************************************************************)
EXTENDS RetryLoop, TLAPS

-----------------------------------------------------------------------------
(* The inductive invariant *)

TypeOK ==
    /\ retryTimeout \in Int /\ sleep \in Int /\ format \in Formats
    /\ pc \in {"load", "config", "sweep", "decide", "sleep", "returned"}
    /\ hostDown \in BOOLEAN /\ ctxDone \in BOOLEAN
    /\ now \in Nat /\ began \in Nat /\ attempts \in Nat
    /\ sys \in {"fresh", "up", "down"}
    /\ exitCode \in {0, 1, 2}
    /\ lastDown \in BOOLEAN /\ lastCut \in BOOLEAN
    /\ code \in Int

\* Every sweep is given a System that has read nothing yet.
FreshSystem == pc \in {"load", "config", "sweep", "sleep"} => sys = "fresh"

\* The loop is entered once, and left with the code of its last sweep.
Rendered ==
    /\ pc \in {"load", "config"} => attempts = 0
    /\ pc \in {"decide", "sleep"} => attempts > 0
    /\ attempts > 0 => exitCode = output(lastDown \/ lastCut)

\* A sleep ends by the deadline, so the sweep after it starts in time.
RoomToRetry ==
    /\ pc = "sleep" => /\ exitCode # 0 /\ retryTimeout # 0
                       /\ now + sleep <= retryTimeout
    /\ attempts > 0 => now > 0
    /\ pc = "sweep" /\ attempts > 0 => retryTimeout # 0 /\ now <= Deadline

Inv ==
    /\ TypeOK
    /\ FreshSystem
    /\ Rendered
    /\ RoomToRetry
    /\ ExitCodeHonest
    /\ NoSweepPastDeadline

\* An outputer returns 0, 1 or 2; anything but prometheus returns 0 exactly
\* when nothing failed.
LEMMA OutputFact ==
    ASSUME NEW failed \in BOOLEAN
    PROVE  /\ output(failed) \in {0, 1, 2}
           /\ ~failed => output(failed) = 0
           /\ failed /\ format # "prometheus" => output(failed) # 0
BY DEF output

\* The flags and locals Validate starts with satisfy Inv.
LEMMA InitInv == Init => Inv
<1> SUFFICES ASSUME Init PROVE Inv
    OBVIOUS
<1>1. retryTimeout \in Int /\ sleep \in Int
    BY DurationsAssumption DEF Init
<1>2. code \in Int /\ exitCode \in {0, 1, 2} /\ now \in Nat /\ began \in Nat /\ attempts \in Nat
    BY DEF Init
<1>3. ctxDone \in BOOLEAN /\ lastDown \in BOOLEAN /\ lastCut \in BOOLEAN
    BY DEF Init
<1>4. TypeOK
    BY <1>1, <1>2, <1>3, Zenon DEF Init, TypeOK
<1>5. QED
    BY <1>4 DEF Init, Inv, FreshSystem, Rendered, RoomToRetry, ExitCodeHonest,
        NoSweepPastDeadline

\* One sweep and its rendering keep Inv: the System is fresh, so what is
\* rendered is what the host was during this very sweep.
LEMMA SweepInv == Inv /\ Sweep => Inv'
<1> SUFFICES ASSUME Inv, Sweep PROVE Inv'
    OBVIOUS
<1> USE DEF Inv, Sweep, flags
<1>1. sys = "fresh"
    BY DEF FreshSystem
<1>2. PICK cut \in BOOLEAN :
          /\ sys' = Sampled(hostDown)
          /\ exitCode' = output(Sampled(hostDown) = "down" \/ cut)
          /\ lastDown' = hostDown
          /\ lastCut' = cut
    BY <1>1
<1>3. (Sampled(hostDown) = "down") = hostDown
    BY DEF Sampled, TypeOK
<1>4. exitCode' = output(lastDown' \/ lastCut') /\ exitCode' \in {0, 1, 2}
    BY <1>2, <1>3, OutputFact DEF TypeOK
<1>5. output(lastDown' \/ lastCut') = output(lastDown \/ lastCut)'
    BY DEF output
<1>6. PICK d \in 1..MaxSweep : now' = now + d
    OBVIOUS
<1>7. d \in Nat /\ d > 0 /\ now \in Nat /\ now' \in Nat /\ now' > 0
    BY <1>6, DurationsAssumption DEF TypeOK
<1>8. TypeOK'
    BY <1>2, <1>4, <1>7 DEF TypeOK, Sampled
<1>9. FreshSystem'
    BY DEF FreshSystem
<1>10. Rendered'
    BY <1>4, <1>5 DEF Rendered, TypeOK
<1>11. RoomToRetry'
    BY <1>7 DEF RoomToRetry, Deadline
<1>12. ExitCodeHonest'
    BY DEF ExitCodeHonest
<1>13. NoSweepPastDeadline'
    BY DEF NoSweepPastDeadline, RoomToRetry, TypeOK, Deadline
<1>14. QED
    BY <1>8, <1>9, <1>10, <1>11, <1>12, <1>13

\* Every other step keeps Inv.
LEMMA NextInv == Inv /\ [Next]_vars => Inv'
<1> SUFFICES ASSUME Inv, [Next]_vars PROVE Inv'
    OBVIOUS
<1> DEFINE failed == lastDown \/ lastCut
<1>0. /\ failed \in BOOLEAN
      /\ attempts > 0 => exitCode = output(failed)
      /\ ~failed => output(failed) = 0
      /\ failed /\ format # "prometheus" => output(failed) # 0
    BY OutputFact DEF Inv, TypeOK, Rendered
<1> HIDE DEF failed
<1>a. ASSUME NEW c \in Int, Return(c), attempts = 0,
             UNCHANGED <<flags, hostDown, ctxDone, now, began, attempts, sys, exitCode, history>>
      PROVE  Inv'
    BY <1>a DEF Inv, TypeOK, FreshSystem, Rendered, RoomToRetry, ExitCodeHonest,
        NoSweepPastDeadline, Deadline, Return, flags, history, output
<1>1. CASE Load
  <2>1. CASE \E c \in {1, 78} : Return(c)
    BY <1>1, <2>1, <1>a DEF Load, Inv, Rendered
  <2>2. CASE pc' = "config" /\ UNCHANGED code
    BY <1>1, <2>2 DEF Load, Inv, TypeOK, FreshSystem, Rendered, RoomToRetry,
        ExitCodeHonest, NoSweepPastDeadline, Deadline, flags, history, output
  <2>3. QED
    BY <1>1, <2>1, <2>2 DEF Load
<1>2. CASE Configure
  <2>1. CASE \E c \in {0, 1} : Return(c)
    BY <1>2, <2>1, <1>a DEF Configure, Inv, Rendered
  <2>2. CASE pc' = "sweep" /\ UNCHANGED code
    BY <1>2, <2>2 DEF Configure, Inv, TypeOK, FreshSystem, Rendered, RoomToRetry,
        ExitCodeHonest, NoSweepPastDeadline, Deadline, flags, history, output
  <2>3. QED
    BY <1>2, <2>1, <2>2 DEF Configure
<1>3. CASE RejectSpec
    BY <1>3, <1>a DEF RejectSpec
<1>4. CASE Sweep
    BY <1>4, SweepInv
<1> USE DEF Inv, TypeOK, FreshSystem, Rendered, RoomToRetry, NoSweepPastDeadline,
            Deadline, flags, history
<1>5. CASE ReturnExitCode
  <2>1. ExitCodeHonest'
    BY <1>0, <1>5 DEF ReturnExitCode, Return, ExitCodeHonest, failed
  <2>2. QED
    BY <1>5, <2>1 DEF ReturnExitCode, Return, output
<1>6. CASE ReturnTimeout
  <2>1. ExitCodeHonest'
    BY <1>0, <1>6 DEF ReturnTimeout, OutOfTime, Return, ExitCodeHonest, failed
  <2>2. QED
    BY <1>6, <2>1 DEF ReturnTimeout, Return, output
<1>7. CASE Retry
    BY <1>7 DEF Retry, OutOfTime, ExitCodeHonest, output
<1>8. CASE Wake
    BY <1>8 DEF Wake, Slept, ExitCodeHonest, output
<1>9. CASE Interrupted
  <2>1. PICK d \in 0..Slept : now' = now + d
    BY <1>9 DEF Interrupted
  <2>2. d \in Nat /\ now' \in Nat /\ now' >= now
    BY <2>1 DEF Slept
  <2>3. ExitCodeHonest'
    BY <1>0, <1>9 DEF Interrupted, Return, ExitCodeHonest, failed
  <2>4. QED
    BY <1>9, <2>2, <2>3 DEF Interrupted, Return, output
<1>10. CASE HostChanges
    BY <1>10 DEF HostChanges, ExitCodeHonest, output
<1>11. CASE Signal
    BY <1>11 DEF Signal, ExitCodeHonest, output
<1>12. CASE UNCHANGED vars
    BY <1>12 DEF vars, ExitCodeHonest, output
<1>13. QED
    BY <1>1, <1>2, <1>3, <1>4, <1>5, <1>6, <1>7, <1>8, <1>9, <1>10, <1>11, <1>12
    DEF Next, Step, Returned

-----------------------------------------------------------------------------
(* What validate promises *)

\* The retry loop only reaches states of Inv.
THEOREM InvCorrect == Spec => []Inv
BY InitInv, NextInv, PTL DEF Spec

\* Whatever the flags and the host, the code validate returns is the verdict
\* of its last sweep, and 3 only when there was no room for another.
THEOREM ExitCodeCorrect == Spec => []ExitCodeHonest
<1>1. Inv => ExitCodeHonest
    BY DEF Inv
<1>2. QED
    BY <1>1, InvCorrect, PTL

\* No retry begins after the deadline, which is --retry-timeout or, with a
\* negative --sleep, that much later; a --retry-timeout of 0 means one sweep.
THEOREM DeadlineCorrect == Spec => []NoSweepPastDeadline
<1>1. Inv => NoSweepPastDeadline
    BY DEF Inv
<1>2. QED
    BY <1>1, InvCorrect, PTL

==============================================================================
