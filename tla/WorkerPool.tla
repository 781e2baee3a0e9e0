------------------------------ MODULE WorkerPool -----------------------------
(***************************************************************************)
(* How many workers a run starts (validate.go, workerCount): five per CPU, *)
(* capped at --max-concurrent, and never fewer than one.  A library caller *)
(* can set MaxConcurrent to any integer, past the flag's validator.        *)
(***************************************************************************)
EXTENDS Integers

CONSTANTS
    NumCPU,         \* runtime.NumCPU()
    MaxConcurrent   \* --max-concurrent, or util.Config.MaxConcurrent

ASSUME WorkerAssumption ==
    /\ NumCPU \in Nat \ {0}
    /\ MaxConcurrent \in Int

AtLeast(lo, n) == IF n < lo THEN lo ELSE n
AtMost(hi, n) == IF n > hi THEN hi ELSE n

workerCount == AtLeast(1, AtMost(NumCPU * 5, MaxConcurrent))

Workers == 1..workerCount

NoWorker == 0

==============================================================================
