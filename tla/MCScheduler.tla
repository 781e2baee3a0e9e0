----------------------------- MODULE MCScheduler -----------------------------
(***************************************************************************)
(* Scheduler on every acyclic schedule of N resources in which a resource  *)
(* declares at most MaxDeps prerequisites, repeats included.               *)
(***************************************************************************)
EXTENDS Scheduler

CONSTANT MaxDeps        \* bound on the length of one depends-on list

MCDependsOn == UNION {[1..n -> Refs] : n \in 0..MaxDeps}

MCSchedules == {d \in [Refs -> MCDependsOn] : Acyclic(d)}

==============================================================================
