--------------------------- MODULE DependencyGraph ---------------------------
(***************************************************************************)
(* The dependency lists a schedule carries (dependency_scheduler.go,       *)
(* scheduledResource).  buildSchedule rejects two resources with one ref,  *)
(* so a resource is named here by its position in the schedule: Refs is    *)
(* 1..N, and deps[r] is the sequence of canonical refs r declared under    *)
(* depends-on, in the order it declared them.                              *)
(***************************************************************************)
EXTENDS Integers, Sequences

CONSTANT N              \* the number of resources in the schedule

ASSUME NAssumption == N \in Nat \ {0}

Refs == 1..N

\* The dependency lists a schedule of N resources can carry.
DependencyLists == [Refs -> Seq(Refs)]

\* The refs that r declares as prerequisites.
Prerequisites(d, r) == {d[r][k] : k \in DOMAIN d[r]}

\* The reference definition of "no dependency cycle": the resources can be
\* ranked so that every prerequisite ranks strictly below its dependent.
RankedBy(d, rank) ==
    \A r \in Refs : \A k \in DOMAIN d[r] : rank[d[r][k]] < rank[r]

Acyclic(d) == \E rank \in [Refs -> 0..N] : RankedBy(d, rank)

==============================================================================
