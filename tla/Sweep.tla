-------------------------------- MODULE Sweep --------------------------------
(***************************************************************************)
(* What a validation sweep with depends-on promises its consumer, with the *)
(* waves, workers and channels left out: the result stream is a            *)
(* topological order of the dependency lists, in which every resource      *)
(* appears once, is skipped exactly when a prerequisite did not pass, and  *)
(* after which the stream ends.  Scheduler implements it.                  *)
(***************************************************************************)
EXTENDS DependencyGraph

VARIABLES
    deps,       \* the dependency lists of the schedule
    verdict,    \* what the stream has said of each resource so far
    ended       \* the stream is closed

vars == <<deps, verdict, ended>>

Unreported == "unreported"
SUCCESS    == "SUCCESS"
FAIL       == "FAIL"
SKIP       == "SKIP"

Init ==
    /\ deps \in DependencyLists
    /\ verdict = [r \in Refs |-> Unreported]
    /\ ended = FALSE

Passing(r) == \A p \in Prerequisites(deps, r) : verdict[p] = SUCCESS

\* One group of results on the stream: the resource ran, or was skipped.
Report(r) ==
    /\ verdict[r] = Unreported
    /\ \A p \in Prerequisites(deps, r) : verdict[p] # Unreported
    /\ \E v \in IF Passing(r) THEN {SUCCESS, FAIL} ELSE {SKIP} :
           verdict' = [verdict EXCEPT ![r] = v]
    /\ UNCHANGED <<deps, ended>>

End ==
    /\ ~ended
    /\ \A r \in Refs : verdict[r] # Unreported
    /\ ended' = TRUE
    /\ UNCHANGED <<deps, verdict>>

Next == End \/ \E r \in Refs : Report(r)

\* What the stream may show, and that it goes on until it has ended.
SafeSpec == Init /\ [][Next]_vars

Spec == SafeSpec /\ WF_vars(Next)

==============================================================================
