---------------------------- MODULE BuildSchedule ----------------------------
(***************************************************************************)
(* buildSchedule (dependency_scheduler.go): index the resources of a sweep *)
(* by ref, resolve every depends-on entry to a ref, and reject a schedule  *)
(* with a dependency cycle by a depth-first search.                        *)
(*                                                                         *)
(* A string is modelled by its colon-separated segments, the only part of  *)
(* it the code looks at: <<"a">> is "a", and <<"port", "tcp", "22">> is    *)
(* "port:tcp:22".  The search is the code's recursive visit with its call  *)
(* stack made explicit; the roots come from a map, in any order.           *)
(***************************************************************************)
EXTENDS DependencyGraph, FiniteSets

CONSTANT Specs      \* the resource lists a configuration can produce

\* A resource as this function sees it.  Resources() reads a map per type, so
\* no two resources share both type and key; a type name holds no colon.  Even
\* the empty string has one segment.
ASSUME SpecsAssumption ==
    \A s \in Specs :
        /\ DOMAIN s = Refs
        /\ \A r \in Refs :
              /\ s[r].type \in STRING
              /\ s[r].key \in Seq(STRING) /\ Len(s[r].key) > 0
              /\ s[r].dependsOn \in Seq(Seq(STRING))
              /\ \A j \in DOMAIN s[r].dependsOn : Len(s[r].dependsOn[j]) > 0
        /\ \A q, r \in Refs : s[q].type = s[r].type /\ s[q].key = s[r].key => q = r

VARIABLES
    resources,      \* the resources of the sweep; never change
    phase,          \* "index", "resolve", "visit", "done"
    next,           \* the resource whose dependencies are resolved next
    schedule,       \* the canonical dependencies resolved so far
    roots,          \* the refs detectDependencyCycles has not started from
    state,          \* its marks: 0 unseen, 1 being visited, 2 done
    stack,          \* its call stack, with the dependency each call is at
    err, errRef     \* the error returned, and the ref a cycle error names

vars == <<resources, phase, next, schedule, roots, state, stack, err, errRef>>

NoError == "none"

Init ==
    /\ resources \in Specs
    /\ phase = "index"
    /\ next = 1
    /\ schedule = [r \in Refs |-> <<>>]
    /\ roots = {}
    /\ state = [r \in Refs |-> 0]
    /\ stack = <<>>
    /\ err = NoError
    /\ errRef = 0

-----------------------------------------------------------------------------
(* Resolution of a depends-on entry *)

Ref(r) == <<resources[r].type>> \o resources[r].key

refsByKey(key) == {r \in Refs : resources[r].key = key}

Found(r) == [err |-> NoError, ref |-> r]
Rejected(e) == [err |-> e, ref |-> 0]

resolveFirstMatch(dep) ==
    LET typed   == {r \in Refs : Ref(r) = dep}
        matches == refsByKey(dep) \cup typed
    IN  IF matches = {} THEN Rejected("not found")
        ELSE Found(CHOOSE r \in matches : \A q \in matches : r <= q)

\* An entry with a colon is read as type:key, whatever keys exist.
resolveDependencyRef(dep) ==
    LET typed   == {r \in Refs : Ref(r) = dep}
        matches == refsByKey(dep)
    IN  CASE Len(dep) > 1 /\ (Head(dep) = "" \/ Tail(dep) = <<"">>) -> Rejected("invalid")
          [] Len(dep) > 1 /\ ~(Head(dep) = "" \/ Tail(dep) = <<"">>) ->
                IF typed = {} THEN Rejected("not found")
                ELSE Found(CHOOSE r \in typed : TRUE)
          [] Len(dep) = 1 ->
                IF matches = {} THEN Rejected("not found")
                ELSE IF Cardinality(matches) = 1 THEN Found(CHOOSE r \in matches : TRUE)
                ELSE Rejected("ambiguous")

Return(e, ref) ==
    /\ phase' = "done"
    /\ err' = e
    /\ errRef' = ref

Index ==
    /\ phase = "index"
    /\ IF \E q, r \in Refs : q # r /\ Ref(q) = Ref(r)
       THEN Return("duplicate", 0)
       ELSE phase' = "resolve" /\ UNCHANGED <<err, errRef>>
    /\ UNCHANGED <<resources, next, schedule, roots, state, stack>>

\* The dependencies of one resource; the first that does not resolve ends it.
Resolve ==
    /\ phase = "resolve"
    /\ next <= N
    /\ LET entries == resources[next].dependsOn
           found   == [j \in DOMAIN entries |-> resolveDependencyRef(entries[j])]
           bad     == {j \in DOMAIN entries : found[j].err # NoError}
       IN  IF bad = {}
           THEN /\ schedule' = [schedule EXCEPT
                                   ![next] = [j \in DOMAIN entries |-> found[j].ref]]
                /\ UNCHANGED <<phase, err, errRef>>
           ELSE /\ \E j \in bad : (\A i \in bad : j <= i) /\ Return(found[j].err, 0)
                /\ UNCHANGED schedule
    /\ next' = next + 1
    /\ UNCHANGED <<resources, roots, state, stack>>

-----------------------------------------------------------------------------
(* detectDependencyCycles *)

StartVisits ==
    /\ phase = "resolve"
    /\ next > N
    /\ phase' = "visit"
    /\ roots' = Refs
    /\ UNCHANGED <<resources, next, schedule, state, stack, err, errRef>>

EnterUnlessSeen(r, frames) ==
    \/ /\ state[r] # 0
       /\ stack' = frames
       /\ UNCHANGED <<phase, state, err, errRef>>
    \/ /\ state[r] = 0
       /\ stack' = Append(frames, [ref |-> r, dep |-> 1])
       /\ state' = [state EXCEPT ![r] = 1]
       /\ UNCHANGED <<phase, err, errRef>>

\* visit(ref), called with the frames below it on the stack.
Enter(r, frames) ==
    \/ /\ state[r] = 1
       /\ Return("cycle", r)
       /\ stack' = frames
       /\ UNCHANGED state
    \/ /\ state[r] = 2
       /\ stack' = frames
       /\ UNCHANGED <<phase, state, err, errRef>>
    \/ /\ state[r] = 0
       /\ stack' = Append(frames, [ref |-> r, dep |-> 1])
       /\ state' = [state EXCEPT ![r] = 1]
       /\ UNCHANGED <<phase, err, errRef>>

VisitRoot(r) ==
    /\ phase = "visit"
    /\ stack = <<>>
    /\ r \in roots
    /\ roots' = roots \ {r}
    /\ Enter(r, <<>>)
    /\ UNCHANGED <<resources, next, schedule>>

Top == stack[Len(stack)]

VisitSameDependency ==
    /\ phase = "visit"
    /\ stack # <<>>
    /\ Top.dep \in DOMAIN schedule[Top.ref]
    /\ Enter(schedule[Top.ref][Top.dep], stack)
    /\ UNCHANGED <<resources, next, schedule, roots>>

VisitDependency ==
    /\ phase = "visit"
    /\ stack # <<>>
    /\ Top.dep \in DOMAIN schedule[Top.ref]
    /\ Enter(schedule[Top.ref][Top.dep], [stack EXCEPT ![Len(stack)].dep = @ + 1])
    /\ UNCHANGED <<resources, next, schedule, roots>>

Leave ==
    /\ phase = "visit"
    /\ stack # <<>>
    /\ Top.dep \notin DOMAIN schedule[Top.ref]
    /\ state' = [state EXCEPT ![Top.ref] = 2]
    /\ stack' = SubSeq(stack, 1, Len(stack) - 1)
    /\ UNCHANGED <<resources, phase, next, schedule, roots, err, errRef>>

NoCycle ==
    /\ phase = "visit"
    /\ stack = <<>>
    /\ roots = {}
    /\ Return(NoError, 0)
    /\ UNCHANGED <<resources, next, schedule, roots, state, stack>>

Returned == phase = "done" /\ UNCHANGED vars

Next ==
    \/ Index \/ Resolve \/ StartVisits
    \/ \E r \in Refs : VisitRoot(r)
    \/ VisitDependency \/ Leave \/ NoCycle
    \/ Returned

Spec == Init /\ [][Next]_vars

FairSpec == Spec /\ WF_vars(Next)

-----------------------------------------------------------------------------
(* Properties *)

Edge(q, r) == r \in Prerequisites(schedule, q)

\* r reaches itself along dependencies: the reference for a cycle error.
OnCycle(r) ==
    \E path \in UNION {[0..n -> Refs] : n \in 1..N} :
        LET n == CHOOSE m \in 1..N : DOMAIN path = 0..m
        IN  path[0] = r /\ path[n] = r /\ \A i \in 0..(n - 1) : Edge(path[i], path[i + 1])

\* What buildSchedule accepts is what Scheduler assumes of its schedules: every
\* dependency is a ref of the sweep and no resource waits on itself; and it
\* rejects a cycle only when there is one, naming a ref that lies on it.
CycleVerdict ==
    /\ phase = "done" /\ err = NoError => Acyclic(schedule)
    /\ phase = "done" /\ err = "cycle" => ~Acyclic(schedule) /\ OnCycle(errRef)

\* The recursion of visit is bounded by the number of resources: the frames on
\* its stack are distinct refs, exactly those marked 1, each a dependency of
\* the frame below; a ref marked 2 depends on refs marked 2 only.
SearchInv ==
    /\ Len(stack) <= N
    /\ \A i, j \in DOMAIN stack : stack[i].ref = stack[j].ref => i = j
    /\ {r \in Refs : state[r] = 1} = {stack[i].ref : i \in DOMAIN stack}
    /\ \A i \in DOMAIN stack : i > 1 => Edge(stack[i - 1].ref, stack[i].ref)
    /\ \A q, r \in Refs : state[q] = 2 /\ Edge(q, r) => state[r] = 2

\* An entry that is resolved is resolved to a resource it denotes by key or by
\* type:key, and one without a colon to the only one it denotes.  Which entries
\* are rejected is the next property's.
Denotes(entry, r) == resources[r].key = entry \/ Ref(r) = entry

ResolvesToDenoted ==
    \A q \in Refs : \A j \in DOMAIN schedule[q] :
        /\ Denotes(resources[q].dependsOn[j], schedule[q][j])
        /\ Len(resources[q].dependsOn[j]) = 1 =>
              \A r \in Refs : Denotes(resources[q].dependsOn[j], r) => r = schedule[q][j]

\* "References use the gossfile map key, or type:key when ambiguous across
\* resource types" (docs/gossfile.md): an entry that is the map key of exactly
\* one resource, and the type:key of none, is not rejected.
KeyReferencesResolve ==
    phase = "done" /\ err \in {"invalid", "not found"} =>
        \E q \in Refs : \E j \in DOMAIN resources[q].dependsOn :
            refsByKey(resources[q].dependsOn[j]) = {}

\* buildSchedule returns, whatever the dependency lists.
Returns == <>(phase = "done")

==============================================================================
