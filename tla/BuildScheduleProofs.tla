------------------------ MODULE BuildScheduleProofs ------------------------
(***************************************************************************)
(* What BuildSchedule promises for every number of resources and every way *)
(* they depend on one another: its schedules are the acyclic ones that     *)
(* Scheduler assumes, a cycle error names a resource on a cycle, and every *)
(* entry is resolved to the resource it denotes.                           *)
(***************************************************************************)
EXTENDS BuildSchedule, FiniteSetTheorems, WellFoundedInduction, TLAPS

Frames == [ref : Refs, dep : Nat \ {0}]

TypeInv ==
    /\ resources \in Specs
    /\ phase \in {"index", "resolve", "visit", "done"}
    /\ next \in Nat \ {0}
    /\ schedule \in DependencyLists
    /\ roots \subseteq Refs
    /\ state \in [Refs -> 0..2]
    /\ stack \in Seq(Frames)

\* The search has not begun, or every ref that is no root any more is marked.
PhaseInv ==
    /\ phase \in {"index", "resolve"} => stack = <<>> /\ \A r \in Refs : state[r] = 0
    /\ phase = "visit" => \A r \in Refs \ roots : state[r] # 0
    /\ phase # "done" => err = NoError
    /\ phase = "done" /\ err = NoError => \A r \in Refs : state[r] = 2
    /\ phase = "done" /\ err = "cycle" =>
        /\ stack # <<>>
        /\ \E i \in 1..Len(stack) : stack[i].ref = errRef
        /\ Edge(stack[Len(stack)].ref, errRef)

\* The refs marked 1 are the frames, each a dependency of the one below.
StackInv ==
    /\ \A i, j \in 1..Len(stack) : stack[i].ref = stack[j].ref => i = j
    /\ \A i \in 1..Len(stack) : state[stack[i].ref] = 1
    /\ \A r \in Refs : state[r] = 1 => \E i \in 1..Len(stack) : stack[i].ref = r
    /\ \A i \in 1..(Len(stack) - 1) : Edge(stack[i].ref, stack[i + 1].ref)

\* The dependencies a frame is past are marked 2, but the one being visited.
FrameInv ==
    phase = "visit" =>
        \A i \in 1..Len(stack) : \A k \in DOMAIN schedule[stack[i].ref] :
            k < stack[i].dep =>
                \/ state[schedule[stack[i].ref][k]] = 2
                \/ i < Len(stack) /\ schedule[stack[i].ref][k] = stack[i + 1].ref

\* The refs marked 2 are ranked, in the order in which they were marked.
Done == {r \in Refs : state[r] = 2}

Ranks(rank) ==
    \A r \in Done :
        /\ rank[r] < Cardinality(Done)
        /\ \A k \in DOMAIN schedule[r] :
              schedule[r][k] \in Done /\ rank[schedule[r][k]] < rank[r]

RankInv == \E rank \in [Refs -> 0..N] : Ranks(rank)

Inv == TypeInv /\ PhaseInv /\ StackInv /\ FrameInv /\ RankInv /\ ResolvesToDenoted

-----------------------------------------------------------------------------
(* Facts about numbers, sets and stacks *)

\* A set of natural numbers that is not empty has a least one.
LEMMA LeastRank ==
    ASSUME NEW S, S \subseteq Nat, S # {}
    PROVE  \E m \in S : \A n \in S : m <= n
<1>1. PICK m \in S : \A n \in S : <<n, m>> \notin OpToRel(<, Nat)
    BY NatLessThanWellFounded, WFMin
<1>2. \A n \in S : ~(n < m)
    BY <1>1 DEF OpToRel
<1>3. QED
    BY <1>2

\* Every dependency of a resource is a resource.
LEMMA TargetFact ==
    ASSUME schedule \in DependencyLists, NEW q \in Refs
    PROVE  /\ DOMAIN schedule[q] = 1..Len(schedule[q]) /\ Len(schedule[q]) \in Nat
           /\ \A k \in DOMAIN schedule[q] : schedule[q][k] \in Refs /\ Edge(q, schedule[q][k])
BY DEF DependencyLists, Edge, Prerequisites

\* There are finitely many refs, and at most N of them are done.
LEMMA DoneFact ==
    /\ IsFiniteSet(Done) /\ Cardinality(Done) \in Nat /\ Cardinality(Done) <= N
    /\ Done # Refs => Cardinality(Done) < N
<1>1. IsFiniteSet(Refs) /\ Cardinality(Refs) = N
    BY FS_Interval, NAssumption DEF Refs
<1>2. Done \subseteq Refs
    BY DEF Done
<1>3. IsFiniteSet(Done) /\ Cardinality(Done) <= N /\ (Cardinality(Done) = N => Done = Refs)
    BY <1>1, <1>2, FS_Subset
<1>4. Cardinality(Done) \in Nat
    BY <1>3, FS_CardinalityType
<1>5. QED
    BY <1>3, <1>4, NAssumption

\* The stack with its top frame one dependency further.
Advanced == [stack EXCEPT ![Len(stack)].dep = @ + 1]

\* Advancing the top frame leaves every ref, and the frames below, as they were.
LEMMA AdvancedFact ==
    ASSUME stack \in Seq(Frames), stack # <<>>
    PROVE  /\ Len(stack) \in Nat \ {0}
           /\ Advanced \in Seq(Frames) /\ Len(Advanced) = Len(stack)
           /\ \A i \in 1..Len(stack) : Advanced[i].ref = stack[i].ref
           /\ \A i \in 1..(Len(stack) - 1) : Advanced[i] = stack[i]
           /\ Advanced[Len(stack)].dep = stack[Len(stack)].dep + 1
<1>1. Len(stack) \in Nat \ {0} /\ stack[Len(stack)] \in Frames
    OBVIOUS
<1>2. Advanced \in Seq(Frames) /\ Len(Advanced) = Len(stack)
    BY <1>1 DEF Advanced, Frames
<1>3. QED
    BY <1>1, <1>2 DEF Advanced, Frames

\* A call of visit pushes a frame.
LEMMA PushFact ==
    ASSUME NEW frames \in Seq(Frames), NEW r \in Refs, NEW s,
           s = Append(frames, [ref |-> r, dep |-> 1])
    PROVE  /\ s \in Seq(Frames) /\ Len(s) = Len(frames) + 1
           /\ \A i \in 1..Len(frames) : s[i] = frames[i]
           /\ s[Len(frames) + 1].ref = r /\ s[Len(frames) + 1].dep = 1
BY DEF Frames

\* A return pops one.
LEMMA PopFact ==
    ASSUME stack \in Seq(Frames), stack # <<>>, NEW s, s = SubSeq(stack, 1, Len(stack) - 1)
    PROVE  /\ s \in Seq(Frames) /\ Len(s) = Len(stack) - 1
           /\ \A i \in 1..(Len(stack) - 1) : s[i] = stack[i]
<1>1. Len(stack) \in Nat \ {0} /\ stack \in [1..Len(stack) -> Frames]
    OBVIOUS
<1>2. s = [i \in 1..(Len(stack) - 1) |-> stack[i]]
    BY <1>1
<1>3. QED
    BY <1>1, <1>2

\* The frames are distinct refs, so there are at most N of them.
LEMMA DepthFact == ASSUME TypeInv, StackInv PROVE Len(stack) <= N
<1> DEFINE f == [i \in 1..Len(stack) |-> stack[i].ref]
<1>1. Len(stack) \in Nat
    BY DEF TypeInv
<1>2. f \in [1..Len(stack) -> Refs]
  <2>1. \A i \in 1..Len(stack) : stack[i] \in Frames
    BY DEF TypeInv
  <2>2. QED
    BY <2>1 DEF Frames
<1>3. f \in Injection(1..Len(stack), Refs)
    BY <1>2 DEF StackInv, Injection, IsInjective
<1> HIDE DEF f
<1>4. IsFiniteSet(Refs) /\ Cardinality(Refs) = N
    BY FS_Interval, NAssumption DEF Refs
<1>5. Cardinality(1..Len(stack)) = Len(stack)
  <2> DEFINE n == Len(stack)
  <2>1. n \in Nat
    BY <1>1
  <2> HIDE DEF n
  <2>2. Cardinality(1..n) = n
    BY <2>1, FS_Interval
  <2>3. QED
    BY <2>2 DEF n
<1>6. QED
    BY <1>3, <1>4, <1>5, FS_Injection

-----------------------------------------------------------------------------
(* Resolution *)

\* An entry has a colon or it has none.
LEMMA LenFact ==
    ASSUME NEW S, NEW dep \in Seq(S), Len(dep) > 0
    PROVE  ~(Len(dep) > 1 /\ Len(dep) = 1) /\ (Len(dep) > 1 \/ Len(dep) = 1)
<1>1. Len(dep) \in Nat
    OBVIOUS
<1>2. ASSUME NEW n \in Nat, n > 0 PROVE ~(n > 1 /\ n = 1) /\ (n > 1 \/ n = 1)
    BY <1>2
<1>3. QED
    BY <1>1, <1>2

\* An entry that is resolved is the key or the type:key of its resource, and a
\* bare key is that of no other; an error of resolution is never "cycle".
LEMMA ResolveFact ==
    ASSUME resources \in Specs, NEW dep \in Seq(STRING), Len(dep) > 0,
           NEW found, found = resolveDependencyRef(dep)
    PROVE  /\ found.err = NoError =>
                /\ found.ref \in Refs /\ Denotes(dep, found.ref)
                /\ Len(dep) = 1 => \A r \in Refs : Denotes(dep, r) => r = found.ref
           /\ found.err # "cycle"
<1> DEFINE typed == {r \in Refs : Ref(r) = dep}
           matches == refsByKey(dep)
<1>1. \A r : Found(r).err = NoError /\ Found(r).ref = r
    BY DEF Found
<1>2. ASSUME NEW e \in {"invalid", "not found", "ambiguous"}
      PROVE  Rejected(e).err # NoError /\ Rejected(e).err # "cycle"
    BY <1>2 DEF Rejected, NoError
<1>0. ~(Len(dep) > 1 /\ Len(dep) = 1) /\ (Len(dep) > 1 \/ Len(dep) = 1)
    BY LenFact, Zenon
<1>3. CASE Len(dep) > 1
  <2>1. \/ found \in {Rejected("invalid"), Rejected("not found")}
        \/ typed # {} /\ found = Found(CHOOSE r \in typed : TRUE)
    <3>1. CASE Head(dep) = "" \/ Tail(dep) = <<"">>
      <4>1. found = Rejected("invalid")
        BY <1>0, <1>3, <3>1, Zenon DEF resolveDependencyRef
      <4>2. QED
        BY <4>1, Zenon
    <3>2. CASE ~(Head(dep) = "" \/ Tail(dep) = <<"">>)
      <4>1. found = IF typed = {} THEN Rejected("not found") ELSE Found(CHOOSE r \in typed : TRUE)
        BY <1>0, <1>3, <3>2, Zenon DEF resolveDependencyRef
      <4>2. QED
        BY <4>1, Zenon
    <3>3. QED
        BY <3>1, <3>2
  <2>2. CASE found \in {Rejected("invalid"), Rejected("not found")}
    BY <1>2, <2>2
  <2>3. CASE typed # {} /\ found = Found(CHOOSE r \in typed : TRUE)
    <3>1. (CHOOSE r \in typed : TRUE) \in typed
        BY <2>3
    <3>2. PICK r \in typed : found = Found(r)
        BY <2>3, <3>1
    <3>3. found.err = NoError /\ found.ref = r /\ r \in Refs /\ Denotes(dep, r)
        BY <1>1, <3>2 DEF Denotes
    <3>4. QED
        BY <1>0, <1>3, <3>3, Zenon DEF NoError
  <2>4. QED
    BY <2>1, <2>2, <2>3
<1>4. CASE Len(dep) = 1
  <2>1. \/ found \in {Rejected("ambiguous"), Rejected("not found")}
        \/ Cardinality(matches) = 1 /\ matches # {} /\ found = Found(CHOOSE r \in matches : TRUE)
    <3>1. found = IF matches = {} THEN Rejected("not found")
                  ELSE IF Cardinality(matches) = 1 THEN Found(CHOOSE r \in matches : TRUE)
                  ELSE Rejected("ambiguous")
        BY <1>0, <1>4, Zenon DEF resolveDependencyRef
    <3>2. QED
        BY <3>1, Zenon
  <2>2. CASE found \in {Rejected("ambiguous"), Rejected("not found")}
    BY <1>2, <2>2
  <2>3. CASE Cardinality(matches) = 1 /\ matches # {} /\ found = Found(CHOOSE r \in matches : TRUE)
    <3>1. IsFiniteSet(matches)
      <4>1. IsFiniteSet(Refs)
        BY FS_Interval, NAssumption DEF Refs
      <4>2. matches \subseteq Refs
        BY DEF refsByKey
      <4>3. QED
        BY <4>1, <4>2, FS_Subset
    <3>2. PICK x : matches = {x}
        BY <2>3, <3>1, FS_Singleton
    <3>3. found = Found(x) /\ x \in matches
        BY <2>3, <3>2
    <3>4. found.err = NoError /\ found.ref = x /\ x \in Refs /\ Denotes(dep, x)
        BY <1>1, <3>3 DEF Denotes, refsByKey
    <3>5. ASSUME NEW r \in Refs, Denotes(dep, r) PROVE r = x
      <4>1. Ref(r) # dep
        <5>1. resources[r].key \in Seq(STRING) /\ Len(resources[r].key) > 0
            BY SpecsAssumption
        <5>2. Len(Ref(r)) = 1 + Len(resources[r].key)
            BY <5>1 DEF Ref
        <5>3. QED
            BY <1>4, <5>1, <5>2
      <4>2. r \in matches
        BY <3>5, <4>1 DEF Denotes, refsByKey
      <4>3. QED
        BY <3>2, <4>2
    <3>6. QED
        BY <3>4, <3>5 DEF NoError
  <2>4. QED
    BY <2>1, <2>2, <2>3
<1>5. QED
    BY <1>0, <1>3, <1>4, Zenon

-----------------------------------------------------------------------------
(* What the search has found *)

\* A ranking of every ref is a proof that there is no cycle.
LEMMA AcyclicFact ==
    ASSUME RankInv, \A r \in Refs : state[r] = 2
    PROVE  Acyclic(schedule)
<1>1. Done = Refs
    BY DEF Done
<1>2. PICK rank \in [Refs -> 0..N] : Ranks(rank)
    BY DEF RankInv
<1>3. RankedBy(schedule, rank)
    BY <1>1, <1>2 DEF Ranks, RankedBy
<1>4. QED
    BY <1>2, <1>3 DEF Acyclic

\* A dependency on a frame of the stack closes a cycle: no ranking is left, and
\* the frames above that one are a path from the ref to itself.
LEMMA CycleFact ==
    ASSUME TypeInv, StackInv, stack # <<>>, NEW i \in 1..Len(stack),
           Edge(stack[Len(stack)].ref, stack[i].ref)
    PROVE  ~Acyclic(schedule) /\ OnCycle(stack[i].ref)
<1> DEFINE n == Len(stack) - i + 1
           node(k) == IF k < n THEN stack[i + k].ref ELSE stack[i].ref
<1>1. Len(stack) \in Nat /\ \A j \in 1..Len(stack) : stack[j].ref \in Refs
  <2>1. \A j \in 1..Len(stack) : stack[j] \in Frames
    BY DEF TypeInv
  <2>2. QED
    BY <2>1 DEF TypeInv, Frames
<1>2. n \in 1..N
    BY <1>1, DepthFact, NAssumption
<1>3. \A k \in 0..n : node(k) \in Refs
    BY <1>1
<1>4. ASSUME NEW k \in 0..(n - 1) PROVE Edge(node(k), node(k + 1))
  <2>1. CASE k < n - 1
    <3>1. i + k \in 1..(Len(stack) - 1) /\ i + (k + 1) = (i + k) + 1
        BY <1>1, <2>1
    <3>2. node(k) = stack[i + k].ref /\ node(k + 1) = stack[(i + k) + 1].ref
        BY <1>1, <2>1, <3>1
    <3>3. QED
        BY <3>1, <3>2 DEF StackInv
  <2>2. CASE k = n - 1
    <3>1. node(k) = stack[Len(stack)].ref /\ node(k + 1) = stack[i].ref
        BY <1>1, <2>2
    <3>2. QED
        BY <3>1
  <2>3. QED
    BY <1>1, <2>1, <2>2
<1>5. ~Acyclic(schedule)
  <2> SUFFICES ASSUME NEW rank \in [Refs -> 0..N], RankedBy(schedule, rank) PROVE FALSE
    BY DEF Acyclic
  <2> DEFINE S == {rank[node(k)] : k \in 0..(n - 1)}
  <2>1. S \subseteq Nat /\ S # {}
    <3>1. 0 \in 0..(n - 1)
        BY <1>2
    <3>2. \A k \in 0..(n - 1) : node(k) \in Refs
        BY <1>3
    <3>3. n - 1 \in Nat
        BY <1>2
    <3> HIDE DEF node, n
    <3>4. \A k \in 0..(n - 1) : rank[node(k)] \in Nat
        BY <3>2, NAssumption
    <3>5. rank[node(0)] \in S
        BY <3>1, Zenon
    <3>6. S \subseteq Nat
        BY <3>4, Zenon
    <3>7. QED
        BY <3>5, <3>6, Zenon
  <2> HIDE DEF S
  <2>2. PICK m \in S : \A x \in S : m <= x
    BY <2>1, LeastRank
  <2>3. PICK k \in 0..(n - 1) : m = rank[node(k)]
    BY <2>2 DEF S
  <2>4. rank[node(k + 1)] < rank[node(k)]
    <3>1. node(k) \in Refs
        BY <1>1
    <3>2. Edge(node(k), node(k + 1))
        BY <1>4
    <3> HIDE DEF node
    <3>3. QED
        BY <3>1, <3>2 DEF Edge, Prerequisites, RankedBy
  <2>5. rank[node(k + 1)] \in S
    <3>1. CASE k + 1 < n
      <4>1. k + 1 \in 0..(n - 1)
        BY <1>1, <3>1
      <4> HIDE DEF node, n
      <4>2. QED
        BY <4>1 DEF S
    <3>2. CASE k + 1 = n
      <4>1. 0 \in 0..(n - 1) /\ node(k + 1) = node(0)
        BY <1>1, <1>2, <3>2
      <4> HIDE DEF node, n
      <4>2. QED
        BY <4>1 DEF S
    <3>3. QED
        BY <1>1, <3>1, <3>2
  <2>6. rank[node(k + 1)] \in Nat /\ rank[node(k)] \in Nat
    BY <2>1, <2>2, <2>3, <2>5
  <2> HIDE DEF node
  <2>7. QED
    BY <2>2, <2>3, <2>4, <2>5, <2>6
<1>6. OnCycle(stack[i].ref)
  <2> DEFINE path == [k \in 0..n |-> node(k)]
  <2>1. path \in [0..n -> Refs]
    BY <1>3
  <2>2. path \in UNION {[0..m -> Refs] : m \in 1..N}
    BY <1>2, <2>1
  <2>3. path[0] = stack[i].ref /\ path[n] = stack[i].ref
    BY <1>1, <1>2
  <2>4. \A k \in 0..(n - 1) : Edge(path[k], path[k + 1])
    <3>1. ASSUME NEW k \in 0..(n - 1) PROVE path[k] = node(k) /\ path[k + 1] = node(k + 1)
      <4>1. k \in 0..n /\ k + 1 \in 0..n
        BY <1>2
      <4> HIDE DEF node, n
      <4>2. QED
        BY <4>1
    <3> HIDE DEF path, node
    <3>2. QED
        BY <1>4, <3>1
  <2>5. (CHOOSE m \in 1..N : DOMAIN path = 0..m) = n
    <3>1. DOMAIN path = 0..n
        OBVIOUS
    <3> HIDE DEF path, node, n
    <3>2. \A m \in 1..N : DOMAIN path = 0..m => m = n
        BY <1>2, <3>1
    <3>3. QED
        BY <1>2, <3>1, <3>2
  <2> HIDE DEF path, node, n
  <2>6. QED
    BY <2>2, <2>3, <2>4, <2>5 DEF OnCycle
<1>7. QED
    BY <1>5, <1>6

-----------------------------------------------------------------------------
(* The steps before the search *)

Unsearched == stack = <<>> /\ \A r \in Refs : state[r] = 0

\* Before the search there is nothing to say of it.
LEMMA UnsearchedFact == Unsearched => StackInv /\ FrameInv /\ RankInv
<1> SUFFICES ASSUME Unsearched PROVE StackInv /\ FrameInv /\ RankInv
    OBVIOUS
<1>1. StackInv
    BY DEF Unsearched, StackInv
<1>2. FrameInv
    BY DEF Unsearched, FrameInv
<1>3. [r \in Refs |-> 0] \in [Refs -> 0..N]
    BY NAssumption
<1>4. Done = {}
    BY DEF Unsearched, Done
<1>5. Ranks([r \in Refs |-> 0])
    BY <1>4, Zenon DEF Ranks
<1>6. RankInv
    BY <1>3, <1>5, Zenon DEF RankInv
<1>7. QED
    BY <1>1, <1>2, <1>6

\* buildSchedule starts within the invariant.
LEMMA InitInv == Init => Inv
<1> SUFFICES ASSUME Init PROVE Inv
    OBVIOUS
<1>1. Unsearched
    BY DEF Init, Unsearched
<1>2. TypeInv
    BY DEF Init, TypeInv, DependencyLists
<1>3. PhaseInv
    BY DEF Init, PhaseInv
<1>4. ResolvesToDenoted
    BY DEF Init, ResolvesToDenoted
<1>5. QED
    BY <1>1, <1>2, <1>3, <1>4, UnsearchedFact DEF Inv

\* Indexing leaves the search alone.
LEMMA IndexStep == ASSUME Inv, Index PROVE Inv'
<1>1. /\ phase = "index" /\ UNCHANGED <<resources, next, schedule, roots, state, stack>>
      /\ \/ phase' = "done" /\ err' = "duplicate"
         \/ phase' = "resolve" /\ UNCHANGED <<err, errRef>>
    BY Zenon DEF Index, Return
<1>2. Unsearched'
    BY <1>1 DEF Inv, PhaseInv, Unsearched
<1>3. TypeInv'
    BY <1>1 DEF Inv, TypeInv
<1>4. PhaseInv'
    BY <1>1 DEF Inv, PhaseInv, NoError
<1>5. ResolvesToDenoted'
    BY <1>1 DEF Inv, ResolvesToDenoted, Denotes, Ref
<1>6. (StackInv /\ FrameInv /\ RankInv)'
    BY <1>2, UnsearchedFact, PTL
<1>7. QED
    BY <1>3, <1>4, <1>5, <1>6 DEF Inv

\* The search starts with nothing marked.
LEMMA StartVisitsStep == ASSUME Inv, StartVisits PROVE Inv'
<1>1. /\ phase = "resolve" /\ phase' = "visit" /\ roots' = Refs
      /\ UNCHANGED <<resources, next, schedule, state, stack, err, errRef>>
    BY DEF StartVisits
<1>2. Unsearched'
    BY <1>1 DEF Inv, PhaseInv, Unsearched
<1>3. TypeInv'
    BY <1>1 DEF Inv, TypeInv
<1>4. PhaseInv'
    BY <1>1 DEF Inv, PhaseInv
<1>5. ResolvesToDenoted'
    BY <1>1 DEF Inv, ResolvesToDenoted, Denotes, Ref
<1>6. (StackInv /\ FrameInv /\ RankInv)'
    BY <1>2, UnsearchedFact, PTL
<1>7. QED
    BY <1>3, <1>4, <1>5, <1>6 DEF Inv

\* The entries of one resource are all resolved, or the first bad one ends it.
LEMMA ResolveStep == ASSUME Inv, Resolve PROVE Inv'
<1> DEFINE entries == resources[next].dependsOn
           found == [j \in DOMAIN entries |-> resolveDependencyRef(entries[j])]
           bad == {j \in DOMAIN entries : found[j].err # NoError}
           targets == [j \in DOMAIN entries |-> found[j].ref]
<1>1. /\ phase = "resolve" /\ next \in Refs
      /\ UNCHANGED <<resources, roots, state, stack>> /\ next' = next + 1
      /\ \/ /\ bad = {} /\ schedule' = [schedule EXCEPT ![next] = targets]
            /\ UNCHANGED <<phase, err, errRef>>
         \/ /\ \E j \in bad : phase' = "done" /\ err' = found[j].err
            /\ schedule' = schedule
  <2>1. phase = "resolve" /\ next <= N /\ next \in Nat \ {0}
    BY DEF Resolve, Inv, TypeInv
  <2>2. next \in Refs
    BY <2>1, NAssumption DEF Refs
  <2>3. \/ /\ bad = {} /\ schedule' = [schedule EXCEPT ![next] = targets]
           /\ UNCHANGED <<phase, err, errRef>>
        \/ /\ \E j \in bad : phase' = "done" /\ err' = found[j].err
           /\ schedule' = schedule
    BY Zenon DEF Resolve, Return
  <2> HIDE DEF bad, targets, found
  <2>4. QED
    BY <2>1, <2>2, <2>3 DEF Resolve
<1>2. /\ entries \in Seq(Seq(STRING))
      /\ \A j \in DOMAIN entries : entries[j] \in Seq(STRING) /\ Len(entries[j]) > 0
    BY <1>1, SpecsAssumption DEF Inv, TypeInv
<1>3. ASSUME NEW j \in DOMAIN entries
      PROVE  /\ found[j].err = NoError =>
                    /\ found[j].ref \in Refs /\ Denotes(entries[j], found[j].ref)
                    /\ Len(entries[j]) = 1 =>
                          \A r \in Refs : Denotes(entries[j], r) => r = found[j].ref
             /\ found[j].err # "cycle"
  <2>1. found[j] = resolveDependencyRef(entries[j])
    OBVIOUS
  <2> HIDE DEF found
  <2>2. QED
    BY <1>2, <2>1, ResolveFact, Zenon DEF Inv, TypeInv
<1>4. Unsearched'
    BY <1>1 DEF Inv, PhaseInv, Unsearched
<1>5. (StackInv /\ FrameInv /\ RankInv)'
    BY <1>4, UnsearchedFact, PTL
<1> HIDE DEF found
<1>6. CASE bad = {} /\ schedule' = [schedule EXCEPT ![next] = targets] /\ UNCHANGED <<phase, err, errRef>>
  <2>1. \A j \in DOMAIN entries : found[j].err = NoError
    BY <1>6
  <2>2. targets \in Seq(Refs)
    <3>1. \A j \in DOMAIN entries : found[j].ref \in Refs
        BY <1>3, <2>1
    <3>2. DOMAIN entries = 1..Len(entries) /\ Len(entries) \in Nat
        BY <1>2
    <3> HIDE DEF entries
    <3>3. QED
        BY <3>1, <3>2
  <2>3. schedule' \in DependencyLists
    <3> HIDE DEF targets
    <3>1. QED
        BY <1>1, <1>6, <2>2 DEF DependencyLists, Inv, TypeInv
  <2>4. ResolvesToDenoted'
    <3> HIDE DEF entries, targets
    <3> SUFFICES ASSUME NEW q \in Refs, NEW j \in DOMAIN schedule'[q]
                 PROVE  /\ Denotes(resources[q].dependsOn[j], schedule'[q][j])
                        /\ Len(resources[q].dependsOn[j]) = 1 =>
                             \A r \in Refs : Denotes(resources[q].dependsOn[j], r) => r = schedule'[q][j]
        BY <1>1 DEF ResolvesToDenoted, Denotes, Ref
    <3>1. CASE q # next
      <4>1. schedule'[q] = schedule[q]
        BY <1>6, <3>1 DEF Inv, TypeInv, DependencyLists
      <4>2. QED
        BY <4>1 DEF Inv, ResolvesToDenoted
    <3>2. CASE q = next
      <4>1. schedule'[q] = targets
        BY <1>1, <1>6, <3>2 DEF Inv, TypeInv, DependencyLists
      <4>2. j \in DOMAIN entries /\ schedule'[q][j] = found[j].ref
        BY <4>1 DEF targets
      <4>3. resources[q].dependsOn[j] = entries[j]
        BY <3>2 DEF entries
      <4>4. QED
        BY <1>3, <2>1, <4>2, <4>3
    <3>3. QED
        BY <3>1, <3>2
  <2>5. TypeInv'
    BY <1>1, <1>6, <2>3 DEF Inv, TypeInv
  <2>6. PhaseInv'
    BY <1>1, <1>6 DEF Inv, PhaseInv
  <2>7. QED
    BY <1>5, <2>4, <2>5, <2>6 DEF Inv
<1>7. CASE (\E j \in bad : phase' = "done" /\ err' = found[j].err) /\ schedule' = schedule
  <2>1. phase' = "done" /\ err' # NoError /\ err' # "cycle"
    BY <1>3, <1>7
  <2>2. TypeInv'
    BY <1>1, <1>7, <2>1 DEF Inv, TypeInv
  <2>3. PhaseInv'
    BY <2>1 DEF PhaseInv
  <2>4. ResolvesToDenoted'
    BY <1>1, <1>7 DEF Inv, ResolvesToDenoted, Denotes, Ref
  <2>5. QED
    BY <1>5, <2>2, <2>3, <2>4 DEF Inv
<1>8. QED
    BY <1>1, <1>6, <1>7

-----------------------------------------------------------------------------
(* The steps of the search *)

\* The ranking stands while the same refs are marked 2.
LEMMA RankFrame == ASSUME RankInv, Done' = Done, schedule' = schedule PROVE RankInv'
BY DEF RankInv, Ranks

\* visit(ref) from the frames the caller leaves: those of the stack, the top
\* one past the dependency on ref.
LEMMA EnterStep ==
    ASSUME Inv, phase = "visit", NEW r \in Refs, NEW frames \in Seq(Frames), Enter(r, frames),
           UNCHANGED <<resources, next, schedule>>, roots' \subseteq Refs,
           \A q \in Refs \ roots' : state[q] # 0 \/ q = r,
           Len(frames) = Len(stack),
           \A i \in 1..Len(stack) : frames[i].ref = stack[i].ref,
           \A i \in 1..(Len(stack) - 1) : frames[i] = stack[i],
           Len(stack) > 0 =>
               /\ Edge(stack[Len(stack)].ref, r)
               /\ \A k \in DOMAIN schedule[stack[Len(stack)].ref] :
                     k < frames[Len(stack)].dep =>
                         \/ state[schedule[stack[Len(stack)].ref][k]] = 2
                         \/ schedule[stack[Len(stack)].ref][k] = r
    PROVE  Inv'
<1> USE DEF Inv
<1>1. Len(stack) \in Nat /\ state \in [Refs -> 0..2] /\ err = NoError
    BY DEF TypeInv, PhaseInv
<1>2. \A i \in 1..Len(stack) : stack[i] \in Frames /\ stack[i].ref \in Refs
  <2>1. \A i \in 1..Len(stack) : stack[i] \in Frames
    BY DEF TypeInv
  <2>2. QED
    BY <2>1 DEF Frames
<1>3. ResolvesToDenoted'
    BY DEF ResolvesToDenoted, Denotes, Ref
<1>4. schedule' = schedule
    OBVIOUS
<1>5. ASSUME stack' = frames, state' = state PROVE StackInv'
    BY <1>1, <1>2, <1>4, <1>5 DEF StackInv, Edge
<1>6. CASE state[r] = 1
  <2>1. /\ phase' = "done" /\ err' = "cycle" /\ errRef' = r
        /\ stack' = frames /\ state' = state
    BY <1>6 DEF Enter, Return
  <2>2. PICK i \in 1..Len(stack) : stack[i].ref = r
    BY <1>6 DEF StackInv
  <2>3. TypeInv'
    BY <2>1 DEF TypeInv
  <2>4. PhaseInv'
    <3>1. stack' # <<>> /\ Len(stack') = Len(stack) /\ stack'[i].ref = errRef'
        BY <1>1, <2>1, <2>2
    <3>2. stack'[Len(stack')].ref = stack[Len(stack)].ref /\ Len(stack) > 0
        BY <1>1, <2>1, <2>2
    <3>3. Edge(stack[Len(stack)].ref, errRef)'
        BY <1>4, <2>1, <3>1, <3>2 DEF Edge
    <3>4. QED
        BY <2>1, <3>1, <3>3 DEF PhaseInv, NoError
  <2>5. StackInv'
    BY <1>5, <2>1
  <2>6. FrameInv'
    BY <2>1 DEF FrameInv
  <2>7. RankInv'
    BY <2>1, RankFrame DEF Done
  <2>8. QED
    BY <1>3, <2>3, <2>4, <2>5, <2>6, <2>7
<1>7. CASE state[r] = 2
  <2>1. stack' = frames /\ UNCHANGED <<phase, state, err, errRef>>
    BY <1>7 DEF Enter
  <2>2. TypeInv'
    BY <2>1 DEF TypeInv
  <2>3. PhaseInv'
    BY <1>7, <2>1 DEF PhaseInv
  <2>4. StackInv'
    BY <1>5, <2>1
  <2>5. FrameInv'
    <3> SUFFICES ASSUME NEW i \in 1..Len(stack'), NEW k \in DOMAIN schedule'[stack'[i].ref],
                        k < stack'[i].dep
                 PROVE  \/ state'[schedule'[stack'[i].ref][k]] = 2
                        \/ i < Len(stack') /\ schedule'[stack'[i].ref][k] = stack'[i + 1].ref
        BY DEF FrameInv
    <3>1. Len(stack') = Len(stack) /\ stack'[i].ref = stack[i].ref /\ i \in 1..Len(stack)
        BY <2>1
    <3>2. schedule'[stack'[i].ref] = schedule[stack[i].ref]
        BY <3>1
    <3>3. CASE i < Len(stack)
      <4>1. stack'[i] = stack[i] /\ stack'[i + 1].ref = stack[i + 1].ref
        BY <1>1, <2>1, <3>1, <3>3
      <4>2. QED
        BY <2>1, <3>1, <3>2, <3>3, <4>1 DEF FrameInv
    <3>4. CASE i = Len(stack)
        BY <1>1, <1>7, <2>1, <3>1, <3>2, <3>4
    <3>5. QED
        BY <1>1, <3>1, <3>3, <3>4
  <2>6. RankInv'
    BY <2>1, RankFrame DEF Done
  <2>7. QED
    BY <1>3, <2>2, <2>3, <2>4, <2>5, <2>6
<1>8. CASE state[r] = 0
  <2>1. /\ stack' = Append(frames, [ref |-> r, dep |-> 1])
        /\ state' = [state EXCEPT ![r] = 1] /\ UNCHANGED <<phase, err, errRef>>
    BY <1>8 DEF Enter
  <2>2. /\ stack' \in Seq(Frames) /\ Len(stack') = Len(stack) + 1
        /\ \A i \in 1..Len(stack) : stack'[i] = frames[i] /\ stack'[i].ref = stack[i].ref
        /\ stack'[Len(stack) + 1].ref = r /\ stack'[Len(stack) + 1].dep = 1
    <3>1. /\ stack' \in Seq(Frames) /\ Len(stack') = Len(frames) + 1
          /\ \A i \in 1..Len(frames) : stack'[i] = frames[i]
          /\ stack'[Len(frames) + 1].ref = r /\ stack'[Len(frames) + 1].dep = 1
        BY <2>1, PushFact
    <3>2. QED
        BY <3>1
  <2>3. state' \in [Refs -> 0..2] /\ state'[r] = 1 /\ \A q \in Refs : q # r => state'[q] = state[q]
    BY <1>1, <2>1
  <2>4. TypeInv'
    BY <2>1, <2>2, <2>3 DEF TypeInv
  <2>5. PhaseInv'
    BY <2>1, <2>3 DEF PhaseInv
  <2>6. \A i \in 1..Len(stack) : stack[i].ref # r
    BY <1>8 DEF StackInv
  <2>7. StackInv'
    <3>1. ASSUME NEW i \in 1..Len(stack'), NEW j \in 1..Len(stack'), stack'[i].ref = stack'[j].ref
          PROVE  i = j
      <4>1. i \in 1..Len(stack) \/ i = Len(stack) + 1
        BY <1>1, <2>2
      <4>2. j \in 1..Len(stack) \/ j = Len(stack) + 1
        BY <1>1, <2>2
      <4>3. QED
        BY <2>2, <2>6, <3>1, <4>1, <4>2 DEF StackInv
    <3>2. ASSUME NEW i \in 1..Len(stack') PROVE state'[stack'[i].ref] = 1
      <4>1. i \in 1..Len(stack) \/ i = Len(stack) + 1
        BY <1>1, <2>2
      <4>2. QED
        BY <1>2, <2>2, <2>3, <2>6, <4>1 DEF StackInv
    <3>3. ASSUME NEW q \in Refs, state'[q] = 1 PROVE \E i \in 1..Len(stack') : stack'[i].ref = q
      <4>1. CASE q = r
        BY <1>1, <2>2, <4>1
      <4>2. CASE q # r
        <5>1. PICK i \in 1..Len(stack) : stack[i].ref = q
            BY <2>3, <3>3, <4>2 DEF StackInv
        <5>2. i \in 1..Len(stack') /\ stack'[i].ref = q
            BY <1>1, <2>2, <5>1
        <5>3. QED
            BY <5>2
      <4>3. QED
        BY <4>1, <4>2
    <3>4. ASSUME NEW i \in 1..(Len(stack') - 1) PROVE Edge(stack[i].ref, stack[i + 1].ref)'
      <4>1. i \in 1..Len(stack) /\ Len(stack) > 0
        BY <1>1, <2>2
      <4>2. CASE i = Len(stack)
        BY <1>4, <2>2, <4>1, <4>2 DEF Edge
      <4>3. CASE i < Len(stack)
        <5>1. i \in 1..(Len(stack) - 1) /\ i + 1 \in 1..Len(stack)
            BY <1>1, <4>1, <4>3
        <5>2. Edge(stack[i].ref, stack[i + 1].ref)
            BY <5>1 DEF StackInv
        <5>3. QED
            BY <1>4, <2>2, <4>1, <5>1, <5>2 DEF Edge
      <4>4. QED
        BY <1>1, <4>1, <4>2, <4>3
    <3>5. QED
        BY <3>1, <3>2, <3>3, <3>4 DEF StackInv
  <2>8. FrameInv'
    <3> SUFFICES ASSUME NEW i \in 1..Len(stack'), NEW k \in DOMAIN schedule'[stack'[i].ref],
                        k < stack'[i].dep
                 PROVE  \/ state'[schedule'[stack'[i].ref][k]] = 2
                        \/ i < Len(stack') /\ schedule'[stack'[i].ref][k] = stack'[i + 1].ref
        BY DEF FrameInv
    <3>1. CASE i = Len(stack) + 1
      <4>1. stack'[i].ref = r /\ stack'[i].dep = 1
        BY <2>2, <3>1
      <4>2. schedule'[stack'[i].ref] = schedule[r]
        BY <4>1
      <4>3. k \in 1..Len(schedule[r])
        BY <4>2, TargetFact DEF TypeInv
      <4>4. QED
        BY <4>1, <4>3
    <3>2. CASE i \in 1..Len(stack)
      <4>1. stack'[i].ref = stack[i].ref /\ stack'[i] = frames[i] /\ stack[i].ref \in Refs
        BY <1>2, <2>2, <3>2
      <4>2. schedule'[stack'[i].ref] = schedule[stack[i].ref]
        BY <4>1
      <4>3. schedule[stack[i].ref][k] \in Refs
        BY <4>1, <4>2, TargetFact DEF TypeInv
      <4>4. CASE i = Len(stack)
        <5>1. \/ state[schedule[stack[i].ref][k]] = 2
              \/ schedule[stack[i].ref][k] = r
            BY <1>1, <4>1, <4>2, <4>4
        <5>2. QED
            BY <1>1, <1>8, <2>2, <2>3, <4>2, <4>3, <4>4, <5>1
      <4>5. CASE i < Len(stack)
        <5>1. i \in 1..(Len(stack) - 1) /\ i + 1 \in 1..Len(stack) /\ frames[i] = stack[i]
            BY <1>1, <3>2, <4>5
        <5>2. \/ state[schedule[stack[i].ref][k]] = 2
              \/ schedule[stack[i].ref][k] = stack[i + 1].ref
            BY <3>2, <4>1, <4>2, <5>1 DEF FrameInv
        <5>3. QED
            BY <1>1, <1>8, <2>2, <2>3, <4>2, <4>3, <4>5, <5>1, <5>2
      <4>6. QED
        BY <1>1, <3>2, <4>4, <4>5
    <3>3. QED
        BY <1>1, <2>2, <3>1, <3>2
  <2>9. RankInv'
    <3>1. Done' = Done
        BY <1>8, <2>3 DEF Done
    <3>2. QED
        BY <3>1, RankFrame
  <2>10. QED
    BY <1>3, <2>4, <2>5, <2>7, <2>8, <2>9
<1>9. QED
    BY <1>1, <1>6, <1>7, <1>8

\* A visit from a root.
LEMMA VisitRootStep == ASSUME Inv, NEW r \in Refs, VisitRoot(r) PROVE Inv'
<1>1. /\ phase = "visit" /\ stack = <<>> /\ Enter(r, <<>>)
      /\ UNCHANGED <<resources, next, schedule>> /\ roots' = roots \ {r}
    BY DEF VisitRoot
<1>2. roots' \subseteq Refs /\ \A q \in Refs \ roots' : state[q] # 0 \/ q = r
    BY <1>1 DEF Inv, TypeInv, PhaseInv
<1>3. Enter(r, stack) /\ stack \in Seq(Frames) /\ ~(Len(stack) > 0)
    BY <1>1 DEF Inv, TypeInv
<1>4. QED
    BY <1>1, <1>2, <1>3, EnterStep

\* A visit of the next dependency of the top frame.
LEMMA VisitDependencyStep == ASSUME Inv, VisitDependency PROVE Inv'
<1> DEFINE q == stack[Len(stack)].ref
           d == stack[Len(stack)].dep
           r == schedule[q][d]
<1>1. /\ phase = "visit" /\ stack # <<>> /\ d \in DOMAIN schedule[q] /\ Enter(r, Advanced)
      /\ UNCHANGED <<resources, next, schedule, roots>>
    BY DEF VisitDependency, Top, Advanced
<1>2. stack \in Seq(Frames) /\ schedule \in DependencyLists
    BY DEF Inv, TypeInv
<1>3. /\ Len(stack) \in Nat \ {0}
      /\ Advanced \in Seq(Frames) /\ Len(Advanced) = Len(stack)
      /\ \A i \in 1..Len(stack) : Advanced[i].ref = stack[i].ref
      /\ \A i \in 1..(Len(stack) - 1) : Advanced[i] = stack[i]
      /\ Advanced[Len(stack)].dep = d + 1
    BY <1>1, <1>2, AdvancedFact
<1>4. q \in Refs /\ d \in Nat
  <2>1. stack[Len(stack)] \in Frames
    BY <1>2, <1>3
  <2>2. QED
    BY <2>1 DEF Frames
<1>5. r \in Refs /\ Edge(q, r) /\ DOMAIN schedule[q] \subseteq Nat
    BY <1>1, <1>2, <1>4, TargetFact
<1>6. ASSUME NEW k \in DOMAIN schedule[q], k < Advanced[Len(stack)].dep
      PROVE  state[schedule[q][k]] = 2 \/ schedule[q][k] = r
  <2>1. CASE k = d
    BY <2>1
  <2>2. CASE k < d
    BY <1>1, <1>3, <2>2 DEF Inv, FrameInv
  <2>3. QED
    BY <1>3, <1>4, <1>5, <1>6, <2>1, <2>2
<1>7. roots' \subseteq Refs /\ \A p \in Refs \ roots' : state[p] # 0 \/ p = r
    BY <1>1 DEF Inv, TypeInv, PhaseInv
<1>8. QED
  <2> HIDE DEF r
  <2>1. QED
    BY <1>1, <1>3, <1>5, <1>6, <1>7, EnterStep

\* A ref is marked 2 when all it depends on is: its rank is the number of refs
\* marked before it.
LEMMA LeaveStep == ASSUME Inv, Leave PROVE Inv'
<1> DEFINE n == Len(stack)
           q == stack[n].ref
<1>1. /\ phase = "visit" /\ stack # <<>> /\ stack[n].dep \notin DOMAIN schedule[q]
      /\ state' = [state EXCEPT ![q] = 2] /\ stack' = SubSeq(stack, 1, n - 1)
      /\ UNCHANGED <<resources, phase, next, schedule, roots, err, errRef>>
    BY DEF Leave, Top
<1>2. /\ n \in Nat \ {0} /\ q \in Refs /\ stack[n].dep \in Nat \ {0}
      /\ \A i \in 1..n : stack[i].ref \in Refs
  <2>1. n \in Nat \ {0} /\ \A i \in 1..n : stack[i] \in Frames
    BY <1>1 DEF Inv, TypeInv
  <2>2. QED
    BY <2>1 DEF Frames
<1>3. /\ stack' \in Seq(Frames) /\ Len(stack') = n - 1
      /\ \A i \in 1..(n - 1) : stack'[i] = stack[i]
    BY <1>1, PopFact DEF Inv, TypeInv
<1>4. /\ state \in [Refs -> 0..2] /\ state' \in [Refs -> 0..2] /\ state'[q] = 2 /\ state[q] = 1
      /\ \A p \in Refs : p # q => state'[p] = state[p]
    BY <1>1, <1>2 DEF Inv, TypeInv, StackInv
<1>5. ASSUME NEW k \in DOMAIN schedule[q] PROVE state[schedule[q][k]] = 2
  <2>1. k < stack[n].dep
    BY <1>1, <1>2, TargetFact DEF Inv, TypeInv
  <2>2. QED
    BY <1>1, <1>2, <2>1 DEF Inv, FrameInv
<1> HIDE DEF q, n
<1>6. TypeInv'
    BY <1>1, <1>3, <1>4 DEF Inv, TypeInv
<1>7. PhaseInv'
    BY <1>1, <1>2, <1>4 DEF Inv, PhaseInv
<1>8. ResolvesToDenoted'
    BY <1>1 DEF Inv, ResolvesToDenoted, Denotes, Ref
<1>9. \A i \in 1..(n - 1) : stack[i].ref # q
    BY <1>2 DEF Inv, StackInv, q, n
<1>10. StackInv'
  <2>1. \A i, j \in 1..Len(stack') : stack'[i].ref = stack'[j].ref => i = j
    BY <1>2, <1>3 DEF Inv, StackInv, n
  <2>2. \A i \in 1..Len(stack') : state'[stack'[i].ref] = 1
    BY <1>2, <1>3, <1>4, <1>9 DEF Inv, StackInv, n
  <2>3. ASSUME NEW r \in Refs, state'[r] = 1 PROVE \E i \in 1..Len(stack') : stack'[i].ref = r
    <3>1. r # q /\ state[r] = 1
        BY <1>4, <2>3
    <3>2. PICK i \in 1..n : stack[i].ref = r
        BY <3>1 DEF Inv, StackInv, n
    <3>3. i \in 1..(n - 1)
        BY <1>2, <3>1, <3>2 DEF q
    <3>4. QED
        BY <1>3, <3>2, <3>3
  <2>4. ASSUME NEW i \in 1..(Len(stack') - 1) PROVE Edge(stack[i].ref, stack[i + 1].ref)'
    <3>1. i \in 1..(n - 1) /\ i + 1 \in 1..(n - 1)
        BY <1>2, <1>3
    <3>2. Edge(stack[i].ref, stack[i + 1].ref)
        BY <3>1 DEF Inv, StackInv, n
    <3>3. QED
        BY <1>1, <1>3, <3>1, <3>2 DEF Edge
  <2>5. QED
    BY <2>1, <2>2, <2>3, <2>4 DEF StackInv
<1>11. FrameInv'
  <2> SUFFICES ASSUME NEW i \in 1..Len(stack'), NEW k \in DOMAIN schedule'[stack'[i].ref],
                      k < stack'[i].dep
               PROVE  \/ state'[schedule'[stack'[i].ref][k]] = 2
                      \/ i < Len(stack') /\ schedule'[stack'[i].ref][k] = stack'[i + 1].ref
    BY DEF FrameInv
  <2> DEFINE t == schedule[stack[i].ref][k]
  <2>1. i \in 1..(n - 1) /\ i \in 1..n /\ stack'[i] = stack[i] /\ schedule' = schedule
    BY <1>1, <1>2, <1>3
  <2>2. t \in Refs
    BY <1>2, <2>1, TargetFact DEF Inv, TypeInv
  <2>3. state[t] = 2 \/ t = stack[i + 1].ref
    BY <1>1, <2>1 DEF Inv, FrameInv, n
  <2>4. CASE state[t] = 2
    BY <1>4, <2>1, <2>2, <2>4
  <2>5. CASE t = stack[i + 1].ref /\ i = n - 1
    BY <1>2, <1>4, <2>1, <2>5 DEF q
  <2>6. CASE t = stack[i + 1].ref /\ i < n - 1
    <3>1. i + 1 \in 1..(n - 1)
        BY <1>2, <2>1, <2>6
    <3>2. QED
        BY <1>2, <1>3, <2>1, <2>6, <3>1
  <2>7. QED
    BY <1>2, <2>1, <2>3, <2>4, <2>5, <2>6
<1>12. RankInv'
  <2>1. PICK rank \in [Refs -> 0..N] : Ranks(rank)
    BY DEF Inv, RankInv
  <2> DEFINE c == Cardinality(Done)
             new == [rank EXCEPT ![q] = c]
  <2>2. q \notin Done /\ Done' = Done \cup {q}
    BY <1>2, <1>4 DEF Done
  <2>3. c \in Nat /\ c < N /\ IsFiniteSet(Done)
    BY <1>2, <2>2, DoneFact DEF q
  <2>4. Cardinality(Done') = c + 1
    BY <2>2, <2>3, FS_AddElement
  <2> HIDE DEF c
  <2>5. new \in [Refs -> 0..N] /\ new[q] = c /\ \A p \in Refs : p # q => new[p] = rank[p]
    BY <1>2, <2>1, <2>3, NAssumption DEF q
  <2> HIDE DEF new
  <2>6. ASSUME NEW r \in Done'
        PROVE  /\ new[r] < Cardinality(Done')
               /\ \A k \in DOMAIN schedule'[r] :
                     schedule'[r][k] \in Done' /\ new[schedule'[r][k]] < new[r]
    <3>1. CASE r = q
      <4>1. \A k \in DOMAIN schedule[q] : schedule[q][k] \in Done
        BY <1>2, <1>5, TargetFact DEF Inv, TypeInv, Done
      <4>2. ASSUME NEW k \in DOMAIN schedule[q]
            PROVE  schedule[q][k] \in Done' /\ new[schedule[q][k]] < c
        <5>1. schedule[q][k] \in Done /\ schedule[q][k] # q /\ schedule[q][k] \in Refs
            BY <2>2, <4>1 DEF Done
        <5>2. new[schedule[q][k]] = rank[schedule[q][k]]
            BY <2>5, <5>1
        <5>3. QED
            BY <2>1, <2>2, <5>1, <5>2 DEF Ranks, c
      <4>3. QED
        BY <1>1, <2>3, <2>4, <2>5, <3>1, <4>2
    <3>2. CASE r # q
      <4>1. r \in Done /\ r \in Refs /\ new[r] = rank[r]
        BY <2>2, <2>5, <3>2 DEF Done
      <4>2. new[r] < c /\ rank[r] \in Nat
        BY <2>1, <4>1 DEF Ranks, c
      <4>3. ASSUME NEW k \in DOMAIN schedule[r]
            PROVE  schedule[r][k] \in Done' /\ new[schedule[r][k]] < new[r]
        <5>1. schedule[r][k] \in Done /\ rank[schedule[r][k]] < rank[r]
            BY <2>1, <4>1 DEF Ranks
        <5>2. schedule[r][k] # q /\ schedule[r][k] \in Refs
            BY <2>2, <5>1 DEF Done
        <5>3. QED
            BY <2>2, <2>5, <4>1, <5>1, <5>2
      <4>4. QED
        BY <1>1, <2>3, <2>4, <4>2, <4>1, <4>3
    <3>3. QED
        BY <3>1, <3>2
  <2>7. QED
    BY <2>5, <2>6 DEF RankInv, Ranks
<1>13. QED
    BY <1>6, <1>7, <1>8, <1>10, <1>11, <1>12 DEF Inv

\* When no root and no frame is left, every ref is marked 2.
LEMMA NoCycleStep == ASSUME Inv, NoCycle PROVE Inv'
<1>1. /\ phase = "visit" /\ stack = <<>> /\ roots = {} /\ phase' = "done"
      /\ err' = NoError /\ UNCHANGED <<resources, next, schedule, roots, state, stack>>
    BY DEF NoCycle, Return
<1>2. ASSUME NEW r \in Refs PROVE state[r] = 2
  <2>1. state[r] \in 0..2 /\ state[r] # 0
    BY <1>1 DEF Inv, TypeInv, PhaseInv
  <2>2. state[r] # 1
    BY <1>1 DEF Inv, StackInv
  <2>3. QED
    BY <2>1, <2>2
<1>3. TypeInv'
    BY <1>1 DEF Inv, TypeInv
<1>4. PhaseInv'
    BY <1>1, <1>2 DEF PhaseInv, NoError
<1>5. StackInv'
    BY <1>1 DEF StackInv, Inv
<1>6. FrameInv'
    BY <1>1 DEF FrameInv
<1>7. RankInv'
    BY <1>1, RankFrame DEF Done, Inv
<1>8. ResolvesToDenoted'
    BY <1>1 DEF Inv, ResolvesToDenoted, Denotes, Ref
<1>9. QED
    BY <1>3, <1>4, <1>5, <1>6, <1>7, <1>8 DEF Inv

\* The invariant is inductive.
LEMMA NextInv == Inv /\ [Next]_vars => Inv'
<1> SUFFICES ASSUME Inv, [Next]_vars PROVE Inv'
    OBVIOUS
<1>1. CASE Index
    BY <1>1, IndexStep
<1>2. CASE Resolve
    BY <1>2, ResolveStep
<1>3. CASE StartVisits
    BY <1>3, StartVisitsStep
<1>4. CASE \E r \in Refs : VisitRoot(r)
    BY <1>4, VisitRootStep
<1>5. CASE VisitDependency
    BY <1>5, VisitDependencyStep
<1>6. CASE Leave
    BY <1>6, LeaveStep
<1>7. CASE NoCycle
    BY <1>7, NoCycleStep
<1>8. CASE UNCHANGED vars
  <2>1. UNCHANGED <<resources, phase, next, schedule, roots, state, stack, err, errRef>>
    BY <1>8 DEF vars
  <2>2. TypeInv' /\ PhaseInv' /\ StackInv' /\ FrameInv'
    BY <2>1 DEF Inv, TypeInv, PhaseInv, StackInv, FrameInv, Edge
  <2>3. RankInv'
    BY <2>1, RankFrame DEF Done, Inv
  <2>4. ResolvesToDenoted'
    BY <2>1 DEF Inv, ResolvesToDenoted, Denotes, Ref
  <2>5. QED
    BY <2>2, <2>3, <2>4 DEF Inv
<1>9. QED
    BY <1>1, <1>2, <1>3, <1>4, <1>5, <1>6, <1>7, <1>8 DEF Next, Returned

-----------------------------------------------------------------------------
(* What buildSchedule promises *)

\* buildSchedule only reaches states of Inv.
THEOREM InvCorrect == Spec => []Inv
BY InitInv, NextInv, PTL DEF Spec

\* What buildSchedule accepts has no cycle; what it calls a cycle is one, and
\* the ref it names lies on it.
THEOREM CycleCorrect == Spec => []CycleVerdict
<1>1. Inv => CycleVerdict
  <2> SUFFICES ASSUME Inv, phase = "done"
               PROVE  /\ err = NoError => Acyclic(schedule)
                      /\ err = "cycle" => ~Acyclic(schedule) /\ OnCycle(errRef)
    BY DEF CycleVerdict
  <2>1. ASSUME err = NoError PROVE Acyclic(schedule)
    BY <2>1, AcyclicFact DEF Inv, PhaseInv
  <2>2. ASSUME err = "cycle" PROVE ~Acyclic(schedule) /\ OnCycle(errRef)
    <3>1. stack # <<>> /\ Edge(stack[Len(stack)].ref, errRef)
        BY <2>2 DEF Inv, PhaseInv
    <3>2. PICK i \in 1..Len(stack) : stack[i].ref = errRef
        BY <2>2 DEF Inv, PhaseInv
    <3>3. QED
        BY <3>1, <3>2, CycleFact DEF Inv
  <2>3. QED
    BY <2>1, <2>2
<1>2. QED
    BY <1>1, InvCorrect, PTL

\* Every depends-on entry is resolved to the resource it denotes.
THEOREM ResolvesCorrect == Spec => []ResolvesToDenoted
<1>1. Inv => ResolvesToDenoted
    BY DEF Inv
<1>2. QED
    BY <1>1, InvCorrect, PTL

\* The recursion of visit is never deeper than there are resources, and a ref
\* marked done depends on refs marked done only.
THEOREM SearchCorrect == Spec => []SearchInv
<1>1. Inv => SearchInv
  <2> SUFFICES ASSUME Inv PROVE SearchInv
    OBVIOUS
  <2>1. Len(stack) <= N /\ DOMAIN stack = 1..Len(stack) /\ Len(stack) \in Nat
    BY DepthFact DEF Inv, TypeInv
  <2>2. {r \in Refs : state[r] = 1} = {stack[i].ref : i \in DOMAIN stack}
    <3>1. \A i \in DOMAIN stack : stack[i].ref \in Refs
      <4>1. \A i \in DOMAIN stack : stack[i] \in Frames
        BY DEF Inv, TypeInv
      <4>2. QED
        BY <4>1 DEF Frames
    <3>2. QED
        BY <2>1, <3>1 DEF Inv, StackInv
  <2>3. ASSUME NEW i \in DOMAIN stack, i > 1 PROVE Edge(stack[i - 1].ref, stack[i].ref)
    <3>1. i - 1 \in 1..(Len(stack) - 1) /\ (i - 1) + 1 = i
        BY <2>1, <2>3
    <3>2. Edge(stack[i - 1].ref, stack[(i - 1) + 1].ref)
        BY <3>1 DEF Inv, StackInv
    <3>3. QED
        BY <3>1, <3>2
  <2>4. ASSUME NEW q \in Refs, NEW r \in Refs, state[q] = 2, Edge(q, r) PROVE state[r] = 2
    <3>1. PICK k \in DOMAIN schedule[q] : r = schedule[q][k]
        BY <2>4 DEF Edge, Prerequisites
    <3>2. QED
        BY <2>4, <3>1 DEF Inv, RankInv, Ranks, Done
  <2>5. QED
    BY <2>1, <2>2, <2>3, <2>4 DEF SearchInv, Inv, StackInv
<1>2. QED
    BY <1>1, InvCorrect, PTL

\* The schedules buildSchedule accepts are those Scheduler is given: lists of
\* refs of the sweep, without a cycle.
Accepted == phase = "done" /\ err = NoError => schedule \in DependencyLists /\ Acyclic(schedule)

\* What buildSchedule accepts satisfies ScheduleAssumption, which the proofs of
\* Scheduler start from.
THEOREM AcceptedCorrect == Spec => []Accepted
<1>1. Inv /\ CycleVerdict => Accepted
    BY DEF Inv, TypeInv, CycleVerdict, Accepted
<1>2. QED
    BY <1>1, InvCorrect, CycleCorrect, PTL

=============================================================================
