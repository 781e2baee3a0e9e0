------------------------------ MODULE Matchers ------------------------------
(***************************************************************************)
(* What an expectation in a gossfile means: matcherToGomegaMatcher builds  *)
(* a matcher from it, or refuses it, and Match judges the value found.     *)
(*                                                                         *)
(* A matcher is a tree.  A leaf stands for the matchers that compare one   *)
(* value and says what comparing it gives: "T", "F", or "E" when the value *)
(* cannot be compared.  Inner nodes are the combinators.  have-patterns    *)
(* carries the text it is applied to, line by line.                        *)
(***************************************************************************)
EXTENDS Integers, Sequences, FiniteSets, SequencesExt

CONSTANTS
    Leaves,     \* what a single comparison can say
    MaxLines,   \* the lines of a text
    MaxPats     \* the patterns of a list

ASSUME MatchersAssumption ==
    /\ Leaves \subseteq {"T", "F", "E"}
    /\ MaxLines \in Nat /\ MaxPats \in Nat

-----------------------------------------------------------------------------
(* The expectations: two levels of combinators over the leaves *)

Leaf(s) == [k |-> "leaf", says |-> s]
Bad     == [k |-> "bad"]        \* unknown or several matchers, a wrong argument
Missing == [k |-> "missing"]    \* the attribute is absent or null
\* A bare list with nothing in it: true of a list, an error on anything else.
EmptyList(s) == [k |-> "emptylist", says |-> s]

Simple == {Leaf(s) : s \in Leaves} \cup {Bad}

Groups(ms) ==
    [k : {"and", "or", "elements"}, ms : {<<>>} \cup {<<m>> : m \in ms} \cup ms \X Simple \cup Simple \X ms]

Over(ms) ==
    [k : {"not"}, m : ms] \cup [k : {"with"}, transforms : BOOLEAN, m : ms] \cup Groups(ms)

Trees1 == Simple \cup Over(Simple)
Trees  == Trees1 \cup Over(Trees1)

\* A pattern matches some of the lines; the empty one matches them all.
Patterns ==
    {p \in [inverse : BOOLEAN, empty : BOOLEAN, hits : SUBSET (1..MaxLines)] :
        p.empty => p.hits = 1..MaxLines}

\* A text of n lines, of which one may exceed maxScanTokenSize, and a list
\* of patterns, one of which may not compile.
PatternLists ==
    {t \in [k : {"patterns"}, n : 0..MaxLines, long : 0..MaxLines, bad : BOOLEAN,
            pats : UNION {[1..i -> Patterns] : i \in 0..MaxPats}] :
        t.long <= t.n /\ (t.bad => t.pats # <<>> /\ t.n = 0)}

Children(t) ==
    CASE t.k \in {"not", "with"} -> <<t.m>>
      [] t.k \in {"and", "or", "elements"} -> t.ms
      [] OTHER -> <<>>

\* What node makes of a tree and of what it makes of its children, from the
\* leaves up: the trees of Trees have three levels.
FromLeaves(node(_, _), t) ==
    LET leaf(u)   == node(u, <<>>)
        simple(u) == node(u, [i \in DOMAIN Children(u) |-> leaf(Children(u)[i])])
    IN  node(t, [i \in DOMAIN Children(t) |-> simple(Children(t)[i])])

-----------------------------------------------------------------------------
(* matcherToGomegaMatcher: a group that asserts nothing is refused *)

buildNode(t, built) ==
    /\ t.k \notin {"bad", "missing"}
    /\ t.k \in {"and", "or", "elements"} => t.ms # <<>>
    /\ \A i \in DOMAIN built : built[i]

Built(t) == FromLeaves(buildNode, t)

-----------------------------------------------------------------------------
(* Match: what a matcher returns, (success, err) *)

Says(s) == [ok |-> s = "T", err |-> s = "E"]
Failed  == Says("E")

NotMatchErr(r) == [ok |-> ~r.ok, err |-> r.err]

\* NotMatcher: an error is not the opposite of a match.
NotMatch(r) == IF r.err THEN [ok |-> FALSE, err |-> TRUE] ELSE [ok |-> ~r.ok, err |-> FALSE]

\* AndMatcher stops at the first child that does not match, OrMatcher at the
\* first that does; an error stops both.
AndMatch(rs) ==
    LET stops == {i \in DOMAIN rs : ~rs[i].ok \/ rs[i].err}
    IN  IF stops = {} THEN Says("T")
        ELSE [ok |-> FALSE, err |-> rs[CHOOSE i \in stops : \A j \in stops : i <= j].err]

OrMatch(rs) ==
    LET stops == {i \in DOMAIN rs : rs[i].ok \/ rs[i].err}
        r     == rs[CHOOSE i \in stops : \A j \in stops : i <= j]
    IN  IF stops = {} THEN Says("F")
        ELSE [ok |-> r.ok /\ ~r.err, err |-> r.err]

\* gomega's ContainElements, over a list whose elements are all alike: an
\* element its matcher cannot judge is one it does not match.
ContainElements(rs) == Says(IF \A i \in DOMAIN rs : rs[i].ok /\ ~rs[i].err THEN "T" ELSE "F")

\* WithSafeTransform: the value is converted first (to a number, a string, a
\* list, or what a gjson path names), and a failed conversion is an error.
SafeTransform(transforms, r) == IF transforms THEN r ELSE Failed

\* What is left to look for after line i, and what was found: a pattern is
\* dropped at the first line it matches, and counts as found unless it was
\* not wanted.  The scan ends early when nothing is left to look for.
scanLine(t, s, i) ==
    IF s.left = {} \/ s.err THEN s
    ELSE IF t.long = i THEN [s EXCEPT !.err = TRUE]
    ELSE LET hit == {p \in s.left : i \in t.pats[p].hits}
         IN  [s EXCEPT !.left = @ \ hit,
                       !.found = @ \cup {p \in hit : ~t.pats[p].inverse}]

Scan(t) ==
    LET all == [left |-> DOMAIN t.pats, found |-> {}, err |-> FALSE]
        after[i \in 0..t.n] == IF i = 0 THEN all ELSE scanLine(t, after[i - 1], i)
    IN  after[t.n]

\* HavePatternsMatcher: what was never seen is found if it was not wanted, or
\* if it is the empty pattern, which an empty text matches too.
HavePatterns(t) ==
    LET s == Scan(t)
        unseen == {p \in s.left : t.pats[p].inverse \/ t.pats[p].empty}
    IN  IF t.bad \/ s.err THEN Failed
        ELSE Says(IF s.found \cup unseen = DOMAIN t.pats THEN "T" ELSE "F")

matchNode(t, rs) ==
    CASE t.k \in {"leaf", "emptylist"} -> Says(t.says)
      [] t.k = "patterns" -> HavePatterns(t)
      [] t.k = "not"      -> NotMatch(rs[1])
      [] t.k = "with"     -> SafeTransform(t.transforms, rs[1])
      [] t.k = "and"      -> AndMatch(rs)
      [] t.k = "or"       -> OrMatch(rs)
      [] t.k = "elements" -> ContainElements(rs)
      [] OTHER            -> Failed

Match(t) == FromLeaves(matchNode, t)

-----------------------------------------------------------------------------
(* The reference: three-valued logic, and patterns over the whole text *)

Neg(v) == CASE v = "T" -> "F" [] v = "F" -> "T" [] OTHER -> "E"

AllOf(vs) == IF "F" \in vs THEN "F" ELSE IF "E" \in vs THEN "E" ELSE "T"

Holds(t, p) ==
    LET pat == t.pats[p]
    IN  IF pat.inverse THEN pat.hits \cap 1..t.n = {} ELSE pat.empty \/ pat.hits \cap 1..t.n # {}

meaningOf(t, vs) ==
    CASE t.k \in {"leaf", "emptylist"} -> t.says
      [] t.k = "patterns" ->
            IF t.bad THEN "E" ELSE IF \A p \in DOMAIN t.pats : Holds(t, p) THEN "T" ELSE "F"
      [] t.k = "not"  -> Neg(vs[1])
      [] t.k = "with" -> IF t.transforms THEN vs[1] ELSE "E"
      [] t.k = "and"  -> AllOf({vs[i] : i \in DOMAIN vs})
      [] t.k = "or"   -> Neg(AllOf({Neg(vs[i]) : i \in DOMAIN vs}))
      [] t.k = "elements" -> IF \A i \in DOMAIN vs : vs[i] = "T" THEN "T" ELSE "F"
      [] OTHER -> "E"

Meaning(t) == FromLeaves(meaningOf, t)

\* Some contain-elements takes a comparison that failed for one that said no.
swallowsAt(t, below) ==
    \E i \in DOMAIN below : below[i] \/ (t.k = "elements" /\ Match(t.ms[i]).err)

Swallows(t) == FromLeaves(swallowsAt, t)

=============================================================================
