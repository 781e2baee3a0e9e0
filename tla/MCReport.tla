------------------------------ MODULE MCReport ------------------------------
(***************************************************************************)
(* Sweeps of two resources.  In the first family one of them carries any   *)
(* expectation of Matchers; in the second it has any type and any          *)
(* attributes; in the third both vary and so do the formats.               *)
(***************************************************************************)
EXTENDS Report

A(want) == Attribute(want, FALSE, "ok", FALSE, "plain")

passes == A(Leaf("T"))
fails  == A(Leaf("F"))
absent == A(Missing)
vague  == A(EmptyList("E"))
found_false == [passes EXCEPT !.isFalse = TRUE]
unprintable == [passes EXCEPT !.json = "unsupported"]

Attributes ==
    {passes, fails, absent, vague, found_false, A(Leaf("E")), A(EmptyList("T")),
     [passes EXCEPT !.get = "err"], [passes EXCEPT !.get = "panic"],
     [passes EXCEPT !.atoi = TRUE]}

Resource(type, skip, attrs) ==
    [type |-> type, skip |-> skip, skipReason |-> IF skip THEN "author" ELSE "",
     attrs |-> attrs \o [i \in 1..Len(type.props) - Len(attrs) |-> absent]]

One(a) == Resource(Service, FALSE, <<a>>)

\* Every expectation of Trees over x and y, and a list of patterns on every
\* text, as the attributes of one service, which judges them all.
Pair(k, x, y) == [k |-> k, ms |-> <<x, y>>]

Expectations(x, y) ==
    <<x, [k |-> "not", m |-> x],
      [k |-> "with", transforms |-> TRUE, m |-> x], [k |-> "with", transforms |-> FALSE, m |-> x],
      Pair("and", x, y), Pair("and", y, x), Pair("or", x, y), Pair("or", y, x),
      Pair("elements", x, y), Pair("elements", y, x)>>

Text(pats, n, long, bad) == [k |-> "patterns", n |-> n, long |-> long, bad |-> bad, pats |-> pats]

Texts(pats) ==
    <<Text(pats, 0, 0, FALSE), Text(pats, 1, 0, FALSE), Text(pats, 1, 1, FALSE),
      Text(pats, 2, 0, FALSE), Text(pats, 2, 1, FALSE), Text(pats, 2, 2, FALSE)>>
    \o IF pats = <<>> THEN <<>> ELSE <<Text(pats, 0, 0, TRUE)>>

Judging(wants) == Resource(Service, FALSE, [i \in DOMAIN wants |-> A(wants[i])])

AnyExpectation ==
    /\ \/ \E x \in Trees1, y \in Simple : resources = <<Judging(Expectations(x, y)), One(passes)>>
       \/ \E t \in PatternLists :
             t.n = 0 /\ ~t.bad /\ resources = <<Judging(Texts(t.pats)), One(passes)>>
    /\ format = "silent" /\ sort = FALSE

\* A status, an exit code and a kernel parameter are never the boolean false.
Boolean(type) == type \notin {HTTP, Command, KernelParam}

\* The first attribute is any, and so are the others, which are all alike.
AnyAttributes ==
    /\ \E t \in Types, s \in BOOLEAN, first \in Attributes, others \in Attributes :
          /\ first = found_false => Boolean(t)
          /\ Len(t.props) = 1 => others = absent
          /\ resources = <<Resource(t, s, [i \in DOMAIN t.props |-> IF i = 1 THEN first ELSE others]),
                           One(passes)>>
    /\ format = "rspecish" /\ sort = FALSE

Shapes ==
    {One(passes), One(fails), One(absent), One(unprintable),
     Resource(Service, TRUE, <<passes>>),
     Resource(File, FALSE, <<found_false, passes>>),
     Resource(Command, FALSE, <<fails, passes>>)}

AnyFormat ==
    /\ \E r, q \in Shapes : resources = <<r, q>>
    /\ format \in Formats /\ sort \in BOOLEAN

ReportInit == (AnyExpectation \/ AnyAttributes \/ AnyFormat) /\ StartSweep

ReportSpec == ReportInit /\ [][ReportNext]_reportVars /\ ReportFairness

=============================================================================
