--------------------------- MODULE MCBuildSchedule ---------------------------
(***************************************************************************)
(* BuildSchedule on two families of specs: every dependency graph over N   *)
(* resources with plain keys, cycles and repeats included, and every way   *)
(* to spell a reference between resources of two types.                    *)
(***************************************************************************)
EXTENDS BuildSchedule

CONSTANT MaxDeps        \* bound on one depends-on list of a graph

ListsOver(S, max) == UNION {[1..n -> S] : n \in 0..max}

\* Distinct keys, one type: the entries name keys, and the graph varies.
MCKey(r) == <<<<"a", "b", "c", "d">>[r]>>

MCGraphSpecs ==
    {[r \in Refs |-> [type |-> "file", key |-> MCKey(r), dependsOn |-> d[r]]] :
        d \in [Refs -> ListsOver({MCKey(r) : r \in Refs}, MaxDeps)]}

\* "a" and "tcp:22" as keys of a file and of a port, and every spelling of a
\* reference, one per resource.
MCKeys == {<<"a">>, <<"tcp", "22">>}

MCEntries == {<<"a">>, <<"tcp", "22">>, <<"zz">>, <<"file", "a">>, <<"port", "a">>,
              <<"port", "tcp", "22">>, <<"", "a">>, <<"file", "">>}

MCReferenceSpecs ==
    {s \in [Refs -> [type : {"file", "port"}, key : MCKeys, dependsOn : ListsOver(MCEntries, 1)]] :
        \A q, r \in Refs : s[q].type = s[r].type /\ s[q].key = s[r].key => q = r}

MCSpecs == MCGraphSpecs \cup MCReferenceSpecs

==============================================================================
