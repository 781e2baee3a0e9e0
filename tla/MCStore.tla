------------------------------ MODULE MCStore ------------------------------
(***************************************************************************)
(* The commands that read a gossfile.  A behaviour loads one (every        *)
(* include graph over three files, a chain as deep as the limit, specs     *)
(* with discovery under every command line that loads one), or adds to one. *)
(***************************************************************************)
EXTENDS Loader, Add

vars == <<loaderVars, discoveryVars, addVars>>

Plain == [defs |-> {}, incs |-> {}, skip |-> {}, gate |-> NoGate, section |-> Empty,
          fmt |-> "yaml", odd |-> FALSE, alias |-> FALSE, glob |-> FALSE]
OnlySpec == [mode |-> "plain", stdin |-> FALSE, vars |-> Empty, pipe |-> FALSE, inline |-> Unread]

IncludeDocs == {[Plain EXCEPT !.defs = d, !.incs = i] : d \in {{}, {"k"}}, i \in SUBSET (1..3)}

IncludeDisks ==
    {[f \in Files |-> CASE f = 1 -> d1 [] f = 2 -> d2 [] f = 3 -> d3 [] OTHER -> Absent]
        : d1 \in IncludeDocs, d2 \in IncludeDocs, d3 \in IncludeDocs \cup {Absent}}

ChainDisks ==
    {[f \in Files |-> [Plain EXCEPT !.defs = {"k"}, !.incs = IF f < last THEN {f + 1} ELSE {},
                                    !.skip = IF f = at /\ f < last THEN {f + 1} ELSE {}]]
        : last \in Files, at \in Files}

Sections == UNION {[D -> {"a", "b", NoRegister}] : D \in SUBSET DKeys}

DiscoveryDisks ==
    {[f \in Files |->
        CASE f = 1 -> [Plain EXCEPT !.defs = {"k"}, !.incs = {3}, !.gate = g1, !.section = s,
                                    !.odd = TRUE, !.alias = TRUE, !.glob = TRUE]
          [] f = 2 -> [Plain EXCEPT !.section = s2, !.incs = {3}, !.odd = TRUE]
          [] f = 3 -> [Plain EXCEPT !.defs = {"k"}, !.gate = g3, !.section = s3,
                                    !.odd = TRUE, !.glob = TRUE]
          [] OTHER -> Absent]
        : s \in Sections, g1 \in {NoGate, "a"}, g3 \in {NoGate, "b"},
          s2 \in {Empty, [d \in {"d1"} |-> "a"]}, s3 \in {Empty, [d \in {"d1"} |-> "b"]}}

Options ==
    {[mode |-> m, stdin |-> i, vars |-> v, pipe |-> p, inline |-> n]
        : m \in {"plain", "discover", "format", "render"}, i \in BOOLEAN,
          v \in {Empty, [r \in {"a"} |-> TRUE], BadVars}, p \in BOOLEAN,
          n \in {Unread, [r \in {"a", "b"} |-> r = "a"]}}

FormatDisks ==
    {[f \in Files |->
        CASE f = 1 -> [Plain EXCEPT !.defs = {"k"}, !.incs = {3}, !.fmt = m1, !.odd = TRUE]
          [] f = 3 -> [Plain EXCEPT !.defs = {"k"}, !.fmt = m3, !.odd = TRUE, !.alias = TRUE]
          [] OTHER -> Absent]
        : m1 \in Formats, m3 \in Formats}

LoadInit ==
    /\ \/ opt = OnlySpec /\ disk \in IncludeDisks \cup ChainDisks
       \/ opt = OnlySpec /\ disk \in DiscoveryDisks
       \/ opt \in Options /\ disk \in DiscoveryDisks
          /\ Cardinality(DOMAIN disk[1].section) <= 1 /\ "d2" \notin DOMAIN disk[1].section
       \/ opt \in Options /\ opt.inline = Unread /\ disk \in FormatDisks
    /\ LoaderInit /\ DiscoveryOff
    /\ op = "none" /\ args = <<>> /\ gossfile = NoFile /\ AddInit

NoLoad ==
    /\ opt = [OnlySpec EXCEPT !.mode = "none"] /\ disk = [f \in Files |-> Absent]
    /\ LoaderInit /\ DiscoveryOff

Init == LoadInit \/ (AddScenarios /\ NoLoad)

Done ==
    /\ lpc = "done" /\ (op = "none" \/ apc \in Ended)
    /\ UNCHANGED vars

Next ==
    \/ LoaderNext /\ UNCHANGED addVars
    \/ op # "none" /\ AddNext /\ UNCHANGED <<loaderVars, discoveryVars>>
    \/ Done

Spec == Init /\ [][Next]_vars /\ LoaderFairness

=============================================================================
