------------------------------- MODULE Loader ------------------------------
(***************************************************************************)
(* How a spec is loaded (store.go, validate.go, template.go,               *)
(* discovery_load.go): gossfiles are rendered, decoded and merged along    *)
(* their includes; a spec with discovery: is loaded twice, once to peek at *)
(* its discovery section and once with the verdicts.                       *)
(*                                                                         *)
(* Files are numbered in the order their include keys sort; a key that is  *)
(* a glob stands for its matches, which Glob sorts.  A document            *)
(*   defs, incs, skip    the resources it defines and the files it         *)
(*                       includes, those with skip: true apart,            *)
(*   gate                the register {{ if .Discovered.<gate> }} around   *)
(*                       them asks for,                                    *)
(*   section             its discovery: section, outside the gate,         *)
(*   fmt                 json or yaml; other is an extension no format     *)
(*                       has or, on stdin, data that is neither,           *)
(*   odd, alias, glob    it has a top-level key no type has; it declares   *)
(*                       an include under gossfile: and syverfile:; a      *)
(*                       glob in its template matches nothing.             *)
(* A resource is told apart by the file whose definition of it was kept.   *)
(***************************************************************************)
EXTENDS Discovery

CONSTANTS
    Files,      \* the paths, integers
    Keys,       \* the ids of resources
    DKeys,      \* the ids of discovery resources
    MaxDepth    \* mergeJSONData's limit; 50 in the code

ASSUME LoaderAssumption ==
    /\ Files \subseteq Nat /\ 1 \in Files /\ 2 \in Files
    /\ MaxDepth \in Nat \ {0}

VARIABLES
    disk,           \* the document at each path, or Absent
    opt,            \* the command line: mode, stdin, vars, pipe, inline
    lpc,            \* the next load, "merge" while one is under way, "return" or "done"
    pass,           \* "peek", "load" or "discover": the load under way
    quietDecode, outStoreFormat, template,   \* process-wide, set by each load
    stack,          \* mergeJSONData's activations, the innermost last
    answer,         \* what the load under way returned
    verdicts,       \* discovered, as loadSyverConfigWithDiscover holds it
    stdinCache, varsCache,  \* what stdinOnce and varsFileCache hold, <<>> at first
    drained,        \* the streams read to their end, "stdin" and "vars"
    warned,         \* the warnings printed: file or pattern, and how often
    dups            \* those about duplicate keys, of the load under way

loadVars == <<pass, quietDecode, outStoreFormat, template, stack, answer, stdinCache, varsCache, drained,
              warned, dups>>
loaderVars == <<disk, opt, lpc, loadVars, verdicts>>

Absent == [absent |-> TRUE]
Unread == [unread |-> TRUE]
Spec1 == 1          \* -g
DiscoverSpec == 2   \* --discover
NoGate == "none"
Formats == {"json", "yaml", "other"}
BadVars == [bad |-> TRUE]   \* a vars file that cannot be read or parsed
NoFilter == [disc |-> Empty, missingkey |-> "error"]

Config(res, section) == [res |-> res, section |-> section]
NoConfig == Config(Empty, Empty)
Ok(cfg) == [err |-> "none", cfg |-> cfg]
Err(e) == [err |-> e, cfg |-> NoConfig]

NoDups == [res |-> [k \in Keys |-> 0], section |-> [k \in DKeys |-> 0]]

Root == IF pass = "discover" THEN DiscoverSpec ELSE Spec1

LoaderInit ==
    /\ lpc = CASE opt.mode \in {"format", "render"} -> "load"
               [] opt.mode = "discover" -> "discover"
               [] opt.mode = "plain" -> "peek"
               [] opt.mode = "none" -> "done"
    /\ pass = "none" /\ quietDecode = FALSE /\ outStoreFormat = "unset"
    /\ template = NoFilter
    /\ stack = <<>> /\ answer = Ok(NoConfig) /\ verdicts = Empty
    /\ stdinCache = <<>> /\ varsCache = <<>> /\ drained = {}
    /\ warned = [odd |-> [f \in Files |-> 0], alias |-> [f \in Files |-> 0], glob |-> [f \in Files |-> 0]]
    /\ dups = NoDups

-----------------------------------------------------------------------------
(* Variables and templates *)

Override(f, g) == [x \in DOMAIN f \cup DOMAIN g |-> IF x \in DOMAIN g THEN g[x] ELSE f[x]]

\* readVarsFile: a pipe gives its data to the first read and no bytes to the
\* next, so what it gave is kept.
readVarsFile ==
    IF opt.pipe /\ varsCache # <<>> THEN varsCache[1]
    ELSE IF opt.pipe /\ "vars" \in drained THEN Empty ELSE opt.vars

\* loadVarsForTemplates: discovered is laid over the Discovered of the vars
\* files; --vars-inline replaces a key whole.
loadVarsForTemplates(fromFile, disc) ==
    IF opt.inline # Unread THEN opt.inline
    ELSE IF DOMAIN disc = {} THEN fromFile ELSE Override(fromFile, disc)

\* Whether the gate of a template opens; a register nobody set is false to the
\* peek and an error to the real load.
Gate(g, t) ==
    IF g = NoGate \/ (g \in DOMAIN t.disc /\ t.disc[g]) THEN "open"
    ELSE IF g \in DOMAIN t.disc \/ t.missingkey = "zero" THEN "closed"
    ELSE "error"

Opens(doc, t) == Gate(doc.gate, t) = "open"

\* ReadJSONData: rendered, and decoded in the format of the root.
Unreadable(doc, fmt, t) ==
    IF Gate(doc.gate, t) = "error" THEN "template"
    ELSE IF fmt = "json" /\ doc.fmt = "yaml" THEN "decode"
    ELSE "none"

\* newTemplateFilter, at the top of loadSyverConfig; RenderJSON makes the same.
\* A vars file that cannot be used ends the load, --vars-inline or not.
NewFilter(peek, disc) ==
    LET file == readVarsFile
    IN  /\ IF file = BadVars
           THEN template' = NoFilter /\ answer' = Err("vars") /\ lpc' = "return"
           ELSE /\ template' = [disc |-> loadVarsForTemplates(file, disc),
                                missingkey |-> IF peek THEN "zero" ELSE "error"]
                /\ lpc' = "merge" /\ UNCHANGED answer
        /\ varsCache' = IF opt.pipe THEN <<file>> ELSE varsCache
        /\ drained' = IF opt.pipe THEN drained \cup {"vars"} ELSE drained

\* warnGlobNoMatch, while rendering, keeps a note of what it printed; the guard
\* of top-level keys and the fold of syverfile: do not.
warnGlobNoMatch(f, doc) == [warned.glob EXCEPT ![f] = IF doc.glob /\ Opens(doc, template) THEN 1 ELSE @]
checkTopLevelKeys(f, doc) == [warned.odd EXCEPT ![f] = IF doc.odd THEN @ + 1 ELSE @]

\* What ReadJSONData prints of a file; the guard is for YAML alone.
Warnings(f, doc, fmt, decoded) ==
    IF quietDecode THEN warned
    ELSE [glob |-> warnGlobNoMatch(f, doc),
          odd |-> IF fmt = "yaml" THEN checkTopLevelKeys(f, doc) ELSE warned.odd,
          alias |-> [warned.alias EXCEPT ![f] = IF doc.alias /\ decoded THEN @ + 1 ELSE @]]

-----------------------------------------------------------------------------
(* One load *)

quietNever(p) == p = "none"

\* quietDecode = peek
quietFor(p) == p = "peek"

\* loadSyverConfig up to its template filter.
StartLoad(p, disc) ==
    /\ pass' = p
    /\ quietDecode' = quietFor(p)
    /\ NewFilter(p = "peek", disc)
    /\ stack' = <<>> /\ dups' = NoDups
    /\ UNCHANGED <<disk, opt, verdicts, outStoreFormat, stdinCache, warned>>

\* readStdinOnce: the stream gives its data once, and every caller gets it.
readStdinOnce ==
    IF stdinCache # <<>> THEN stdinCache[1] ELSE IF "stdin" \in drained THEN Absent ELSE disk[Spec1]

Fail(e) ==
    /\ answer' = Err(e)
    /\ lpc' = "return"
    /\ UNCHANGED stack

\* A frame of mergeJSONData: its ret, and the includes still to merge.
Frame(f, doc) ==
    [file |-> f,
     ret |-> Config(IF Opens(doc, template) THEN [k \in doc.defs |-> f] ELSE Empty, doc.section),
     todo |-> IF Opens(doc, template) THEN doc.incs \ doc.skip ELSE {}]

\* ReadJSONData of f, and mergeJSONData entered with it from the frames below.
Enter(below, f, doc, fmt) ==
    LET e == Unreadable(doc, fmt, template)
    IN  /\ warned' = IF e = "template" THEN warned ELSE Warnings(f, doc, fmt, e = "none")
        /\ IF e # "none" THEN Fail(e)
           ELSE IF Len(below) + 1 >= MaxDepth THEN Fail("depth")
           ELSE stack' = Append(below, Frame(f, doc)) /\ UNCHANGED <<lpc, answer>>

loadSettings == <<disk, opt, verdicts, pass, quietDecode, template, varsCache>>

\* The spec itself: stdin is sniffed for its format before it is rendered, a
\* file has its extension, and render knows files only.
ReadRoot ==
    /\ lpc = "merge" /\ stack = <<>>
    /\ LET stdin == opt.stdin /\ Root = Spec1
           doc == IF stdin THEN readStdinOnce ELSE disk[Root]
       IN  /\ stdinCache' = IF stdin THEN <<doc>> ELSE stdinCache
           /\ drained' = IF stdin THEN drained \cup {"stdin"} ELSE drained
           /\ IF stdin /\ opt.mode = "render"
              THEN Fail("format") /\ UNCHANGED <<outStoreFormat, warned>>
              ELSE IF doc = Absent
              THEN Fail(IF stdin THEN "notests" ELSE "file") /\ UNCHANGED <<outStoreFormat, warned>>
              ELSE IF doc.fmt = "other"
              THEN Fail("format") /\ UNCHANGED <<outStoreFormat, warned>>
              ELSE outStoreFormat' = doc.fmt /\ Enter(<<>>, Root, doc, doc.fmt)
    /\ UNCHANGED <<loadSettings, dups>>

Top == stack[Len(stack)]
Least(S) == CHOOSE f \in S : \A g \in S : f <= g

\* The next include of the innermost activation, in sorted order.
Include ==
    /\ lpc = "merge" /\ stack # <<>> /\ Top.todo # {}
    /\ LET f == Least(Top.todo)
           below == [stack EXCEPT ![Len(stack)].todo = @ \ {f}]
       IN  IF disk[f] = Absent
           THEN Fail("nomatch") /\ UNCHANGED warned
           ELSE Enter(below, f, disk[f], outStoreFormat)
    /\ UNCHANGED <<loadSettings, outStoreFormat, stdinCache, drained, dups>>

mergeFirstWins(c1, c2) == Config(Override(c2.res, c1.res), Override(c2.section, c1.section))

\* mergeSyver: duplicate resources are overwritten with those of the second.
mergeSyver(c1, c2) == Config(Override(c1.res, c2.res), Override(c1.section, c2.section))

\* mergeType warns of every key it overwrites, quietDecode or not.
OneMore(n, f, g) == [k \in DOMAIN n |-> IF k \in DOMAIN f /\ k \in DOMAIN g THEN n[k] + 1 ELSE n[k]]
mergeType(c1, c2) ==
    [res |-> OneMore(dups.res, c1.res, c2.res), section |-> OneMore(dups.section, c1.section, c2.section)]

\* The innermost activation returns, and its caller merges what it returned.
Merged ==
    /\ lpc = "merge" /\ stack # <<>> /\ Top.todo = {}
    /\ IF Len(stack) > 1
       THEN /\ LET up == Len(stack) - 1
               IN  /\ stack' = [SubSeq(stack, 1, up) EXCEPT ![up].ret = mergeSyver(@, Top.ret)]
                   /\ dups' = mergeType(stack[up].ret, Top.ret)
            /\ UNCHANGED <<lpc, answer>>
       ELSE IF opt.mode # "render" /\ Top.ret = NoConfig
       THEN Fail("notests") /\ UNCHANGED dups
       ELSE answer' = Ok(Top.ret) /\ lpc' = "return" /\ UNCHANGED <<stack, dups>>
    /\ UNCHANGED <<loadSettings, outStoreFormat, stdinCache, drained, warned>>

-----------------------------------------------------------------------------
(* loadSyverConfigWithDiscover *)

Peek == lpc = "peek" /\ StartLoad("peek", Empty) /\ UNCHANGED discoveryVars
LoadDiscoverSpec == lpc = "discover" /\ StartLoad("discover", Empty) /\ UNCHANGED discoveryVars
Load == lpc = "load" /\ StartLoad("load", verdicts) /\ UNCHANGED discoveryVars

Finished(a) == answer' = a /\ lpc' = "done"

\* What the caller makes of a load's answer: it is the result, it is followed
\* by the next load, or its discovery section is run.
IsResult ==
    \/ pass = "load"
    \/ answer.err # "none" /\ ~(pass = "peek" /\ opt.mode = "discover")
NoSection == answer.err # "none" \/ IsEmpty(answer.cfg.section)

Return ==
    /\ lpc = "return" /\ phase = "off"
    /\ quietDecode' = FALSE
    /\ \/ IsResult /\ Finished(answer) /\ UNCHANGED discoveryVars
       \/ /\ ~IsResult /\ pass = "discover" /\ NoSection
          /\ Finished(Err("nodiscovery")) /\ UNCHANGED discoveryVars
       \/ /\ ~IsResult /\ pass = "peek" /\ (NoSection \/ opt.mode = "discover")
          /\ lpc' = "load" /\ UNCHANGED <<answer, discoveryVars>>
       \/ /\ ~IsResult /\ ~NoSection /\ ~(pass = "peek" /\ opt.mode = "discover")
          /\ IF EntriesError(answer.cfg.section)
             THEN Finished(Err("register")) /\ UNCHANGED discoveryVars
             ELSE Discover(answer.cfg.section) /\ UNCHANGED <<lpc, answer>>
    /\ UNCHANGED <<disk, opt, verdicts, pass, outStoreFormat, template, stack, stdinCache, varsCache, drained,
                   warned, dups>>

afterPeekAlways == "peek"

\* With --discover the spec is still to be peeked at, for the notice that its
\* own section is ignored.
afterDiscovery == IF opt.mode = "discover" THEN "peek" ELSE "load"

\* runDiscoveryPhase has returned.
Discovered ==
    /\ lpc = "return" /\ phase = "over"
    /\ phase' = "off"
    /\ verdicts' = discovered
    /\ lpc' = afterDiscovery
    /\ UNCHANGED <<disk, opt, loadVars, entries, checker, entry, passed, out, outClosed, discovered, told>>

LoadSteps == ReadRoot \/ Include \/ Merged

LoaderStep ==
    \/ Peek \/ LoadDiscoverSpec \/ Load \/ Return \/ Discovered
    \/ LoadSteps /\ UNCHANGED discoveryVars

LoaderNext ==
    \/ LoaderStep
    \/ DiscoveryNext /\ UNCHANGED loaderVars

\* The loading goroutine and those of the discovery pool run when they can.
LoaderFairness ==
    /\ WF_<<loaderVars, discoveryVars>>(LoaderStep)
    /\ \A w \in Workers : WF_discoveryVars(Check(w))
    /\ WF_discoveryVars(CloseOut)
    /\ WF_discoveryVars(Collect)

\* Any load: of any files, under any command line that loads some.
Partial(S, T) == UNION {[D -> T] : D \in SUBSET S}
Documents ==
    [defs : SUBSET Keys, incs : SUBSET Files, skip : SUBSET Files, gate : Registers \cup {NoGate},
     section : Partial(DKeys, Registers \cup {NoRegister}), fmt : Formats,
     odd : BOOLEAN, alias : BOOLEAN, glob : BOOLEAN]
CommandLines ==
    [mode : {"plain", "discover", "format", "render"}, stdin : BOOLEAN,
     vars : {BadVars} \cup Partial(Registers, BOOLEAN), pipe : BOOLEAN,
     inline : {Unread} \cup Partial(Registers, BOOLEAN)]

AnyLoad ==
    /\ disk \in [Files -> Documents \cup {Absent}] /\ opt \in CommandLines
    /\ LoaderInit /\ DiscoveryOff

AnyLoadSpec == AnyLoad /\ [][LoaderNext]_<<loaderVars, discoveryVars>>

-----------------------------------------------------------------------------
(* What a load should give, from the disk and the host alone *)

\* The include chains from root that a rendering with t follows, as far as the
\* depth limit.
Includes(f, t) ==
    IF disk[f] = Absent \/ ~Opens(disk[f], t) THEN {} ELSE disk[f].incs \ disk[f].skip
Chains(root, t) ==
    UNION {{s \in [1..n -> Files] : s[1] = root /\ \A i \in 1..(n - 1) : s[i + 1] \in Includes(s[i], t)}
             : n \in 1..MaxDepth}
Last(s) == s[Len(s)]

\* The order chains are met in: an includer before what it includes.
Before(s, u) ==
    \/ Len(s) < Len(u) /\ SubSeq(u, 1, Len(s)) = s
    \/ \E i \in 1..Len(s) : i <= Len(u) /\ SubSeq(s, 1, i - 1) = SubSeq(u, 1, i - 1) /\ s[i] < u[i]

\* What is wrong with the file of a chain, were it the first.
Fault(s, t) ==
    LET f == Last(s)
        root == Len(s) = 1
        unread == Unreadable(disk[f], disk[s[1]].fmt, t)
    IN  IF root /\ opt.stdin /\ opt.mode = "render" THEN "format"
        ELSE IF disk[f] = Absent THEN (IF ~root THEN "nomatch" ELSE IF opt.stdin THEN "notests" ELSE "file")
        ELSE IF root /\ disk[f].fmt = "other" THEN "format"
        ELSE IF unread # "none" THEN unread
        ELSE IF Len(s) >= MaxDepth THEN "depth" ELSE "none"

\* What each file gives by itself.
ResOf(t) == [f \in Files |-> IF disk[f] # Absent /\ Opens(disk[f], t) THEN [k \in disk[f].defs |-> f] ELSE Empty]
SectionOf == [f \in Files |-> IF disk[f] # Absent THEN disk[f].section ELSE Empty]

\* Of each key, the value of the last chain whose file gives one.
Giving(chains, of, k) == {s \in chains : k \in DOMAIN of[Last(s)]}
LastOf(chains) == CHOOSE s \in chains : \A u \in chains : u = s \/ Before(u, s)
Winner(chains, of) ==
    [k \in UNION {DOMAIN of[Last(s)] : s \in chains} |-> of[Last(LastOf(Giving(chains, of, k)))][k]]

Reference(t) ==
    LET chains == Chains(Spec1, t)
        bad == {s \in chains : Fault(s, t) # "none"}
        cfg == Config(Winner(chains, ResOf(t)), Winner(chains, SectionOf))
    IN  IF opt.vars = BadVars THEN Err("vars")
        ELSE IF bad # {} THEN Err(Fault(CHOOSE s \in bad : \A u \in bad : u = s \/ Before(s, u), t))
        ELSE IF cfg = NoConfig /\ opt.mode # "render" THEN Err("notests")
        ELSE Ok(cfg)

\* The rendering the spec should have: --vars-inline, else the host's verdicts
\* over the vars files.
TrueTemplate ==
    [disc |-> IF opt.inline # Unread THEN opt.inline
              ELSE [r \in DOMAIN opt.vars \cup DOMAIN told |->
                       IF r \in DOMAIN told THEN "FAIL" \notin Range(told[r]) ELSE opt.vars[r]],
     missingkey |-> "error"]

-----------------------------------------------------------------------------
(* Properties *)

\* A load that comes to its end gives what the gossfiles say: every resource of
\* every file the spec reaches, an included definition over its includer's and
\* a later include's over an earlier one's, rendered with the verdicts of this
\* host; or the error of the first file that cannot be used, an include cycle
\* among them, or of a vars file.  The spec was peeked at before: that leaves
\* stdin or a --vars pipe drained, and the filter and the format of another load
\* behind, and must not show.
LastIncludedWins ==
    lpc = "done" /\ pass = "load" => answer = Reference(TrueTemplate)

\* The chains to f, and those of them that are decoded as YAML, which the format
\* of their root decides.
Ending(U, f) == {s \in U : Last(s) = f}
InYaml(U) == {s \in U : disk[s[1]] # Absent /\ disk[s[1]].fmt = "yaml"}

\* What the loads that are used should have said of each file.
ToldOnUse ==
    LET t0 == [disc |-> IF opt.inline # Unread THEN opt.inline ELSE opt.vars, missingkey |-> "error"]
        used == Chains(Spec1, TrueTemplate)
        first == IF opt.mode = "discover" THEN Chains(DiscoverSpec, t0) ELSE {}
        Shown(f) == \/ Opens(disk[f], TrueTemplate) /\ Ending(used, f) # {}
                    \/ Opens(disk[f], t0) /\ Ending(first, f) # {}
    IN  \A f \in {g \in Files : disk[g] # Absent} :
           /\ warned.odd[f] = IF disk[f].odd THEN Cardinality(Ending(InYaml(used), f))
                                                 + Cardinality(Ending(InYaml(first), f)) ELSE 0
           /\ warned.alias[f] = IF disk[f].alias THEN Cardinality(Ending(used, f))
                                                     + Cardinality(Ending(first, f)) ELSE 0
           /\ warned.glob[f] = IF disk[f].glob /\ Shown(f) THEN 1 ELSE 0

\* n counts every definition that another overwrote.
Overwritten(n, of) ==
    LET chains == Chains(Root, template)
        all(k) == Cardinality(Giving(chains, of, k))
    IN  \A k \in DOMAIN n : n[k] = IF all(k) = 0 THEN 0 ELSE all(k) - 1

\* The warnings of a spec that is loaded twice.  What quietDecode gates is silent
\* in the peek and not in the load that is used: an unknown top-level key of a
\* YAML document and a colliding alias are reported as often as their document
\* is loaded for use, a glob that matches nothing once at most.  A duplicate key
\* is not gated: each load, the peek too, reports every definition it overwrites.
WarningsExact ==
    /\ lpc = "done" /\ pass = "load" /\ answer.err = "none" => ToldOnUse
    /\ lpc \in {"return", "done"} /\ answer.err = "none" =>
          Overwritten(dups.res, ResOf(template)) /\ Overwritten(dups.section, SectionOf)

\* Every load ends, a spec that includes itself among them, and so does the
\* discovery phase between two loads.
LoadReturns == <>(lpc = "done")

=============================================================================
