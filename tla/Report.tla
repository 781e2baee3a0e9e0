------------------------------- MODULE Report -------------------------------
(***************************************************************************)
(* One sweep from the spec to the exit code: Parallel's workers validate   *)
(* the resources (ResourceValidate) and the outputer folds the groups in   *)
(* the order they reach it (Outputs), or collects them all and sorts them  *)
(* first.                                                                  *)
(***************************************************************************)
EXTENDS Parallel, ResourceValidate, Outputs

VARIABLES
    resources, format, sort,    \* the spec and the flags; never change
    group,      \* what validating each resource on this host returns; likewise
    received,   \* the resources whose groups the outputer has received, in order
    rendered,   \* those the outputer's loop is through with
    tally,      \* the outputer's counters
    code        \* what Output returned

flags == <<resources, format, sort, group>>
reportVars == <<vars, flags, received, rendered, tally, code>>

NotReturned == -1

\* What the stream says of a resource: it failed if one of its checks did.
Outcome(results) ==
    IF \E k \in DOMAIN results : results[k].result = "FAIL" THEN "FAIL" ELSE "SUCCESS"

StartSweep ==
    /\ Init
    /\ group = [r \in Refs |-> ValidateSafe(resources[r])]
    /\ received = <<>>
    /\ rendered = {}
    /\ tally = NewTally
    /\ code = NotReturned

-----------------------------------------------------------------------------
TakeResource(w) == (Take(w) \/ Drained(w)) /\ UNCHANGED <<flags, received, rendered, tally, code>>

ValidateResource(w) ==
    /\ Validate(w)
    /\ outcome'[w] = Outcome(group[item[w]])
    /\ UNCHANGED <<flags, received, rendered, tally, code>>

SendGroup(w) ==
    /\ Send(w)
    /\ received' = Append(received, item[w])
    /\ UNCHANGED <<flags, rendered, tally, code>>

CloseOut == Close /\ UNCHANGED <<flags, received, rendered, tally, code>>

\* getResults with the sort option: all groups are collected before the loop
\* of Output sees the first of them.
collects == sort /\ honoursSort(format)

Results(refs) == [i \in DOMAIN refs |-> group[refs[i]]]

CollectGroup ==
    /\ collects
    /\ Render
    /\ UNCHANGED <<flags, received, rendered, tally, code>>

\* One turn of the loop over the groups.
Turn(r) ==
    /\ tally' = tallyGroup(format, tally, group[r])
    /\ rendered' = rendered \cup {r}
    /\ UNCHANGED <<flags, received, code>>

RenderGroup ==
    /\ ~collects
    /\ Render
    /\ ~IndexesEmpty(format, FALSE, Results(<<Last(received)>>))
    /\ Turn(Last(received))

\* out is closed and what it gave is sorted; the loop is not through with it.
Sorted == collects /\ outputer = "recv" /\ closed /\ rendered # Range(received)

RenderSorted ==
    /\ Sorted
    /\ ~IndexesEmpty(format, TRUE, Results(received))
    /\ \E r \in Range(received) \ rendered :
          (\A q \in Range(received) \ rendered : r <= q) /\ Turn(r)
    /\ UNCHANGED vars

FinishReport ==
    /\ ~Sorted
    /\ Finish
    /\ code' = exitCode(format, tally)
    /\ UNCHANGED <<flags, received, rendered, tally>>

\* results[0] of an empty group: the outputer runs on the main goroutine and
\* nothing recovers it.
Crash ==
    /\ \/ /\ outputer = "render" /\ ~collects
          /\ IndexesEmpty(format, FALSE, Results(<<Last(received)>>))
       \/ Sorted /\ IndexesEmpty(format, TRUE, Results(received))
    /\ outputer' = "crashed"
    /\ UNCHANGED <<workerVars, closed, verdict, flags, received, rendered, tally, code>>

Running == outputer \notin {"done", "crashed"}

WorkOnReport(w) ==
    Running /\ (TakeResource(w) \/ ValidateResource(w) \/ SendGroup(w))

ConsumeReport == CollectGroup \/ RenderGroup \/ RenderSorted \/ FinishReport \/ Crash

Ended == ~Running /\ UNCHANGED reportVars

ReportNext ==
    \/ \E w \in Workers : WorkOnReport(w)
    \/ Running /\ CloseOut
    \/ ConsumeReport
    \/ Ended

SweepSpec == StartSweep /\ [][ReportNext]_reportVars

\* Any spec, in any format: resources of any type with any attributes, whose
\* expectations are two levels of combinators, of any width, over the leaves.
Wide(ms) ==
    [k : {"not"}, m : ms] \cup [k : {"with"}, transforms : BOOLEAN, m : ms]
        \cup [k : {"and", "or", "elements"}, ms : Seq(ms)]
Shallow == Simple \cup Wide(Simple)
Wants == Shallow \cup Wide(Shallow) \cup PatternLists \cup {Missing} \cup {EmptyList(s) : s \in Leaves}

AnyAttribute ==
    [want : Wants, atoi : BOOLEAN, get : {"ok", "err", "panic"}, isFalse : BOOLEAN,
     json : {"plain", "unsupported"}]
AnyResource ==
    {r \in [type : Types, skip : BOOLEAN, skipReason : STRING, attrs : Seq(AnyAttribute)] :
        Len(r.attrs) = Len(r.type.props)}

AnySpec ==
    /\ resources \in [Refs -> AnyResource]
    /\ format \in Formats /\ sort \in BOOLEAN

AnySweepSpec == AnySpec /\ SweepSpec

\* Every goroutine that can run does, and every validation returns.
ReportFairness ==
    /\ \A w \in Workers : WF_reportVars(WorkOnReport(w))
    /\ WF_reportVars(Running /\ CloseOut)
    /\ WF_reportVars(ConsumeReport)

-----------------------------------------------------------------------------
(* Properties *)

\* A check passes only if its value was read, its expectation could be built,
\* and the expectation, read as three-valued logic over the whole value, is
\* true; one that fails with no error is false.  An error never becomes a pass
\* through `not`, and a text is never passed on the lines before one too long
\* to read.  (contain-elements swallows its children's errors: set aside.)
PassIsReal ==
    \A r \in Range(received) : \A k \in DOMAIN group[r] :
        LET res == group[r][k]
            a   == resources[r].attrs[res.prop]
        IN  /\ res.result = "SUCCESS" =>
                   /\ a.get = "ok" /\ Built(a.want)
                   /\ Swallows(a.want) \/ Meaning(a.want) = "T"
            /\ res.result = "FAIL" /\ ~res.err =>
                   Swallows(a.want) \/ Meaning(a.want) # "T"

\* Every skip is accounted for: `skip: true` skips the whole resource under
\* the author's reason; otherwise the first result is what skipped the others,
\* it did not pass or it found false, the reason says which, and nothing of
\* that resource is judged after it.
SkipsExplained ==
    \A r \in Range(received) :
        LET rs   == group[r]
            skip == resources[r].skip
        IN  \A k \in DOMAIN rs : rs[k].result = "SKIP" =>
                /\ \A j \in DOMAIN rs : (j > 1 \/ skip) => rs[j].result = "SKIP"
                /\ IF skip THEN rs[k].reason = resources[r].skipReason
                   ELSE /\ rs[1].result # "SKIP"
                        /\ rs[k].reason = IF rs[1].result = "FAIL" \/ rs[1].err
                                          THEN "did not pass" ELSE "is false"
                        /\ rs[1].result = "SUCCESS" => resources[r].attrs[1].isFalse

\* The results of all groups, each by its resource and its place in the group.
AllResults == UNION {{r} \X DOMAIN group[r] : r \in Refs}

Count(P(_)) == Cardinality({x \in AllResults : P(group[x[1]][x[2]])})

\* Whatever order the groups arrive in, sorted or not, the run ends with the
\* counts of its spec, and its exit code is 0 exactly when no check failed and
\* every result could be printed; prometheus always says 0, but the overall
\* outcome it records is fail if a check failed, else pass if one passed, else
\* skip: no group that arrives later undoes it.
TallyExact ==
    outputer = "done" =>
        LET has(v) == Count(LAMBDA x : ToOutcome(x.result) = v) > 0
            green  == /\ ~has("fail")
                      /\ format \in {"json", "structured"} =>
                            Count(LAMBDA x : x.json = "unsupported") = 0
        IN  /\ tally.failed = Count(LAMBDA x : x.result = "FAIL")
            /\ tally.skipped = Count(LAMBDA x : x.result = "SKIP")
            /\ format # "json" => tally.count = Count(LAMBDA x : TRUE)
            /\ (code = 0) = (green \/ format = "prometheus")
            /\ format = "prometheus" =>
                   tally.overall = IF has("fail") THEN "fail" ELSE IF has("pass") THEN "pass"
                                   ELSE IF has("skip") THEN "skip" ELSE "unknown"

\* "a resource always produces at least one result" (resource/resource.go):
\* no group that reaches the outputer is empty.
EveryResourceReports ==
    \A r \in Range(received) : group[r] # <<>>

\* The sweep comes to an end: the outputer returns, or the process dies.
ReportEnds == <>(~Running)

=============================================================================
