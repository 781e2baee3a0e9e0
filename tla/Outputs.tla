------------------------------ MODULE Outputs -------------------------------
(***************************************************************************)
(* The outputers (outputs/*.go): each folds the groups of results it       *)
(* receives into counts and an exit code.  The text they print is left     *)
(* out; the counts, the exit code, the overall outcome prometheus records  *)
(* and the places where a group is indexed are kept.                       *)
(***************************************************************************)
EXTENDS Integers, Sequences, FiniteSets, SequencesExt

CONSTANTS Formats       \* the output formats in use

ASSUME FormatsAssumption ==
    Formats \subseteq {"silent", "nagios", "tap", "junit", "rspecish",
                       "documentation", "json", "structured", "prometheus"}

-----------------------------------------------------------------------------
(* Output of each format: does it honour the sort option, does it read the *)
(* first result of every group, must JSON know the value of a result, and  *)
(* what does it return when a check failed                                 *)

Outputer(sorts, indexes, strict, failure) ==
    [sorts |-> sorts, indexes |-> indexes, strict |-> strict, failure |-> failure]

Silent        == Outputer(FALSE, FALSE, FALSE, 1)
Nagios        == Outputer(FALSE, FALSE, FALSE, 2)
Prometheus    == Outputer(FALSE, FALSE, FALSE, 0)
Tap           == Outputer(TRUE, FALSE, FALSE, 1)
JUnit         == Outputer(TRUE, FALSE, FALSE, 1)
Rspecish      == Outputer(TRUE, FALSE, FALSE, 1)
Documentation == Outputer(TRUE, TRUE, FALSE, 1)
Json          == Outputer(TRUE, FALSE, TRUE, 1)
Structured    == Outputer(TRUE, FALSE, TRUE, 1)

GetOutputer(format) ==
    CASE format = "silent"        -> Silent
      [] format = "nagios"        -> Nagios
      [] format = "prometheus"    -> Prometheus
      [] format = "tap"           -> Tap
      [] format = "junit"         -> JUnit
      [] format = "rspecish"      -> Rspecish
      [] format = "documentation" -> Documentation
      [] format = "json"          -> Json
      [] format = "structured"    -> Structured

honoursSort(format) == GetOutputer(format).sorts

\* Does a group reach a results[0] that is not there?  documentation indexes
\* every group; getResults compares the first results of the groups it sorts.
IndexesEmpty(format, sort, groups) ==
    /\ \E i \in DOMAIN groups : groups[i] = <<>>
    /\ \/ GetOutputer(format).indexes
       \/ sort /\ honoursSort(format) /\ Len(groups) > 1

-----------------------------------------------------------------------------
ToOutcome(result) ==
    CASE result = "SUCCESS" -> "pass" [] result = "FAIL" -> "fail" [] result = "SKIP" -> "skip"

canChangeToPass(current, result) ==
    CASE current = "skip" -> TRUE
      [] current = "fail" -> FALSE
      [] current = "pass" -> TRUE
      [] OTHER            -> result = "fail"

canChangeOverallOutcome(current, result) ==
    CASE current = "skip" -> TRUE
      [] current = "fail" -> FALSE
      [] current = "pass" -> result # "skip"
      [] OTHER            -> result = "fail"

NewTally ==
    [count |-> 0, failed |-> 0, skipped |-> 0, renderFailed |-> FALSE,
     seeded |-> FALSE, overall |-> "unknown"]

\* struct2map and marshalJSONSafe: NaN and infinities are rendered as text,
\* a value of a type JSON does not know is not rendered at all.
renders(format, result) == ~GetOutputer(format).strict \/ result.json # "unsupported"

\* The loop of every Output over one group: the counts, and for prometheus
\* the outcome so far of the run, which its first result seeds.
counted(group, P(_)) == Cardinality({k \in DOMAIN group : P(group[k])})

overallNext(o, result) ==
    IF canChangeOverallOutcome(o, ToOutcome(result)) THEN ToOutcome(result) ELSE o

overallAfter(current, seeded, group) ==
    LET start == IF seeded \/ group = <<>> THEN current ELSE ToOutcome(group[1].result)
        after[k \in 0..Len(group)] ==
            IF k = 0 THEN start ELSE overallNext(after[k - 1], group[k].result)
    IN  after[Len(group)]

tallyGroup(format, t, group) ==
    [count        |-> t.count + counted(group, LAMBDA r : format # "json" \/ renders(format, r)),
     failed       |-> t.failed + counted(group, LAMBDA r : r.result = "FAIL"),
     skipped      |-> t.skipped + counted(group, LAMBDA r : r.result = "SKIP"),
     renderFailed |-> t.renderFailed \/ \E k \in DOMAIN group : ~renders(format, group[k]),
     seeded       |-> t.seeded \/ group # <<>>,
     overall      |-> IF format = "prometheus" THEN overallAfter(t.overall, t.seeded, group)
                      ELSE t.overall]

\* What Output returns: json has its failed results counted and its document
\* printed even when one of them could not be rendered, structured prints
\* nothing then; both say 1.
exitCode(format, t) ==
    IF t.failed > 0 \/ t.renderFailed THEN GetOutputer(format).failure ELSE 0

=============================================================================
