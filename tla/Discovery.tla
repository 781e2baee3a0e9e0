----------------------------- MODULE Discovery -----------------------------
(***************************************************************************)
(* The discovery phase (discovery_validate.go): the entries of discovery:  *)
(* are validated by a pool of workers and each verdict is kept under the   *)
(* entry's register, for the templates of the spec to branch on.           *)
(*                                                                         *)
(* work is unbuffered: a send and its receive are one step.  out holds as  *)
(* many verdicts as there are entries.  A discovery section is a function  *)
(* from its resources to their registers; NoRegister is an empty one.      *)
(***************************************************************************)
EXTENDS WorkerPool, Sequences, FiniteSets, Functions

CONSTANT Registers      \* the names an entry can be registered under

VARIABLES
    phase,          \* "off", "range" (collecting) or "over"
    entries,        \* the registers the feeder has not sent yet
    checker,        \* each worker: "take", "validate", "send" or "exit"
    entry, passed,  \* the register a worker holds, and its verdict
    out, outClosed, \* the channel of verdicts
    discovered,     \* the map runDiscoveryEntries builds
    told            \* history: the results each entry's validation gave

discoveryVars == <<phase, entries, checker, entry, passed, out, outClosed, discovered, told>>

NoRegister == "unset"
Empty == [x \in {} |-> x]
Put(f, k, v) == [x \in DOMAIN f \cup {k} |-> IF x = k THEN v ELSE f[x]]

\* What ValidateSafe may return of one entry: a panic is a failure of its own,
\* and a resource without attributes has no result.
Results == {<<>>, <<"SUCCESS", "SKIP">>, <<"FAIL", "SKIP">>}

Passed(results) == "FAIL" \notin Range(results)

DiscoveryOff ==
    /\ phase = "off" /\ entries = {} /\ outClosed = FALSE
    /\ checker = [w \in Workers |-> "exit"]
    /\ entry = [w \in Workers |-> NoRegister] /\ passed = [w \in Workers |-> TRUE]
    /\ out = <<>> /\ discovered = Empty /\ told = Empty

-----------------------------------------------------------------------------
\* Entries: a register is required, and one register is one resource's.
EntriesError(section) ==
    \/ NoRegister \in Range(section)
    \/ ~IsInjective(section)

IsEmpty(section) == DOMAIN section = {}

\* runDiscoveryEntries starts its goroutines.
Discover(section) ==
    /\ phase' = "range"
    /\ entries' = Range(section)
    /\ checker' = [w \in Workers |-> "take"]
    /\ out' = <<>> /\ outClosed' = FALSE /\ discovered' = Empty /\ told' = Empty
    /\ UNCHANGED <<entry, passed>>

CheckerTo(w, label) == checker' = [checker EXCEPT ![w] = label]

\* for entry := range work; the section is a Go map, so any order.
TakeEntry(w) ==
    /\ phase # "off" /\ checker[w] = "take"
    /\ \/ \E r \in entries :
             /\ entries' = entries \ {r}
             /\ entry' = [entry EXCEPT ![w] = r]
             /\ CheckerTo(w, "validate")
       \/ entries = {} /\ CheckerTo(w, "exit") /\ UNCHANGED <<entries, entry>>
    /\ UNCHANGED <<phase, passed, out, outClosed, discovered, told>>

ValidateEntry(w) ==
    /\ checker[w] = "validate"
    /\ \E results \in Results :
          /\ told' = Put(told, entry[w], results)
          /\ passed' = [passed EXCEPT ![w] = Passed(results)]
    /\ CheckerTo(w, "send")
    /\ UNCHANGED <<phase, entries, entry, out, outClosed, discovered>>

SendVerdict(w) ==
    /\ checker[w] = "send"
    /\ ~outClosed
    /\ out' = Append(out, [register |-> entry[w], passed |-> passed[w]])
    /\ CheckerTo(w, "take")
    /\ UNCHANGED <<phase, entries, entry, passed, outClosed, discovered, told>>

CloseOutDrained ==
    /\ phase = "range" /\ ~outClosed
    /\ entries = {}
    /\ outClosed' = TRUE
    /\ UNCHANGED <<phase, entries, checker, entry, passed, out, discovered, told>>

\* wg.Wait(); close(out)
CloseOut ==
    /\ phase = "range" /\ ~outClosed
    /\ \A w \in Workers : checker[w] = "exit"
    /\ outClosed' = TRUE
    /\ UNCHANGED <<phase, entries, checker, entry, passed, out, discovered, told>>

Collect ==
    /\ phase = "range"
    /\ \/ /\ out # <<>>
          /\ discovered' = Put(discovered, Head(out).register, Head(out).passed)
          /\ out' = Tail(out)
          /\ UNCHANGED phase
       \/ /\ out = <<>> /\ outClosed
          /\ phase' = "over"
          /\ UNCHANGED <<discovered, out>>
    /\ UNCHANGED <<entries, checker, entry, passed, outClosed, told>>

Check(w) == TakeEntry(w) \/ ValidateEntry(w) \/ SendVerdict(w)

DiscoveryNext == (\E w \in Workers : Check(w)) \/ CloseOut \/ Collect

\* The loader around it: a section is handed over once it was accepted, and
\* the verdicts are taken when all of them are there.
HandOver ==
    /\ phase = "off"
    /\ \E section : /\ ~EntriesError(section) /\ Range(section) \subseteq Registers
                    /\ Discover(section)

TakeVerdicts ==
    /\ phase = "over" /\ phase' = "off"
    /\ UNCHANGED <<entries, checker, entry, passed, out, outClosed, discovered, told>>

\* Any number of discovery phases, one after the other.
DiscoverySpec == DiscoveryOff /\ [][HandOver \/ DiscoveryNext \/ TakeVerdicts]_discoveryVars

-----------------------------------------------------------------------------
(* Properties *)

\* The verdicts a spec is rendered with are complete and each is its own
\* entry's: whatever order the workers finish in, a register is true exactly
\* when the resource that registered it was validated without a failure.  A
\* verdict that is lost renders the tests behind it away.
VerdictsExact ==
    phase = "over" =>
        /\ DOMAIN discovered = DOMAIN told
        /\ \A r \in DOMAIN told : discovered[r] = ("FAIL" \notin Range(told[r]))
        /\ entries = {} /\ \A w \in Workers : checker[w] = "exit"

=============================================================================
