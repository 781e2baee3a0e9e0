----------------------------- MODULE MCLookups -----------------------------
(***************************************************************************)
(* How a check learns about the host, one way in each behaviour while the  *)
(* others stay idle: a subprocess and the getter that reads it, a lookup   *)
(* with a timer of its own, or the tables that the checks of a sweep share.*)
(***************************************************************************)
EXTENDS HostLookup, TimedLookup, Snapshots

vars == <<runVars, hostVars, lookupVars, snapVars>>

NoHelper ==
    /\ kind = "none" /\ goos = "posix" /\ Fresh
    /\ getter = "Exists" /\ backend = "init" /\ slashed = FALSE /\ fallback = FALSE
    /\ reply = [val |-> FALSE, err |-> "none"] /\ heard = "nothing"

NoLookup == what = "none" /\ NewLookup

NoChecks ==
    /\ key = [c \in Checks |-> UnknownNetwork] /\ expected = [c \in Checks |-> FALSE]
    /\ host = {} /\ NoSnapshot
    /\ checkPc = [c \in Checks |-> "done"]

Init ==
    \/ (HostInit \/ CommandInit) /\ NoLookup /\ NoChecks
    \/ /\ what \in {"dns", "dnsserver", "dnsrecord", "mount", "http"}
       /\ NewLookup /\ NoHelper /\ NoChecks
    \/ /\ StartChecks(ProcessChecks) \/ StartChecks(PortChecks)
       /\ NoHelper /\ NoLookup

AllJudged == \A c \in Checks : checkPc[c] = "done"

Done ==
    /\ pc = "done" /\ reply # NoReply /\ AllJudged
    /\ what = "none" \/ (at = "idle" /\ Len(replies) = MaxCalls)
    /\ UNCHANGED vars

Next ==
    \/ HostNext /\ UNCHANGED <<lookupVars, snapVars>>
    \/ LookupNext /\ UNCHANGED <<runVars, hostVars, snapVars>>
    \/ ~AllJudged /\ SnapNext /\ UNCHANGED <<runVars, hostVars, lookupVars>>
    \/ Done

Spec == Init /\ [][Next]_vars /\ RunFairness /\ LookupFairness /\ SnapFairness

-----------------------------------------------------------------------------
(* Properties *)

\* Nothing is left waiting, whatever the processes, the resolvers and the file
\* systems asked do: every subprocess returns, every select is left, a
\* goroutine that outlived its call is not blocked on its channel for ever, and
\* no check waits for a table that will not come.
EveryLookupReturns == SubprocessReturns /\ LookupReturns /\ LateAnswersEnd /\ ChecksFinish

=============================================================================
