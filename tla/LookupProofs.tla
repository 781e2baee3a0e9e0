---------------------------- MODULE LookupProofs ----------------------------
(***************************************************************************)
(* What the lookups that a resource's checks share promise.                *)
(*                                                                         *)
(* TimedLookup, for every timeout, every number of attempts and every      *)
(* number of getters: the timeout bounds the whole lookup, and a result    *)
(* without an error is the word of the last attempt.                       *)
(*                                                                         *)
(* Snapshots, for any set of process and port checks: the checks of a kind *)
(* are judged on one snapshot, and a port passes only when that said so.   *)
(***************************************************************************)
EXTENDS TimedLookup, Snapshots, TLAPS

Words == {"found", "empty", "notfound", "error"}

Results == [res : Words \cup {"none"}, heard : SUBSET Words]

\* An answer says what was heard; only an error says nothing of the host.
Honest(o) ==
    /\ o.res \in Words
    /\ o.res # "error" =>
        /\ o.heard \cap {"found", "empty", "notfound"} # {}
        /\ o.res = "found" <=> "found" \in o.heard

LookupTypeInv ==
    /\ LookupTypeOK
    /\ what # "none"
    /\ sent \in [A -> Results] /\ chan \in [A -> Results]
    /\ replies \in Seq({found})

\* What the goroutines have to say, and what they have said.
QueryInv ==
    \A i \in A :
        /\ query[i] = "back" => Honest(sent[i])
        /\ chan[i] # Nothing => Honest(chan[i])

\* The result of the last attempt, as setup left it.
Settled ==
    found.err = "nil" =>
        /\ attempt \in A
        /\ chan[attempt] # Nothing /\ chan[attempt].res # "error"
        /\ found.val <=> chan[attempt].res = "found"

\* Where a call is, and what it knows there.  A loop that has not started is at
\* time 0 and has no error; one that goes on does so for dns only.
FlowInv ==
    /\ ~loaded => at = "idle" /\ attempt = 0 /\ ~found.val
    /\ ~loaded \/ at # "idle" => replies = <<>>
    /\ at # "idle" => MaxCalls > 0
    /\ loaded /\ at \in {"idle", "return"} => Settled
    /\ at = "usage" => what = "mount" /\ found.err = "nil" /\ Settled
    /\ at = "loop" =>
        \/ attempt = 0
        \/ IsDNS /\ Settled
    /\ at = "select" => attempt \in A

ClockInv ==
    /\ attempt = 0 => clock = 0
    /\ at \in {"loop", "select"} \/ what # "mount" => clock <= LookupTimeout
    /\ at = "select" => due = LookupTimeout

LookupInv == LookupTypeInv /\ QueryInv /\ FlowInv /\ ClockInv

-----------------------------------------------------------------------------
(* Results *)

\* The parts of what setup keeps.
LEMMA FoundFact ==
    ASSUME NEW v, NEW e PROVE Found(v, e).val = v /\ Found(v, e).err = e
BY DEF Found

\* An empty channel is not an answer.
LEMMA NothingFact == Nothing \in Results /\ Nothing.res = "none" /\ ~Honest(Nothing)
BY DEF Nothing, Results, Words, Honest

\* A resolver's answer to one question.
LEMMA RecordFact == LookupRecord \subseteq {"found", "empty", "error"}
BY DEF LookupRecord, exchange

\* Whatever a query comes back with, its result is what it heard.
LEMMA OutcomesFact ==
    ASSUME NEW o \in Outcomes, what \in {"dns", "dnsserver", "dnsrecord", "mount", "http"}
    PROVE  o \in Results /\ Honest(o) /\ o # Nothing
<1>1. ASSUME NEW r \in Words PROVE Answers(r, {r}) \in Results /\ Honest(Answers(r, {r}))
    BY <1>1 DEF Answers, Results, Honest, Words
<1>2. ASSUME NEW a \in LookupRecord, NEW b \in LookupRecord
      PROVE  /\ Answers(LookupHost(a, b), {a, b}) \in Results
             /\ Honest(Answers(LookupHost(a, b), {a, b}))
    BY <1>2, RecordFact DEF Answers, Results, Honest, Words, LookupHost
<1>3. o \in Results /\ Honest(o)
  <2>1. CASE what = "dnsserver"
    <3>1. \/ \E a, b \in LookupRecord : o = Answers(LookupHost(a, b), {a, b})
          \/ o = Answers("error", {"error"})
        BY <2>1 DEF Outcomes
    <3>2. "error" \in Words
        BY DEF Words
    <3>3. CASE o = Answers("error", {"error"})
        BY <1>1, <3>2, <3>3
    <3>4. CASE \E a, b \in LookupRecord : o = Answers(LookupHost(a, b), {a, b})
        BY <1>2, <3>4
    <3>5. QED
        BY <3>1, <3>3, <3>4
  <2>2. CASE what = "dnsrecord"
    <3>1. o \in {Answers(r, {r}) : r \in LookupRecord}
        BY <2>2 DEF Outcomes
    <3>2. LookupRecord \subseteq Words
        BY RecordFact DEF Words
    <3>3. QED
        BY <1>1, <3>1, <3>2
  <2>3. CASE what \in {"dns", "mount", "http"}
    <3>1. o \in {Answers(r, {r}) : r \in {"found", "notfound", "error"}}
        BY <2>3 DEF Outcomes
    <3>2. QED
        BY <1>1, <3>1 DEF Words
  <2>4. QED
    BY <2>1, <2>2, <2>3
<1>4. QED
    BY <1>3, NothingFact

\* What setup keeps of a result.
LEMMA DecideFact ==
    ASSUME NEW r, Decide(r)
    PROVE  /\ found'.val \in BOOLEAN
           /\ found'.val <=> r = "found"
           /\ IsDNS => /\ found'.err = IF r \in {"error", "timeout"} THEN r ELSE "nil"
                       /\ at' = IF r \in {"found", "notfound"} THEN "return" ELSE "loop"
           /\ ~IsDNS => /\ found'.err = IF r = "found" THEN "nil" ELSE r
                        /\ at' = IF r = "found" /\ what = "mount" THEN "usage" ELSE "return"
<1>1. CASE IsDNS
  <2>1. found' = Found(r = "found", IF r \in {"error", "timeout"} THEN r ELSE "nil")
    BY <1>1, Zenon DEF Decide, DecideDNS
  <2>2. at' = IF r \in {"found", "notfound"} THEN "return" ELSE "loop"
    BY <1>1, Zenon DEF Decide, DecideDNS
  <2>3. found'.val = (r = "found")
    BY <2>1, FoundFact, Zenon
  <2>4. found'.err = IF r \in {"error", "timeout"} THEN r ELSE "nil"
    BY <2>1, FoundFact, Zenon
  <2>5. QED
    BY <1>1, <2>2, <2>3, <2>4, Zenon
<1>2. CASE ~IsDNS
  <2>1. found' = Found(r = "found", IF r = "found" THEN "nil" ELSE r)
    BY <1>2, Zenon DEF Decide, DecideOther
  <2>2. at' = IF r = "found" /\ what = "mount" THEN "usage" ELSE "return"
    BY <1>2, Zenon DEF Decide, DecideOther
  <2>3. found'.val = (r = "found")
    BY <2>1, FoundFact, Zenon
  <2>4. found'.err = IF r = "found" THEN "nil" ELSE r
    BY <2>1, FoundFact, Zenon
  <2>5. QED
    BY <1>2, <2>2, <2>3, <2>4, Zenon
<1>3. QED
    BY <1>1, <1>2

-----------------------------------------------------------------------------
(* The steps of a lookup *)

LookupInit == what \in {"dns", "dnsserver", "dnsrecord", "mount", "http"} /\ NewLookup

\* A lookup that no getter has asked for yet is within the invariant.
LEMMA LookupInitInv == LookupInit => LookupInv
<1> SUFFICES ASSUME LookupInit PROVE LookupInv
    OBVIOUS
<1> USE LookupAssumption DEF LookupInit, NewLookup
<1>1. PICK e : found = Found(FALSE, e)
    OBVIOUS
<1>2. found.val = FALSE
    BY <1>1, FoundFact, Zenon
<1>3. found.val \in BOOLEAN /\ ~found.val
    BY <1>2, Zenon
<1>4. LookupTypeInv
  <2>1. clock \in 0..LookupHorizon /\ attempt \in 0..MaxAttempts /\ due \in Nat
    OBVIOUS
  <2>2. query \in [A -> {"off", "asking", "back", "ended"}] /\ loaded \in BOOLEAN
    OBVIOUS
  <2>3. replies \in Seq({found}) /\ Len(replies) <= MaxCalls
    OBVIOUS
  <2>4. sent \in [A -> Results] /\ chan \in [A -> Results]
    BY NothingFact
  <2>5. QED
    BY <1>3, <2>1, <2>2, <2>3, <2>4, Zenon DEF LookupTypeInv, LookupTypeOK
<1>5. QueryInv
    BY DEF QueryInv
<1>6. FlowInv
    BY <1>3 DEF FlowInv
<1>7. ClockInv
    BY DEF ClockInv
<1>8. QED
    BY <1>4, <1>5, <1>6, <1>7 DEF LookupInv

\* A lookup stays the lookup it is.
LEMMA LookupFrame == ASSUME LookupNext PROVE what' = what
BY DEF LookupNext, CallGetter, ReturnLookup, RefuseEarly, StartAttempt, Receive, TimeOut,
    GetUsage, LookupTick, QueryReturns, SendResult

\* Every step keeps the types, and a getter never returns more than there were calls.
LEMMA LookupTypeStep == ASSUME LookupInv, LookupNext PROVE LookupTypeInv'
<1> USE LookupAssumption DEF LookupInv, LookupTypeInv, LookupTypeOK
<1>1. what' \in {"dns", "dnsserver", "dnsrecord", "mount", "http", "none"} /\ what' # "none"
    BY LookupFrame
<1>2. clock' \in 0..LookupHorizon
  <2>1. CASE LookupTick
    BY <2>1 DEF LookupTick
  <2>2. CASE clock' = clock
    BY <2>2
  <2>3. QED
    BY <2>1, <2>2, Zenon DEF LookupNext, CallGetter, ReturnLookup, RefuseEarly, StartAttempt,
        Receive, TimeOut, GetUsage, QueryReturns, SendResult
<1>3. attempt' \in 0..MaxAttempts /\ due' \in Nat
  <2>1. CASE StartAttempt
    BY <2>1 DEF StartAttempt, attemptBudget
  <2>2. CASE UNCHANGED <<attempt, due>>
    BY <2>2
  <2>3. QED
    BY <2>1, <2>2, Zenon DEF LookupNext, CallGetter, ReturnLookup, RefuseEarly, LookupTick,
        Receive, TimeOut, GetUsage, QueryReturns, SendResult
<1>4. query' \in [A -> {"off", "asking", "back", "ended"}]
    BY DEF LookupNext, CallGetter, ReturnLookup, RefuseEarly, StartAttempt, Receive, TimeOut,
        GetUsage, LookupTick, QueryReturns, SendResult
<1>5. sent' \in [A -> Results] /\ chan' \in [A -> Results]
    BY OutcomesFact DEF LookupNext, CallGetter, ReturnLookup, RefuseEarly, StartAttempt, Receive,
        TimeOut, GetUsage, LookupTick, QueryReturns, SendResult
<1>6. at' \in {"idle", "loop", "select", "usage", "return"}
  <2>1. CASE Receive \/ TimeOut
    <3>1. PICK r : Decide(r)
        BY <2>1 DEF Receive, TimeOut
    <3>2. QED
        BY <3>1, DecideFact
  <2>2. CASE ~(Receive \/ TimeOut)
    BY <2>2 DEF LookupNext, CallGetter, ReturnLookup, RefuseEarly, StartAttempt,
        GetUsage, LookupTick, QueryReturns, SendResult
  <2>3. QED
    BY <2>1, <2>2
<1>7. loaded' \in BOOLEAN
    BY Zenon DEF LookupNext, CallGetter, ReturnLookup, RefuseEarly, StartAttempt, Receive, TimeOut,
        GetUsage, LookupTick, QueryReturns, SendResult
<1>8. found'.val \in BOOLEAN
  <2>1. CASE Receive \/ TimeOut
    <3>1. PICK r : Decide(r)
        BY <2>1 DEF Receive, TimeOut
    <3>2. QED
        BY <3>1, DecideFact
  <2>2. CASE found' \in {found, Found(FALSE, "refused"), Found(TRUE, "usage")}
    <3>1. Found(FALSE, "refused").val = FALSE /\ Found(TRUE, "usage").val = TRUE
        BY FoundFact, Zenon
    <3>2. found.val \in BOOLEAN
        OBVIOUS
    <3> HIDE DEF LookupInv
    <3>3. QED
        BY <2>2, <3>1, <3>2, Zenon
  <2>3. CASE GetUsage
    BY <2>2, <2>3, Zenon DEF GetUsage
  <2>4. CASE RefuseEarly
    BY <2>2, <2>4, Zenon DEF RefuseEarly
  <2>5. CASE found' = found
    BY <2>2, <2>5
  <2>6. QED
    BY <2>1, <2>3, <2>4, <2>5, Zenon DEF LookupNext, CallGetter, ReturnLookup, StartAttempt,
        LookupTick, QueryReturns, SendResult
<1>9. replies' \in Seq({found'}) /\ Len(replies') <= MaxCalls
  <2>1. CASE replies = <<>> /\ replies' = replies
    BY <2>1
  <2>2. CASE CallGetter /\ loaded
    <3>1. replies' = Append(replies, found) /\ found' = found /\ Len(replies) < MaxCalls
        BY <2>2 DEF CallGetter, setupAgain
    <3>2. QED
        BY <3>1
  <2>3. CASE ReturnLookup
    <3>1. replies' = Append(<<>>, found) /\ found' = found /\ MaxCalls > 0
        BY <2>3 DEF ReturnLookup, FlowInv
    <3>2. QED
        BY <3>1
  <2>4. CASE found' = found /\ replies' = replies
    BY <2>4
  <2>5. QED
    BY <2>1, <2>2, <2>3, <2>4 DEF FlowInv, LookupNext, CallGetter, RefuseEarly, StartAttempt,
        Receive, TimeOut, GetUsage, LookupTick, QueryReturns, SendResult
<1> HIDE DEF LookupInv
<1>10. QED
    BY <1>1, <1>2, <1>3, <1>4, <1>5, <1>6, <1>7, <1>8, <1>9, Zenon

\* Every step keeps what the goroutines say honest.
LEMMA QueryStep == ASSUME LookupInv, LookupNext PROVE QueryInv'
<1> USE DEF LookupInv, LookupTypeInv, LookupTypeOK, QueryInv
<1>1. CASE \E i \in A : QueryReturns(i)
    BY <1>1, OutcomesFact DEF QueryReturns
<1>2. CASE \E i \in A : SendResult(i)
    BY <1>2 DEF SendResult
<1>3. CASE /\ UNCHANGED <<sent, chan>>
           /\ \A i \in A : query'[i] = "back" => query[i] = "back"
    BY <1>3
<1>4. CASE StartAttempt
    BY <1>4, <1>3 DEF StartAttempt
<1>5. CASE TimeOut
    BY <1>5, <1>3 DEF TimeOut
<1>6. QED
    BY <1>1, <1>2, <1>3, <1>4, <1>5 DEF LookupNext, CallGetter, ReturnLookup, RefuseEarly,
        Receive, GetUsage, LookupTick

\* A result that has been received stays in its channel.
LEMMA ChanFact ==
    ASSUME LookupInv, LookupNext, NEW i \in A, chan[i] # Nothing
    PROVE  chan'[i] = chan[i]
BY DEF LookupInv, LookupTypeInv, LookupNext, CallGetter, ReturnLookup, RefuseEarly, StartAttempt, Receive,
    TimeOut, GetUsage, LookupTick, QueryReturns, SendResult, CanSend

\* A settled lookup stays settled while its result and its attempt stay.
LEMMA SettledFact ==
    ASSUME LookupInv, LookupNext, Settled, UNCHANGED <<found, attempt>>
    PROVE  Settled'
BY ChanFact DEF Settled

\* What select takes from the channel settles the lookup, or dns asks again.
LEMMA ReceiveStep == ASSUME LookupInv, Receive PROVE FlowInv'
<1> DEFINE r == chan[attempt].res
<1>1. /\ at = "select" /\ attempt \in A /\ chan[attempt] # Nothing /\ Decide(r)
      /\ UNCHANGED <<what, attempt, chan, loaded, replies>>
    BY DEF Receive, LookupInv, FlowInv
<1>2. Honest(chan[attempt])
    BY <1>1 DEF LookupInv, QueryInv
<1>3. r \in Words
    BY <1>2 DEF Honest
<1>4. loaded /\ replies = <<>> /\ MaxCalls > 0
    BY <1>1 DEF LookupInv, FlowInv
<1>5. found'.err = "nil" => r # "error"
    BY <1>1, DecideFact DEF IsDNS
<1>6. found'.val <=> r = "found"
    BY <1>1, DecideFact
<1>7. Settled'
    BY <1>1, <1>5, <1>6 DEF Settled
<1>8. at' = "usage" => what = "mount" /\ found'.err = "nil"
    BY <1>1, DecideFact DEF IsDNS
<1>9. at' = "loop" => IsDNS'
    BY <1>1, DecideFact DEF IsDNS
<1>10. at' \in {"return", "loop", "usage"}
    BY <1>1, DecideFact
<1>11. QED
    BY <1>1, <1>4, <1>7, <1>8, <1>9, <1>10 DEF FlowInv

\* A timeout is kept as an error, or dns asks again.
LEMMA TimeOutStep == ASSUME LookupInv, TimeOut PROVE FlowInv'
<1>1. /\ at = "select" /\ attempt \in A /\ Decide("timeout")
      /\ UNCHANGED <<what, attempt, chan, loaded, replies>>
    BY DEF TimeOut, LookupInv, FlowInv
<1>2. loaded /\ replies = <<>> /\ MaxCalls > 0
    BY <1>1 DEF LookupInv, FlowInv
<1>3. found'.err = "timeout"
    BY <1>1, DecideFact
<1>4. Settled'
    BY <1>3 DEF Settled
<1>5. at' = "loop" => IsDNS'
    BY <1>1, DecideFact DEF IsDNS
<1>6. at' \in {"return", "loop"}
    BY <1>1, DecideFact
<1>7. QED
    BY <1>1, <1>2, <1>4, <1>5, <1>6 DEF FlowInv

\* Every step leaves a call where its result is known.
LEMMA FlowStep == ASSUME LookupInv, LookupNext PROVE FlowInv'
<1> USE LookupAssumption
<1>1. CASE CallGetter
  <2>1. CASE loaded
    <3>1. UNCHANGED <<at, loaded, what, attempt, found>> /\ at = "idle"
        BY <1>1, <2>1 DEF CallGetter
    <3>2. Settled'
        BY <2>1, <3>1, SettledFact DEF LookupInv, FlowInv
    <3>3. QED
        BY <2>1, <3>1, <3>2 DEF FlowInv
  <2>2. CASE ~loaded
    <3>1. /\ UNCHANGED <<what, attempt, found, replies>>
          /\ loaded' /\ at' = IF found.err = "nil" THEN "loop" ELSE "return"
          /\ Len(replies) < MaxCalls
        BY <1>1, <2>2 DEF CallGetter
    <3>2. attempt = 0 /\ replies = <<>>
        BY <2>2 DEF LookupInv, FlowInv
    <3>3. MaxCalls > 0
        BY <3>1, <3>2
    <3>4. at' = "return" => Settled'
        BY <3>1 DEF Settled
    <3>5. at' \in {"loop", "return"}
        BY <3>1
    <3>6. QED
        BY <3>1, <3>2, <3>3, <3>4, <3>5 DEF FlowInv
  <2>3. QED
    BY <2>1, <2>2
<1>2. CASE ReturnLookup
  <2>1. UNCHANGED <<what, attempt, found, loaded>> /\ at = "return" /\ at' = "idle"
    BY <1>2 DEF ReturnLookup
  <2>2. loaded /\ Settled
    BY <2>1 DEF LookupInv, FlowInv
  <2>3. Settled'
    BY <2>1, <2>2, SettledFact
  <2>4. QED
    BY <2>1, <2>2, <2>3 DEF FlowInv
<1>3. CASE RefuseEarly
  <2>1. /\ UNCHANGED <<what, attempt, loaded, replies>> /\ at = "loop" /\ at' = "return"
        /\ found' = Found(FALSE, "refused")
    BY <1>3 DEF RefuseEarly
  <2>2. loaded /\ replies = <<>> /\ MaxCalls > 0
    BY <2>1 DEF LookupInv, FlowInv
  <2>3. found'.err = "refused"
    BY <2>1, FoundFact, Zenon
  <2>4. Settled'
    BY <2>3 DEF Settled
  <2>5. QED
    BY <2>1, <2>2, <2>4 DEF FlowInv
<1>4. CASE StartAttempt
  <2>1. /\ UNCHANGED <<what, found, loaded, replies>> /\ at = "loop" /\ at' \in {"select", "return"}
        /\ at' = "select" => attempt' = attempt + 1 /\ attempt < MaxAttempts
        /\ at' = "return" => UNCHANGED attempt
        /\ attempt = 0 => at' = "select"
    BY <1>4 DEF StartAttempt, attemptBudget, LookupInv, LookupTypeInv, LookupTypeOK
  <2>2. loaded /\ replies = <<>> /\ MaxCalls > 0
    BY <2>1 DEF LookupInv, FlowInv
  <2>3. at' = "select" => attempt' \in A
    BY <2>1 DEF A, LookupInv, LookupTypeInv, LookupTypeOK
  <2>4. at' = "return" => Settled'
    BY <2>1, SettledFact DEF LookupInv, FlowInv
  <2>5. QED
    BY <2>1, <2>2, <2>3, <2>4 DEF FlowInv
<1>5. CASE Receive
    BY <1>5, ReceiveStep
<1>6. CASE TimeOut
    BY <1>6, TimeOutStep
<1>7. CASE GetUsage
  <2>1. /\ UNCHANGED <<what, attempt, loaded, replies>> /\ at = "usage" /\ at' = "return"
        /\ found' \in {found, Found(TRUE, "usage")}
    BY <1>7, Zenon DEF GetUsage
  <2>2. loaded /\ replies = <<>> /\ MaxCalls > 0 /\ Settled
    BY <2>1 DEF LookupInv, FlowInv
  <2>3. Settled'
    <3>1. CASE found' = found
        BY <2>1, <2>2, <3>1, SettledFact
    <3>2. CASE found' = Found(TRUE, "usage")
        BY <3>2, FoundFact DEF Settled
    <3>3. QED
        BY <2>1, <3>1, <3>2, Zenon
  <2>4. QED
    BY <2>1, <2>2, <2>3 DEF FlowInv
<1>8. CASE LookupTick \/ \E i \in A : QueryReturns(i) \/ SendResult(i)
  <2>1. UNCHANGED <<what, at, attempt, loaded, replies, found>>
    BY <1>8 DEF LookupTick, QueryReturns, SendResult
  <2>2. Settled => Settled'
    BY <2>1, SettledFact
  <2>3. QED
    BY <2>1, <2>2 DEF LookupInv, FlowInv, IsDNS
<1>9. QED
    BY <1>1, <1>2, <1>3, <1>4, <1>5, <1>6, <1>7, <1>8 DEF LookupNext

\* No step takes more time than the timeout leaves, but the usage of a mount.
LEMMA ClockStep == ASSUME LookupInv, LookupNext PROVE ClockInv'
<1> USE LookupAssumption
<1>1. CASE LookupTick
    BY <1>1 DEF LookupTick, LookupInv, ClockInv, FlowInv, LookupTypeInv, LookupTypeOK, A, Settled
<1>2. CASE StartAttempt
    BY <1>2 DEF StartAttempt, attemptBudget, LookupInv, ClockInv, LookupTypeInv, LookupTypeOK
<1>3. CASE ~LookupTick /\ ~StartAttempt
  <2>1. UNCHANGED <<clock, attempt, due, what>> /\ at' \in {at, "idle", "return", "loop", "usage"}
    <3>1. CASE Receive \/ TimeOut
      <4>1. PICK r : Decide(r)
        BY <3>1 DEF Receive, TimeOut
      <4>2. at' \in {"return", "loop", "usage"}
        BY <4>1, DecideFact
      <4>3. QED
        BY <3>1, <4>2, Zenon DEF Receive, TimeOut
    <3>2. CASE ~(Receive \/ TimeOut)
      BY <1>3, <3>2 DEF LookupNext, CallGetter, ReturnLookup, RefuseEarly, GetUsage,
        QueryReturns, SendResult
    <3>3. QED
      BY <3>1, <3>2
  <2>2. at' = "loop" => at = "loop" \/ at = "select" \/ attempt = 0
    BY <1>3 DEF LookupNext, CallGetter, ReturnLookup, RefuseEarly, GetUsage, Receive, TimeOut,
        QueryReturns, SendResult, LookupInv, FlowInv
  <2>3. QED
    BY <2>1, <2>2 DEF LookupInv, ClockInv
<1>4. QED
    BY <1>1, <1>2, <1>3

\* The invariant is inductive.
LEMMA LookupNextInv == LookupInv /\ [LookupNext]_lookupVars => LookupInv'
<1> SUFFICES ASSUME LookupInv, [LookupNext]_lookupVars PROVE LookupInv'
    OBVIOUS
<1>1. CASE LookupNext
    BY <1>1, LookupTypeStep, QueryStep, FlowStep, ClockStep DEF LookupInv
<1>2. CASE UNCHANGED lookupVars
    BY <1>2 DEF lookupVars, LookupInv, LookupTypeInv, LookupTypeOK, QueryInv, FlowInv, ClockInv, Settled, IsDNS
<1>3. QED
    BY <1>1, <1>2

-----------------------------------------------------------------------------
(* What a lookup promises *)

\* Every lookup, however many getters ask for it, only reaches states of LookupInv.
THEOREM LookupInvCorrect == LookupSpec => []LookupInv
<1>1. LookupSpec => LookupInit /\ [][LookupNext]_lookupVars
    BY DEF LookupSpec, LookupInit
<1>2. QED
    BY <1>1, LookupInitInv, LookupNextInv, PTL

\* The timeout of a resource bounds its lookup, all its attempts together,
\* whatever the timeout and the number of attempts are.
THEOREM BudgetCorrect == LookupSpec => []WithinBudget
<1>1. LookupInv => WithinBudget
    BY DEF LookupInv, ClockInv, WithinBudget
<1>2. QED
    BY <1>1, LookupInvCorrect, PTL

\* A result without an error is what the last attempt heard in time, and every
\* getter of the resource is told the same.
THEOREM SettledCorrect == LookupSpec => []SettledByAnAnswer
<1>1. LookupInv => SettledByAnAnswer
  <2> SUFFICES ASSUME LookupInv PROVE SettledByAnAnswer
    OBVIOUS
  <2>1. ASSUME at = "idle", loaded, found.err = "nil"
        PROVE  /\ chan[attempt].heard \cap {"found", "empty", "notfound"} # {}
               /\ found.val <=> "found" \in chan[attempt].heard
    <3>1. Settled
        BY <2>1 DEF LookupInv, FlowInv
    <3>2. attempt \in A /\ Honest(chan[attempt]) /\ chan[attempt].res # "error"
        BY <2>1, <3>1 DEF Settled, LookupInv, QueryInv
    <3>3. QED
        BY <2>1, <3>1, <3>2 DEF Settled, Honest
  <2>2. \A i, j \in 1..Len(replies) : replies[i] = replies[j]
    <3>1. \A i \in 1..Len(replies) : replies[i] = found
        BY DEF LookupInv, LookupTypeInv
    <3>2. QED
        BY <3>1
  <2>3. QED
    BY <2>1, <2>2 DEF SettledByAnAnswer
<1>2. QED
    BY <1>1, LookupInvCorrect, PTL

-----------------------------------------------------------------------------
(* The inductive invariant of the snapshots *)

SnapTypeOK ==
    /\ key \in [Checks -> Executables \cup Sockets \cup {UnknownNetwork}]
    /\ expected \in [Checks -> BOOLEAN]
    /\ procOnce \in {"new", "running", "done"}
    /\ portsOnce \in {"new", "running", "done"}
    /\ portsErr \in BOOLEAN /\ portsFailed \in BOOLEAN
    /\ checkPc \in [Checks -> {"new", "lookup", "judge", "done"}]
    /\ checkErr \in [Checks -> BOOLEAN]
    /\ held \in [Checks -> BOOLEAN]
    /\ result \in [Checks -> {"none", "SUCCESS", "FAIL"}]

Served(c) == checkPc[c] \in {"judge", "done"}

\* procOnce admits one caller, and lets no other pass before it is done.
ProcOnceInv ==
    /\ \A c \in ProcessChecks : checkPc[c] = "lookup" => procOnce = "running"
    /\ \A c, d \in ProcessChecks : checkPc[c] = "lookup" /\ checkPc[d] = "lookup" => c = d
    /\ \A c \in ProcessChecks : Served(c) => procOnce = "done"

\* So does portsOnce; whoever it serves has the snapshot's error.
PortsOnceInv ==
    /\ \A c \in PortChecks : checkPc[c] = "lookup" =>
          portsOnce = "running" /\ key[c] # UnknownNetwork
    /\ \A c, d \in PortChecks : checkPc[c] = "lookup" /\ checkPc[d] = "lookup" => c = d
    /\ \A c \in PortChecks : Served(c) =>
          IF key[c] = UnknownNetwork THEN checkErr[c]
          ELSE portsOnce = "done" /\ checkErr[c] = portsErr
    /\ portsErr = portsFailed
    /\ portsOnce = "done" /\ ~portsErr => ports = listening \ unopened

\* A check that is judged keeps what its table held of its key, for ever.
JudgedInv ==
    /\ \A c \in ProcessChecks : checkPc[c] = "done" /\ ~checkErr[c] =>
          held[c] = (key[c] \in procMap)
    /\ \A c \in PortChecks : checkPc[c] = "done" /\ ~checkErr[c] =>
          held[c] = (key[c] \in ports)
    /\ \A c \in Checks : result[c] = "SUCCESS" =>
          checkPc[c] = "done" /\ ~checkErr[c] /\ held[c] = expected[c]

SnapInv == SnapTypeOK /\ ProcOnceInv /\ PortsOnceInv /\ JudgedInv

\* A sweep that starts with a new System satisfies SnapInv.
LEMMA SnapInitInv == SnapInit => SnapInv
BY DEF SnapInit, StartChecks, NoSnapshot, SnapInv, SnapTypeOK, ProcOnceInv, PortsOnceInv,
    JudgedInv, Served, Checks

\* What the checks do to the process table keeps SnapInv.
LEMMA ProcInv ==
    ASSUME SnapInv, NEW c \in Checks, ProcMapFirst(c) \/ GetProcs(c) \/ ProcMapLater(c)
    PROVE  SnapInv'
<1> USE ChecksAssumption DEF SnapInv, SnapTypeOK, Checks, CheckTo, specVars, procMapVars, portsVars, portsSeen
<1>0. c \in ProcessChecks /\ c \notin PortChecks
    BY DEF ProcMapFirst, GetProcs, ProcMapLater
<1>1. CASE ProcMapFirst(c)
    BY <1>0, <1>1 DEF ProcMapFirst, ProcOnceInv, PortsOnceInv, JudgedInv, Served
<1>2. CASE GetProcs(c)
  <2>1. \A d \in ProcessChecks : ~Served(d) /\ (d # c => checkPc[d] # "lookup")
    BY <1>2 DEF GetProcs, ProcOnceInv
  <2>2. PICK failed \in BOOLEAN : checkErr' = [checkErr EXCEPT ![c] = failed]
    BY <1>2 DEF GetProcs
  <2>3. SnapTypeOK'
    BY <1>2, <2>2 DEF GetProcs
  <2>4. ProcOnceInv'
    BY <1>0, <1>2, <2>1 DEF GetProcs, ProcOnceInv, Served
  <2>5. PortsOnceInv'
    BY <1>0, <1>2, <2>2 DEF GetProcs, PortsOnceInv, Served
  <2>6. JudgedInv'
    BY <1>0, <1>2, <2>1, <2>2 DEF GetProcs, JudgedInv, Served
  <2>7. QED
    BY <2>3, <2>4, <2>5, <2>6
<1>3. CASE ProcMapLater(c)
    BY <1>0, <1>3 DEF ProcMapLater, ProcOnceInv, PortsOnceInv, JudgedInv, Served
<1>4. QED
    BY <1>1, <1>2, <1>3

\* What the checks do to the connection table keeps SnapInv.
LEMMA PortsInv ==
    ASSUME SnapInv, NEW c \in Checks,
           RejectNetwork(c) \/ PortsFirst(c) \/ GetPorts(c) \/ PortsLater(c)
    PROVE  SnapInv'
<1> USE ChecksAssumption DEF SnapInv, SnapTypeOK, Checks, CheckTo, specVars, procMapVars, portsVars, portsSeen
<1>0. c \in PortChecks /\ c \notin ProcessChecks
    BY DEF RejectNetwork, PortsFirst, GetPorts, PortsLater
<1>1. CASE RejectNetwork(c)
  <2>1. SnapTypeOK'
    BY <1>1 DEF RejectNetwork
  <2>2. ProcOnceInv' /\ JudgedInv'
    BY <1>0, <1>1 DEF RejectNetwork, ProcOnceInv, JudgedInv, Served
  <2>3. PortsOnceInv'
    BY <1>0, <1>1 DEF RejectNetwork, PortsOnceInv, Served
  <2>4. QED
    BY <2>1, <2>2, <2>3
<1>2. CASE PortsFirst(c)
    BY <1>0, <1>2 DEF PortsFirst, ProcOnceInv, PortsOnceInv, JudgedInv, Served
<1>3. CASE GetPorts(c)
  <2>1. \A d \in PortChecks : /\ Served(d) => key[d] = UnknownNetwork /\ checkErr[d]
                              /\ d # c => checkPc[d] # "lookup"
    BY <1>3 DEF GetPorts, PortsOnceInv
  <2>2. PICK failed \in BOOLEAN : /\ checkErr' = [checkErr EXCEPT ![c] = failed]
                                  /\ portsErr' = failed
                                  /\ portsFailed' = failed
                                  /\ ~failed => ports' = listening' \ unopened'
    <3>1. PICK absent, bad \in SUBSET Sockets : \E lost \in SUBSET bad :
              /\ ports' = (host \cap Sockets) \ (absent \cup lost)
              /\ unopened' = absent
              /\ portsErr' = (bad # {})
              /\ checkErr' = [checkErr EXCEPT ![c] = (bad # {})]
              /\ portsFailed' = (bad # {})
        BY <1>3 DEF GetPorts
    <3>2. listening' = host \cap Sockets
        BY <1>3 DEF GetPorts
    <3>3. QED
        BY <3>1, <3>2
  <2>3. SnapTypeOK'
    BY <1>3, <2>2 DEF GetPorts
  <2>4. ProcOnceInv'
    BY <1>0, <1>3 DEF GetPorts, ProcOnceInv, Served
  <2>5. PortsOnceInv'
    BY <1>0, <1>3, <2>1, <2>2 DEF GetPorts, PortsOnceInv, Served
  <2>6. JudgedInv'
    BY <1>0, <1>3, <2>1, <2>2 DEF GetPorts, JudgedInv, Served
  <2>7. QED
    BY <2>3, <2>4, <2>5, <2>6
<1>4. CASE PortsLater(c)
    BY <1>0, <1>4 DEF PortsLater, ProcOnceInv, PortsOnceInv, JudgedInv, Served
<1>5. QED
    BY <1>1, <1>2, <1>3, <1>4

\* Every step of the checks and of the host keeps SnapInv.
LEMMA SnapNextInv == SnapInv /\ [SnapNext]_snapVars => SnapInv'
<1> SUFFICES ASSUME SnapInv, [SnapNext]_snapVars PROVE SnapInv'
    OBVIOUS
<1> USE DEF SnapInv, SnapTypeOK, specVars, procMapVars, portsVars, portsSeen
<1>1. CASE HostChanges
    BY <1>1 DEF HostChanges, ProcOnceInv, PortsOnceInv, JudgedInv, Served
<1>2. ASSUME NEW c \in Checks, JudgeCheck(c) PROVE SnapInv'
  <2> USE ChecksAssumption DEF Checks, CheckTo
  <2>1. SnapTypeOK'
    BY <1>2 DEF JudgeCheck
  <2>2. ProcOnceInv'
    BY <1>2 DEF JudgeCheck, ProcOnceInv, Served
  <2>3. PortsOnceInv'
    BY <1>2 DEF JudgeCheck, PortsOnceInv, Served
  <2>4. JudgedInv'
    BY <1>2 DEF JudgeCheck, JudgedInv
  <2>5. QED
    BY <2>1, <2>2, <2>3, <2>4
<1>3. CASE UNCHANGED snapVars
    BY <1>3 DEF snapVars, ProcOnceInv, PortsOnceInv, JudgedInv, Served
<1>4. QED
    BY <1>1, <1>2, <1>3, ProcInv, PortsInv DEF SnapNext, Check

-----------------------------------------------------------------------------
(* What the shared tables promise *)

\* A sweep's checks only reach states of SnapInv.
THEOREM SnapInvCorrect == SnapSpec => []SnapInv
BY SnapInitInv, SnapNextInv, PTL DEF SnapSpec

\* However many checks ask, in whatever order, and however the host changes,
\* two that name the same key are judged on the same reading of it.
THEOREM OneSnapshotCorrect == SnapSpec => []OneSnapshot
<1>1. SnapInv => OneSnapshot
    BY DEF SnapInv, SnapTypeOK, JudgedInv, OneSnapshot, Checks
<1>2. QED
    BY <1>1, SnapInvCorrect, PTL

\* No port check passes on a connection table whose lookup failed, for a network
\* that does not exist, or against what was listening in the tables that could
\* be opened, whichever worker took the snapshot.
THEOREM PortPassCorrect == SnapSpec => []PortPassIsReal
<1>1. SnapInv => PortPassIsReal
    BY DEF SnapInv, SnapTypeOK, JudgedInv, PortsOnceInv, Served, PortPassIsReal, Checks
<1>2. QED
    BY <1>1, SnapInvCorrect, PTL

=============================================================================
