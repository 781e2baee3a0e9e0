---------------------------- MODULE TimedLookup ----------------------------
(***************************************************************************)
(* The lookups with a timeout of their own: dns (system/dns.go), mount     *)
(* (system/mount.go and its platforms) and http (system/http.go).  Each is *)
(* made by the first getter that needs it and kept for the others.  A dns  *)
(* or mount query runs on a goroutine that may outlive the call: it sends  *)
(* one result on a channel of capacity one, and select takes that or the   *)
(* timer, whichever it meets first.                                        *)
(***************************************************************************)
EXTENDS Integers, Sequences

CONSTANTS
    LookupTimeout,  \* timeout: of the resource, in ticks
    MaxAttempts,    \* the retries of DefDNS.setup; 3 in the code
    MaxCalls,       \* getters called on one resource; a bound of the model
    LookupHorizon   \* the last tick of the clock; a bound of the model

\* A timeout of zero is replaced by the resource's default before it gets
\* here.  A negative one is not, and is left out: a dns or mount lookup then
\* times out at once, an http request never does.
ASSUME LookupAssumption ==
    /\ LookupTimeout \in Nat \ {0}
    /\ MaxAttempts \in Nat \ {0}
    /\ MaxCalls \in Nat
    /\ LookupHorizon \in Nat /\ LookupHorizon >= LookupTimeout

VARIABLES
    what,       \* "dns", "dnsserver", "dnsrecord", "mount", "http" or "none"
    at,         \* "idle", "loop", "select", "usage" or "return"
    clock,      \* ticks since setup was entered
    attempt,    \* the attempts started
    due,        \* when the timer of the current select fires
    query,      \* each attempt's goroutine: "off", "asking", "back", "ended"
    sent,       \* what each has to send: the result, and what was heard
    chan,       \* each attempt's channel: empty or one result
    loaded,     \* setup has been entered
    found,      \* resolvable/exists/resp and err, as setup leaves them
    replies     \* what each getter called so far returned

lookupVars == <<what, at, clock, attempt, due, query, sent, chan, loaded, found, replies>>

A == 1..MaxAttempts
Nothing == [res |-> "none", heard |-> {}]
Found(v, e) == [val |-> v, err |-> e]

\* A request header that cannot be parsed is kept as the error of setup.
NewLookup ==
    /\ at = "idle" /\ clock = 0 /\ attempt = 0 /\ due = 0
    /\ query = [i \in A |-> "off"]
    /\ sent = [i \in A |-> Nothing] /\ chan = [i \in A |-> Nothing]
    /\ loaded = FALSE
    /\ found \in {Found(FALSE, "nil")}
                 \cup (IF what = "http" THEN {Found(FALSE, "header")} ELSE {})
    /\ replies = <<>>

LookupTypeOK ==
    /\ what \in {"dns", "dnsserver", "dnsrecord", "mount", "http", "none"}
    /\ at \in {"idle", "loop", "select", "usage", "return"}
    /\ clock \in 0..LookupHorizon /\ attempt \in 0..MaxAttempts /\ due \in Nat
    /\ query \in [A -> {"off", "asking", "back", "ended"}]
    /\ loaded \in BOOLEAN /\ found.val \in BOOLEAN
    /\ Len(replies) <= MaxCalls

IsDNS == what \in {"dns", "dnsserver", "dnsrecord"}

-----------------------------------------------------------------------------
(* What a query can come back with *)

\* exchange: NOERROR and NXDOMAIN are answers, any other code an error.
exchange(rcode, records) ==
    IF rcode \notin {"NOERROR", "NXDOMAIN"} THEN "error"
    ELSE IF rcode = "NOERROR" /\ records THEN "found" ELSE "empty"

\* LookupA, LookupAAAA, LookupPTR, ...: the records of their own type, or none.
LookupRecord ==
    {exchange(rc, rs) : rc \in {"NOERROR", "NXDOMAIN", "SERVFAIL", "unreachable"}, rs \in BOOLEAN}

LookupHostSilent(a, aaaa) ==
    IF "found" \in {a, aaaa} THEN "found" ELSE "empty"

\* Either family answering is enough.
LookupHost(a, aaaa) ==
    IF a = "error" /\ aaaa = "error" THEN "error"
    ELSE IF "found" \in {a, aaaa} THEN "found" ELSE "empty"

Answers(res, heard) == [res |-> res, heard |-> heard]

\* dnsQuery, and mountinfo.GetMounts or lookupDrive; a panic is an error.
Outcomes ==
    CASE what = "dnsserver" -> {Answers(LookupHost(a, b), {a, b}) : a, b \in LookupRecord}
                               \cup {Answers("error", {"error"})}
      [] what = "dnsrecord" -> {Answers(r, {r}) : r \in LookupRecord}
      [] what \in {"dns", "mount"} -> {Answers(r, {r}) : r \in {"found", "notfound", "error"}}
      [] OTHER -> {Answers(r, {r}) : r \in {"found", "error"}}

-----------------------------------------------------------------------------
(* The getters and setup *)

\* A getter whose lookup is loaded returns what the first one learned.
setupAgain == found

CallGetter ==
    /\ what # "none"
    /\ at = "idle"
    /\ Len(replies) < MaxCalls
    /\ IF loaded
       THEN replies' = Append(replies, setupAgain) /\ UNCHANGED <<at, loaded>>
       ELSE /\ loaded' = TRUE
            /\ at' = IF found.err = "nil" THEN "loop" ELSE "return"
            /\ UNCHANGED replies
    /\ UNCHANGED <<what, clock, attempt, due, query, sent, chan, found>>

ReturnLookup ==
    /\ at = "return"
    /\ at' = "idle"
    /\ replies' = Append(replies, found)
    /\ UNCHANGED <<what, clock, attempt, due, query, sent, chan, loaded, found>>

attemptBudgetFresh == LookupTimeout

\* The timeout bounds every attempt together.
attemptBudget == IF attempt = 0 THEN LookupTimeout ELSE LookupTimeout - clock

\* What fails before anything is asked: a mountpoint that is no drive letter,
\* a proxy, certificate or URL that cannot be read.
RefuseEarly ==
    /\ at = "loop"
    /\ what \in {"mount", "http"} /\ attempt = 0
    /\ found' = Found(FALSE, "refused")
    /\ at' = "return"
    /\ UNCHANGED <<what, clock, attempt, due, query, sent, chan, loaded, replies>>

\* Only dns asks again, while it has budget and attempts left.
StartAttempt ==
    /\ at = "loop"
    /\ IF attemptBudget > 0 /\ attempt < (IF IsDNS THEN MaxAttempts ELSE 1)
       THEN /\ attempt' = attempt + 1
            /\ due' = clock + attemptBudget
            /\ query' = [query EXCEPT ![attempt + 1] = "asking"]
            /\ at' = "select"
       ELSE at' = "return" /\ UNCHANGED <<attempt, due, query>>
    /\ UNCHANGED <<what, clock, sent, chan, loaded, found, replies>>

\* A query that is answered after the call has gone on.
QueryReturns(i) ==
    /\ query[i] = "asking"
    /\ query' = [query EXCEPT ![i] = "back"]
    /\ \E o \in Outcomes : sent' = [sent EXCEPT ![i] = o]
    /\ UNCHANGED <<what, at, clock, attempt, due, chan, loaded, found, replies>>

\* A channel without a buffer takes a send only while select is there.
CanSendUnbuffered(i) == at = "select" /\ attempt = i

CanSend(i) == chan[i] = Nothing

SendResult(i) ==
    /\ query[i] = "back"
    /\ CanSend(i)
    /\ chan' = [chan EXCEPT ![i] = sent[i]]
    /\ query' = [query EXCEPT ![i] = "ended"]
    /\ UNCHANGED <<what, at, clock, attempt, due, sent, loaded, found, replies>>

\* What setup makes of one result: a name that does not exist is an answer,
\* an empty answer or an error is tried again.
DecideDNS(r) ==
    /\ found' = Found(r = "found", IF r \in {"error", "timeout"} THEN r ELSE "nil")
    /\ at' = IF r \in {"found", "notfound"} THEN "return" ELSE "loop"

DecideOther(r) ==
    /\ found' = Found(r = "found", IF r = "found" THEN "nil" ELSE r)
    /\ at' = IF r = "found" /\ what = "mount" THEN "usage" ELSE "return"

Decide(r) == IF IsDNS THEN DecideDNS(r) ELSE DecideOther(r)

Receive ==
    /\ at = "select"
    /\ chan[attempt] # Nothing
    /\ Decide(chan[attempt].res)
    /\ UNCHANGED <<what, clock, attempt, due, query, sent, chan, loaded, replies>>

\* An http request is given up with its timer; the others go on unheard.
TimeOut ==
    /\ at = "select"
    /\ clock >= due
    /\ Decide("timeout")
    /\ query' = IF what = "http" /\ query[attempt] = "asking"
                THEN [query EXCEPT ![attempt] = "ended"] ELSE query
    /\ UNCHANGED <<what, clock, attempt, due, sent, chan, loaded, replies>>

\* DefMount.setup: the usage is read after, and outside, the timeout; its
\* error is the error of every attribute.
GetUsage ==
    /\ at = "usage"
    /\ found' \in {found, Found(TRUE, "usage")}
    /\ at' = "return"
    /\ UNCHANGED <<what, clock, attempt, due, query, sent, chan, loaded, replies>>

\* Time passes while a call waits, and never past a timer that is due.
LookupTick ==
    /\ clock < LookupHorizon
    /\ \/ at = "select" /\ clock < due
       \/ at = "usage"
    /\ clock' = clock + 1
    /\ UNCHANGED <<what, at, attempt, due, query, sent, chan, loaded, found, replies>>

LookupNext ==
    \/ CallGetter \/ ReturnLookup \/ RefuseEarly \/ StartAttempt
    \/ Receive \/ TimeOut \/ GetUsage \/ LookupTick
    \/ \E i \in A : QueryReturns(i) \/ SendResult(i)

\* Any one of the lookups, asked for by any number of getters.
LookupSpec ==
    /\ what \in {"dns", "dnsserver", "dnsrecord", "mount", "http"}
    /\ NewLookup
    /\ [][LookupNext]_lookupVars

\* The calling goroutine, its timer, the clock and a goroutine that has its
\* answer go on; a query may never be answered, nor statfs return.
LookupFairness ==
    /\ WF_lookupVars(StartAttempt \/ ReturnLookup)
    /\ WF_lookupVars(Receive \/ TimeOut)
    /\ WF_lookupVars(LookupTick)
    /\ \A i \in A : WF_lookupVars(SendResult(i))

-----------------------------------------------------------------------------
(* Properties *)

\* timeout: bounds the whole lookup, retries included; only reading a mount's
\* usage is outside it.
WithinBudget ==
    at \in {"loop", "select"} \/ what # "mount" => clock <= LookupTimeout

\* "not resolvable" and "does not exist" without an error are always the
\* word of a resolver or of the mount table that was heard in time in the last
\* attempt made; a failure, a timeout or a panic never reads as an absence, nor
\* does an answer that came too late read as a presence.  Every attribute of
\* the resource is judged on that one lookup: a later getter neither asks again
\* nor forgets why the first one failed.
SettledByAnAnswer ==
    /\ at = "idle" /\ loaded /\ found.err = "nil" =>
        /\ chan[attempt].heard \cap {"found", "empty", "notfound"} # {}
        /\ found.val <=> "found" \in chan[attempt].heard
    /\ \A i, j \in 1..Len(replies) : replies[i] = replies[j]

\* A goroutine that outlived its call is not left blocked on its channel.
LateAnswersEnd == \A i \in A : query[i] = "back" ~> query[i] = "ended"

\* No lookup waits for ever for its answer.
LookupReturns == at = "select" ~> at # "select"

=============================================================================
