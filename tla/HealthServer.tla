---------------------------- MODULE HealthServer ----------------------------
(***************************************************************************)
(* syver serve (serve.go): concurrent health probes that share one cached  *)
(* sweep of the system, and the shutdown of the server.                    *)
(*                                                                         *)
(* A sweep is one step that samples the host, taken while its request      *)
(* holds syverMu; sweeps are numbered in the order they complete.  The     *)
(* cache holds the number of the sweep it stores, or NoSweep once go-cache *)
(* has expired it.  net/http accepts requests until Shutdown closes the    *)
(* listener, and Shutdown waits for the requests in flight.                *)
(***************************************************************************)
EXTENDS Integers, Sequences, FiniteSets

CONSTANTS
    Requests,       \* the probes, each one request
    Formats,        \* the output formats
    OutputFormat,   \* --format, for a probe that names none
    NoRequest       \* nobody holds syverMu

ASSUME RequestsAssumption ==
    IsFiniteSet(Requests) /\ Requests # {} /\ NoRequest \notin Requests

ASSUME FormatsAssumption == {"prometheus", OutputFormat} \subseteq Formats

NoSweep == 0

VARIABLES
    Cache,          \* --cache is positive; never changes
    specError,      \* runValidation rejects the spec's dependencies; never changes
    panicking,      \* the formats whose outputer panics; never changes
    hostDown,       \* some check would fail on the host now
    ctxDone,        \* SIGINT or SIGTERM has cancelled the server's context
    server,         \* "starting", "listening", "draining", "stopped"
    serveErr,       \* what Serve returned: "nil", "listen", "deadline"
    pc, format, gone,       \* each probe: its step, format, client hung up
    syverMu,        \* the probe that holds the mutex
    cache,          \* the sweep go-cache would return
    sweeps,         \* the completed sweeps, each with what it saw
    got, status,    \* the sweep a probe renders, and its HTTP status
    seen, expiries  \* history: sweeps completed at arrival; entries expired

serverVars  == <<Cache, specError, panicking, ctxDone, server, serveErr>>
requestVars == <<pc, format, gone, got, status, seen>>
cacheVars   == <<syverMu, cache, sweeps, expiries>>
vars == <<serverVars, hostDown, requestVars, cacheVars>>

\* The outputers that sort under --format-options sort.
Sorting == {"documentation", "json", "junit", "rspecish", "structured", "tap"}

\* A resource with nothing to check reports an empty group, and documentation
\* and the sort index the first result of every group.
Init ==
    /\ Cache \in BOOLEAN
    /\ specError \in BOOLEAN
    /\ panicking \in {P \cap Formats : P \in {{}, {"documentation"}, Sorting}}
    /\ specError => panicking = {}
    /\ hostDown \in BOOLEAN
    /\ ctxDone = FALSE
    /\ server = "starting"
    /\ serveErr = "running"
    /\ pc = [q \in Requests |-> "idle"]
    /\ format = [q \in Requests |-> "prometheus"]
    /\ gone = [q \in Requests |-> FALSE]
    /\ syverMu = NoRequest
    /\ cache = NoSweep
    /\ sweeps = <<>>
    /\ got = [q \in Requests |-> NoSweep]
    /\ status = [q \in Requests |-> 0]
    /\ seen = [q \in Requests |-> 0]
    /\ expiries = 0

-----------------------------------------------------------------------------
(* ServeHTTP *)

To(q, label) == pc' = [pc EXCEPT ![q] = label]

InFlight(q) == pc[q] \notin {"idle", "answered", "aborted"}

\* A handler's goroutine runs until the process exits.
At(q, label) == pc[q] = label /\ server # "stopped"

\* The Accept headers of a request: the formats they name, in order.
AcceptHeaders == UNION {[1..n -> Formats \cup {"unknown"}] : n \in 0..2}

\* The first header that names a format; a later one does not undo it.
negotiateResponseContentType(accept) ==
    LET named == {i \in DOMAIN accept : accept[i] \in Formats}
    IN  IF named = {} THEN OutputFormat
        ELSE accept[CHOOSE i \in named : \A j \in named : i <= j]

\* A connection accepted before Shutdown closed the listener may still send
\* its request.
Arrive(q) ==
    /\ server \in {"listening", "draining"}
    /\ pc[q] = "idle"
    /\ To(q, "lookup")
    /\ \E accept \in AcceptHeaders :
          format' = [format EXCEPT ![q] = negotiateResponseContentType(accept)]
    /\ seen' = [seen EXCEPT ![q] = Len(sweeps)]
    /\ UNCHANGED <<serverVars, hostDown, gone, got, status, cacheVars>>

\* The client hangs up.  Nothing in the handler looks at r.Context().
Disconnect(q) ==
    /\ InFlight(q) /\ server # "stopped"
    /\ ~gone[q]
    /\ gone' = [gone EXCEPT ![q] = TRUE]
    /\ UNCHANGED <<serverVars, hostDown, pc, format, got, status, seen, cacheVars>>

\* go-cache reads a lifetime of zero or less as "never expire".
cacheEnabledAlways == TRUE

cacheEnabled == Cache

cachedResults == IF cacheEnabled THEN cache ELSE NoSweep

\* processAndEnsureCached
Lookup(q) ==
    /\ At(q, "lookup")
    /\ IF cachedResults # NoSweep
       THEN To(q, "output") /\ got' = [got EXCEPT ![q] = cachedResults]
       ELSE To(q, "lock") /\ UNCHANGED got
    /\ UNCHANGED <<serverVars, hostDown, format, gone, status, seen, cacheVars>>

\* fillCache
Acquire(q) ==
    /\ At(q, "lock")
    /\ syverMu = NoRequest
    /\ syverMu' = q
    /\ To(q, "recheck")
    /\ UNCHANGED <<serverVars, hostDown, format, gone, got, status, seen,
                   cache, sweeps, expiries>>

RecheckSkipped(q) ==
    /\ At(q, "recheck")
    /\ To(q, "validate")
    /\ UNCHANGED <<serverVars, hostDown, format, gone, got, status, seen, cacheVars>>

Recheck(q) ==
    /\ At(q, "recheck")
    /\ IF cachedResults # NoSweep
       THEN /\ To(q, "output")
            /\ got' = [got EXCEPT ![q] = cachedResults]
            /\ syverMu' = NoRequest
       ELSE /\ To(q, "validate")
            /\ UNCHANGED <<got, syverMu>>
    /\ UNCHANGED <<serverVars, hostDown, format, gone, status, seen,
                   cache, sweeps, expiries>>

\* What cancels the sweep q runs: baseCtx, the server's context.
sweepCancelled(q) == ctxDone

\* The failures a sweep by q can report: the synthetic result of a spec that
\* cannot run; a failing check; a check cut short by the cancelled context.
validate(q) ==
    IF specError \/ hostDown THEN {TRUE}
    ELSE IF sweepCancelled(q) THEN BOOLEAN ELSE {FALSE}

FillCacheKeepsLock(q) ==
    /\ At(q, "validate")
    /\ \E failed \in validate(q) :
          sweeps' = Append(sweeps, [failed |-> failed, hostDown |-> hostDown,
                                    ctxDone |-> ctxDone])
    /\ cache' = IF cacheEnabled THEN Len(sweeps) + 1 ELSE cache
    /\ got' = [got EXCEPT ![q] = Len(sweeps) + 1]
    /\ To(q, "output")
    /\ UNCHANGED <<serverVars, hostDown, format, gone, status, seen, syverMu, expiries>>

FillCache(q) ==
    /\ At(q, "validate")
    /\ \E failed \in validate(q) :
          sweeps' = Append(sweeps, [failed |-> failed, hostDown |-> hostDown,
                                    ctxDone |-> ctxDone])
    /\ cache' = IF cacheEnabled THEN Len(sweeps) + 1 ELSE cache
    /\ got' = [got EXCEPT ![q] = Len(sweeps) + 1]
    /\ syverMu' = NoRequest
    /\ To(q, "output")
    /\ UNCHANGED <<serverVars, hostDown, format, gone, status, seen, expiries>>

anyFailed(n) == sweeps[n].failed

\* The prometheus outputer returns 0 whatever it encodes.
statusByExitCode(q) ==
    IF anyFailed(got[q]) /\ format[q] # "prometheus" THEN 503 ELSE 200

\* The verdict of the sweep; what the outputer returned is ignored.
statusCode(q) == IF anyFailed(got[q]) THEN 503 ELSE 200

\* The handler returns, and the request it served is gone with it; or the
\* outputer panics before anything is written, and net/http aborts the
\* connection.
Output(q) ==
    /\ At(q, "output")
    /\ IF format[q] \in panicking
       THEN To(q, "aborted") /\ UNCHANGED status
       ELSE To(q, "answered") /\ status' = [status EXCEPT ![q] = statusCode(q)]
    /\ gone' = [gone EXCEPT ![q] = FALSE]
    /\ format' = [format EXCEPT ![q] = "prometheus"]
    /\ UNCHANGED <<serverVars, hostDown, got, seen, cacheVars>>

-----------------------------------------------------------------------------
(* The environment, while the process runs: go-cache's clock, the host, the *)
(* signal.                                                                  *)

Expire ==
    /\ server # "stopped"
    /\ cache # NoSweep
    /\ cache' = NoSweep
    /\ expiries' = expiries + 1
    /\ UNCHANGED <<serverVars, hostDown, requestVars, syverMu, sweeps>>

HostChanges ==
    /\ server # "stopped"
    /\ hostDown' = ~hostDown
    /\ UNCHANGED <<serverVars, requestVars, cacheVars>>

Signal ==
    /\ server # "stopped"
    /\ ~ctxDone
    /\ ctxDone' = TRUE
    /\ UNCHANGED <<Cache, specError, panicking, server, serveErr, hostDown, requestVars, cacheVars>>

-----------------------------------------------------------------------------
(* Serve: ListenAndServe, and the goroutine that shuts it down *)

ServerTo(s, e) ==
    /\ server' = s
    /\ serveErr' = e
    /\ UNCHANGED <<Cache, specError, panicking, ctxDone, hostDown, requestVars, cacheVars>>

Listen == server = "starting" /\ ServerTo("listening", "running")

\* The address is taken: ListenAndServe's error is returned at once.
ListenFails == server = "starting" /\ ServerTo("stopped", "listen")

BeginShutdownNever == FALSE /\ UNCHANGED vars

\* The signal may come before the listener is open: ListenAndServe then
\* returns ErrServerClosed without accepting anything.
BeginShutdown ==
    /\ server \in {"starting", "listening"}
    /\ ctxDone
    /\ ServerTo("draining", "running")

ShutdownComplete ==
    /\ server = "draining"
    /\ \A q \in Requests : ~InFlight(q)
    /\ ServerTo("stopped", "nil")

\* Ten seconds, and a probe is still in flight.
ShutdownDeadline ==
    /\ server = "draining"
    /\ \E q \in Requests : InFlight(q)
    /\ ServerTo("stopped", "deadline")

Stopped == server = "stopped" /\ UNCHANGED vars

-----------------------------------------------------------------------------
Probe(q) == Lookup(q) \/ Acquire(q) \/ Recheck(q) \/ FillCache(q) \/ Output(q)

Lifecycle == Listen \/ ListenFails \/ BeginShutdown \/ ShutdownComplete \/ ShutdownDeadline

Next ==
    \/ \E q \in Requests : Arrive(q) \/ Disconnect(q) \/ Probe(q)
    \/ Expire \/ HostChanges \/ Signal
    \/ Lifecycle
    \/ Stopped

Spec == Init /\ [][Next]_vars

\* A handler that can run does, syverMu is starvation-free (sync.Mutex hands
\* over after a millisecond), and the server's own goroutines run.
FairSpec ==
    /\ Spec
    /\ \A q \in Requests : WF_vars(Probe(q)) /\ SF_vars(Acquire(q))
    /\ WF_vars(Lifecycle)

-----------------------------------------------------------------------------
(* Properties *)

\* Sweeps are serialized, and a burst of probes on a cold or expired cache
\* costs one sweep: with the cache on there is at most one sweep per expiry,
\* plus the first, however many probes miss at once.
BurstCostsOneSweep ==
    /\ \A p, q \in Requests : pc[p] = "validate" /\ pc[q] = "validate" => p = q
    /\ Cache => Len(sweeps) <= expiries + 1

\* Probes read monotonically: a probe never renders a sweep older than one
\* that had completed when it arrived.  With --cache zero or less every probe
\* renders a sweep of its own, run after it arrived.
MonotonicReads ==
    \A q \in Requests : got[q] # NoSweep =>
        /\ got[q] >= seen[q]
        /\ ~Cache => /\ got[q] > seen[q]
                     /\ \A p \in Requests : got[p] = got[q] => p = q

\* The status means what it says, whatever format the probe negotiated.  200:
\* the spec could be run, and nothing failed on the host in the sweep that is
\* reported.  503: a check failed on the host, the spec cannot be run, or the
\* server had been told to stop; a client that hangs up never fails the probes
\* that share its sweep.
StatusHonest ==
    \A q \in Requests :
        /\ status[q] = 200 => ~specError /\ ~sweeps[got[q]].hostDown
        /\ status[q] = 503 => specError \/ sweeps[got[q]].hostDown \/ sweeps[got[q]].ctxDone

\* Every accepted probe is answered, unless the process exits first or an
\* outputer cannot render the results; the probes after that one still are.
ProbesAnswered ==
    \A q \in Requests :
        pc[q] = "lookup" ~>
            (pc[q] = "answered" \/ server = "stopped" \/ (pc[q] = "aborted" /\ panicking # {}))

\* A signal stops the server: it never hangs on a probe in flight.
SignalStops == ctxDone ~> server = "stopped"

==============================================================================
