------------------------------ MODULE Snapshots ------------------------------
(***************************************************************************)
(* The host tables that the checks of one sweep share (system/system.go):  *)
(* Ports and ProcMap each take one snapshot, under a sync.Once, on behalf  *)
(* of whichever worker asks first.  sync.Once makes the others wait until  *)
(* that call has returned, and then hands them nothing: what they return   *)
(* is read from the System.                                                *)
(*                                                                         *)
(* A table is the set of keys it holds: executables, or network:port.  A   *)
(* check is one `running` or `listening` attribute, on a goroutine of its  *)
(* own, with the key it names and the value it expects.                    *)
(***************************************************************************)
EXTENDS FiniteSets, Naturals

CONSTANTS
    ProcessChecks, PortChecks,  \* the checks of the sweep
    Executables,                \* what the process table can hold
    Sockets,                    \* what the connection table can hold
    UnknownNetwork              \* a port whose network is a typo ("tpc:22")

ASSUME ChecksAssumption ==
    /\ ProcessChecks \cap PortChecks = {}
    /\ UnknownNetwork \notin Sockets

Checks == ProcessChecks \cup PortChecks

VARIABLES
    key, expected,      \* what each check names and expects; never change
    host,               \* the host's tables now
    procOnce, procMap,              \* System.procOnce, System.procMap
    portsOnce, ports, portsErr,     \* System.portsOnce, .ports, .portsErr
    procFailed, portsFailed,    \* history: the lookup reported an error
    listening, unopened,        \* history: the ports in use when GetPorts ran, and
                                \* those whose protocol's file could not be opened
    checkPc, checkErr, held, result      \* each check

specVars  == <<key, expected>>
procMapVars == <<procOnce, procMap, procFailed>>
portsSeen == <<portsFailed, listening, unopened>>
portsVars == <<portsOnce, ports, portsErr, portsSeen>>
snapVars == <<specVars, host, procMapVars, portsVars, checkPc, checkErr, held, result>>

\* System.New: no table has been read.
NoSnapshot ==
    /\ procOnce = "new" /\ procMap = {} /\ procFailed = FALSE
    /\ portsOnce = "new" /\ ports = {} /\ portsErr = FALSE
    /\ portsFailed = FALSE /\ listening = {} /\ unopened = {}
    /\ checkErr = [c \in Checks |-> FALSE]
    /\ held = [c \in Checks |-> FALSE]
    /\ result = [c \in Checks |-> "none"]

StartChecks(active) ==
    /\ key \in {k \in [Checks -> Executables \cup Sockets \cup {UnknownNetwork}] :
                   /\ \A c \in ProcessChecks : k[c] \in Executables
                   /\ \A c \in PortChecks : k[c] \in Sockets \cup {UnknownNetwork}}
    /\ expected \in [Checks -> BOOLEAN]
    /\ host \in SUBSET (Executables \cup Sockets)
    /\ NoSnapshot
    /\ checkPc = [c \in Checks |-> IF c \in active THEN "new" ELSE "done"]

SnapInit == StartChecks(Checks)

CheckTo(c, label) == checkPc' = [checkPc EXCEPT ![c] = label]

\* Daemons start and stop while the sweep runs.
HostChanges ==
    /\ \E x \in Executables \cup Sockets :
          host' = IF x \in host THEN host \ {x} ELSE host \cup {x}
    /\ UNCHANGED <<specVars, procMapVars, portsVars, checkPc, checkErr, held, result>>

-----------------------------------------------------------------------------
(* ProcMap *)

\* The first caller enters the Once; its own err is the one GetProcs sets.
ProcMapFirst(c) ==
    /\ c \in ProcessChecks /\ checkPc[c] = "new"
    /\ procOnce = "new"
    /\ procOnce' = "running"
    /\ CheckTo(c, "lookup")
    /\ UNCHANGED <<specVars, host, procMap, procFailed, portsVars, checkErr, held, result>>

\* GetProcs: the table without the processes whose name cannot be read, or an
\* empty map and the error of listProcesses.
GetProcs(c) ==
    /\ c \in ProcessChecks /\ checkPc[c] = "lookup"
    /\ \E failed \in BOOLEAN, unnamed \in SUBSET Executables :
          /\ procMap' = IF failed THEN {} ELSE (host \cap Executables) \ unnamed
          /\ checkErr' = [checkErr EXCEPT ![c] = failed]
          /\ procFailed' = failed
    /\ procOnce' = "done"
    /\ CheckTo(c, "judge")
    /\ UNCHANGED <<specVars, host, portsVars, held, result>>

ProcMapEachCaller(c) ==
    /\ c \in ProcessChecks /\ checkPc[c] = "new"
    /\ procOnce = "done"
    /\ procMap' = host \cap Executables
    /\ CheckTo(c, "judge")
    /\ UNCHANGED <<specVars, host, procOnce, procFailed, portsVars, checkErr, held, result>>

\* A later caller: the map, and an err of its own that nothing has set.
ProcMapLater(c) ==
    /\ c \in ProcessChecks /\ checkPc[c] = "new"
    /\ procOnce = "done"
    /\ CheckTo(c, "judge")
    /\ UNCHANGED <<specVars, host, procMapVars, portsVars, checkErr, held, result>>

-----------------------------------------------------------------------------
(* NewDefPort and Ports *)

\* A mistyped network is an error of the check, before the table is read.
RejectNetwork(c) ==
    /\ c \in PortChecks /\ checkPc[c] = "new"
    /\ key[c] = UnknownNetwork
    /\ checkErr' = [checkErr EXCEPT ![c] = TRUE]
    /\ CheckTo(c, "judge")
    /\ UNCHANGED <<specVars, host, procMapVars, portsVars, held, result>>

PortsFirst(c) ==
    /\ c \in PortChecks /\ checkPc[c] = "new"
    /\ key[c] # UnknownNetwork
    /\ portsOnce = "new"
    /\ portsOnce' = "running"
    /\ CheckTo(c, "lookup")
    /\ UNCHANGED <<specVars, host, procMapVars, ports, portsErr, portsSeen, checkErr, held, result>>

\* GetPorts: each protocol is queried on its own.  A file that is missing or
\* cannot be opened is "no ports" and no error; one with a line that cannot be
\* parsed is an error, and may still have given its connections; the errors are
\* joined.
GetPorts(c) ==
    /\ c \in PortChecks /\ checkPc[c] = "lookup"
    /\ \E absent, failed \in SUBSET Sockets : \E lost \in SUBSET failed :
          /\ ports' = (host \cap Sockets) \ (absent \cup lost)
          /\ unopened' = absent
          /\ portsErr' = (failed # {})
          /\ checkErr' = [checkErr EXCEPT ![c] = (failed # {})]
          /\ portsFailed' = (failed # {})
    /\ listening' = host \cap Sockets
    /\ portsOnce' = "done"
    /\ CheckTo(c, "judge")
    /\ UNCHANGED <<specVars, host, procMapVars, held, result>>

PortsLaterForgetsErr(c) ==
    /\ c \in PortChecks /\ checkPc[c] = "new"
    /\ key[c] # UnknownNetwork
    /\ portsOnce = "done"
    /\ CheckTo(c, "judge")
    /\ UNCHANGED <<specVars, host, procMapVars, portsVars, checkErr, held, result>>

PortsLater(c) ==
    /\ c \in PortChecks /\ checkPc[c] = "new"
    /\ key[c] # UnknownNetwork
    /\ portsOnce = "done"
    /\ checkErr' = [checkErr EXCEPT ![c] = portsErr]
    /\ CheckTo(c, "judge")
    /\ UNCHANGED <<specVars, host, procMapVars, portsVars, held, result>>

-----------------------------------------------------------------------------
\* Running and Listening, judged by ValidateValue: an error fails the check.
JudgeCheck(c) ==
    /\ checkPc[c] = "judge"
    /\ LET table == IF c \in ProcessChecks THEN procMap ELSE ports
           value == key[c] \in table
       IN  /\ held' = [held EXCEPT ![c] = ~checkErr[c] /\ value]
           /\ result' = [result EXCEPT
                 ![c] = IF ~checkErr[c] /\ value = expected[c] THEN "SUCCESS" ELSE "FAIL"]
    /\ CheckTo(c, "done")
    /\ UNCHANGED <<specVars, host, procMapVars, portsVars, checkErr>>

Check(c) ==
    \/ ProcMapFirst(c) \/ GetProcs(c) \/ ProcMapLater(c)
    \/ RejectNetwork(c) \/ PortsFirst(c) \/ GetPorts(c) \/ PortsLater(c)
    \/ JudgeCheck(c)

SnapNext == HostChanges \/ \E c \in Checks : Check(c)

SnapSpec == SnapInit /\ [][SnapNext]_snapVars

\* The lookups return and every goroutine that can run does.
SnapFairness == \A c \in Checks : WF_snapVars(Check(c))

-----------------------------------------------------------------------------
(* Properties *)

\* Checks of one sweep judge one snapshot, however the host changes under
\* them: two of one kind that name the same key and meet no error find the
\* same.
OneSnapshot ==
    \A sharing \in {ProcessChecks, PortChecks} : \A c, d \in sharing :
        /\ checkPc[c] = "done" /\ checkPc[d] = "done"
        /\ key[c] = key[d] /\ ~checkErr[c] /\ ~checkErr[d]
        => held[c] = held[d]

\* A port check passes only if its network is a real one, no protocol's lookup
\* failed, whichever worker made it, and what it expects was so at the moment
\* of the snapshot.  The documented exception is in the last conjunct: a
\* protocol whose file cannot be opened has no ports, so `listening: true` never
\* passes on it and `listening: false` always does.
PortPassIsReal ==
    \A c \in PortChecks : result[c] = "SUCCESS" =>
        /\ key[c] # UnknownNetwork
        /\ ~portsFailed
        /\ expected[c] <=> key[c] \in listening /\ key[c] \notin unopened

\* "a check that could not run must not be reported as one that passed"
\* (docs/windows.md), for process checks: none passes when the process table
\* could not be read.
ProcessPassIsReal ==
    \A c \in ProcessChecks : result[c] = "SUCCESS" => ~procFailed

\* Every check of the sweep gets its table and is judged: no caller of the
\* Once waits for ever.
ChecksFinish == <>(\A c \in Checks : checkPc[c] = "done")

==============================================================================
