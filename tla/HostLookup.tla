----------------------------- MODULE HostLookup -----------------------------
(***************************************************************************)
(* What a check asks of the host: the service backends                     *)
(* (system/service*.go), the package backends (system/package_*.go), how   *)
(* System.New picks one of each, the name of a file's owner                *)
(* (system/file_posix.go), and what each getter makes of the subprocess    *)
(* that CommandRun runs for it.  The lookups that need no subprocess answer *)
(* as HostAnswers says.                                                    *)
(***************************************************************************)
EXTENDS CommandRun, HostAnswers

CONSTANTS ServiceBackends, PackageBackends, Tables, Getters

ASSUME BackendsAssumption ==
    /\ ServiceBackends = {"init", "systemd", "systemdlegacy", "upstart", "windows"}
    /\ PackageBackends = {"dpkg", "apk", "rpm", "pacman", "null"}
    /\ Tables = {"user", "group", "interface", "registry", "file", "kernelparam", "addr"}
    /\ Getters = {"Exists", "Enabled", "Running", "Masked", "RunLevels", "Attribute",
                   "Installed", "Versions", "Owner"}

VARIABLES
    backend, getter,    \* the lookup of this behaviour
    slashed,            \* the service's name has a "/" in it
    fallback,           \* the sysv fallback's helper is the one that runs
    reply,              \* what the getter returned: a value and an error
    heard               \* history: what the operating system said of it

hostVars == <<backend, getter, slashed, fallback, reply, heard>>

NoReply == [val |-> FALSE, err |-> "pending"]

-----------------------------------------------------------------------------
(* System.New: distro, DetectService, DetectPackageManager *)

Distros == {"ubuntu", "redhat", "alpine", "arch", "debian"}

\* The first of the release files wins.
distro(files) ==
    IF "ubuntu" \in files THEN "ubuntu"
    ELSE IF "redhat" \in files THEN "redhat"
    ELSE IF "alpine" \in files THEN "alpine"
    ELSE IF "arch" \in files THEN "arch"
    ELSE IF "debian" \in files THEN "debian" ELSE "unknown"

\* Alpine's OpenRC is ServiceInit reading other directories.
DetectService(commands, files, legacy) ==
    IF goos = "windows" THEN "windows"
    ELSE IF "systemctl" \in commands
         THEN IF legacy /\ "debian" \in files THEN "systemdlegacy" ELSE "systemd"
    ELSE CASE distro(files) = "ubuntu" -> "upstart"
           [] distro(files) = "arch" -> "systemd"
           [] OTHER -> "init"

DetectPackageManager(commands, files) ==
    CASE distro(files) \in {"ubuntu", "debian"} -> "dpkg"
      [] distro(files) = "redhat" -> "rpm"
      [] distro(files) = "alpine" -> "apk"
      [] distro(files) = "arch" -> "pacman"
      [] OTHER -> IF "dpkg" \in commands THEN "dpkg"
                  ELSE IF "rpm" \in commands THEN "rpm"
                  ELSE IF "apk" \in commands THEN "apk"
                  ELSE IF "pacman" \in commands THEN "pacman" ELSE "none"

resolveNewPackage(commands, files) ==
    LET p == DetectPackageManager(commands, files)
    IN  IF p # "none" THEN p ELSE IF goos = "windows" THEN "null" ELSE "rpm"

Commands == {"systemctl", "dpkg", "rpm", "apk", "pacman"}

\* --package, when it names a manager, is taken as it is.
BackendsFor(g) ==
    IF g \in {"Installed", "Versions"}
    THEN (PackageBackends \ {"null"})
         \cup {resolveNewPackage(c, f) : c \in SUBSET Commands, f \in SUBSET Distros}
    ELSE IF g = "Owner" THEN {"getent"}
    ELSE {DetectService(c, f, l) : c \in SUBSET Commands, f \in SUBSET Distros, l \in BOOLEAN}
         \cup (IF g \in {"Exists", "Attribute"} THEN Tables ELSE {})

\* Which getters run a helper: the others read files or the Windows SCM.
HelperGetters(b) ==
    CASE b \in {"systemd", "systemdlegacy"} -> {"Exists", "Enabled", "Running", "Masked"}
      [] b \in {"init", "upstart"} -> {"Running"}
      [] b \in PackageBackends \ {"null"} -> {"Installed", "Versions"}
      [] b = "getent" -> {"Owner"}
      [] OTHER -> {}

\* The getters that refuse a name with a slash in it, before any helper.
RefusesSlash(b) ==
    CASE b \in {"systemd", "systemdlegacy"} -> {"Exists", "Enabled", "Running", "Masked"}
      [] b = "init" -> {"Exists", "Enabled", "Running", "RunLevels"}
      [] OTHER -> {}

invalidService == slashed /\ getter \in RefusesSlash(backend)

AsksHelper == getter \in HelperGetters(backend) /\ ~invalidService

HostInit ==
    /\ goos \in {"posix", "windows"}
    /\ getter \in Getters
    /\ getter = "Owner" => goos = "posix"
    /\ backend \in BackendsFor(getter)
    /\ slashed \in BOOLEAN
    /\ fallback = FALSE
    /\ reply = NoReply
    /\ heard = "nothing"
    /\ kind = IF AsksHelper THEN "helper" ELSE "none"
    /\ Fresh

\* A command: resource has no backend: its attributes are the answer itself.
CommandInit ==
    /\ goos \in {"posix", "windows"}
    /\ getter = "Exists" /\ backend = "init" /\ slashed = FALSE
    /\ fallback = FALSE
    /\ reply = [val |-> TRUE, err |-> "command"]
    /\ heard = "nothing"
    /\ kind = "command"
    /\ Fresh

-----------------------------------------------------------------------------
(* The getters *)

Reply(answers) ==
    /\ reply' \in answers
    /\ UNCHANGED <<backend, getter, slashed, fallback>>

Pending == reply = NoReply /\ pc = "done"

Services == {"init", "systemd", "systemdlegacy", "upstart"}

ReplyInvalid ==
    /\ Pending /\ invalidService
    /\ Reply({R(FALSE, "nil")})
    /\ UNCHANGED <<heard, runVars>>

ReplyFromFiles ==
    /\ Pending /\ ~invalidService /\ ~AsksHelper
    /\ backend \in Services
    /\ Reply(ServiceAnswers(backend, getter))
    /\ UNCHANGED <<heard, runVars>>

ReplyFromSCM ==
    /\ Pending /\ backend = "windows"
    /\ heard' \in handles
    /\ Reply(SCMAnswers(getter, heard'))
    /\ UNCHANGED runVars

ReplyNull ==
    /\ Pending /\ backend = "null"
    /\ Reply(Fails("null"))
    /\ UNCHANGED <<heard, runVars>>

ReplyFromTable ==
    /\ Pending /\ backend \in Tables
    /\ heard' \in Says(backend)
    /\ Reply(IF getter = "Exists" THEN TableExists(backend, goos, heard')
             ELSE TableAttribute(backend, goos, heard'))
    /\ UNCHANGED runVars

\* The context ended the helper: nothing was learned.
IgnoreUnfinished ==
    /\ Pending /\ AsksHelper /\ ~fallback
    /\ answer.err # "nil"
    /\ Reply({R(FALSE, "nil")})
    /\ UNCHANGED <<heard, runVars>>

ReplyUnfinished ==
    /\ Pending /\ AsksHelper /\ ~fallback
    /\ answer.err # "nil"
    /\ Reply(Fails(answer.err))
    /\ UNCHANGED <<heard, runVars>>

Finished == Pending /\ AsksHelper /\ ~fallback /\ answer.err = "nil"

\* The error that goes with a positive reply: cmd.Err, without which a helper
\* that never started would read as status 0.
CmdErr == runErr

Legacy == backend = "systemdlegacy"

\* service status: the exit status is the reply.
initRunning == {IF answer.status = 0 THEN R(TRUE, CmdErr) ELSE R(FALSE, "nil")}

\* Upstart's output has to say that it runs too.
upstartRunning == {R(FALSE, "nil")} \cup (IF child = "none" THEN {} ELSE initRunning)

\* list-unit-files names the unit, or it does not.
systemdExists ==
    (IF child = "none" THEN {} ELSE {R(TRUE, CmdErr)})
    \cup (IF Legacy THEN sysv(initExists) ELSE {R(FALSE, "nil")})

systemdEnabled ==
    IF answer.status = 0 THEN {R(TRUE, CmdErr)}
    ELSE IF Legacy THEN sysv(initRunLevels) ELSE {R(FALSE, "nil")}

systemdRunning == {IF answer.status = 0 THEN R(TRUE, CmdErr) ELSE R(FALSE, "nil")}

\* systemctl show: a failed query, or one without LoadState, is an error.
systemdMasked == IF runErr # "nil" THEN Fails(runErr) ELSE Either \cup Fails("noLoadState")

\* Any error of a package manager is "not installed", that of a binary that is
\* not there among them.  dpkg and apk also need a line that says installed;
\* dpkg, apk and pacman index a field of it, and panic when it is not there.
dpkgSetup == IF runErr # "nil" THEN {R(FALSE, "nil")} ELSE Either \cup Fails("panic")

apkSetup == IF runErr # "nil" THEN {R(FALSE, "nil")} ELSE Either \cup Fails("panic")

rpmSetup == {R(runErr = "nil", "nil")}

pacmanSetup == IF runErr # "nil" THEN {R(FALSE, "nil")} ELSE {R(TRUE, "nil")} \cup Fails("panic")

Installed ==
    CASE backend = "dpkg" -> dpkgSetup
      [] backend = "apk" -> apkSetup
      [] backend = "rpm" -> rpmSetup
      [] backend = "pacman" -> pacmanSetup

\* No version is an error, where not installed is an answer.
Versions == {IF a = R(FALSE, "nil") THEN R(FALSE, "noversion") ELSE a : a \in Installed}

\* getent names the owner of a file whose uid the libraries do not know.
getUserForUid == {R(runErr = "nil", runErr)}

HelperAnswers ==
    CASE getter = "Installed" -> Installed
      [] getter = "Versions" -> Versions
      [] getter = "Owner" -> getUserForUid
      [] getter = "Exists" -> systemdExists
      [] getter = "Enabled" -> systemdEnabled
      [] getter = "Masked" -> systemdMasked
      [] backend = "init" -> initRunning
      [] backend = "upstart" -> upstartRunning
      [] OTHER -> systemdRunning

NeedsFallback == Legacy /\ getter = "Running" /\ answer.status # 0

ReplyFinished ==
    /\ Finished /\ ~NeedsFallback
    /\ Reply(HelperAnswers)
    /\ UNCHANGED <<heard, runVars>>

\* Legacy systemd asks sysv next, with a helper of its own.
FallBack ==
    /\ Finished /\ NeedsFallback
    /\ fallback' = TRUE
    /\ Again
    /\ UNCHANGED <<backend, getter, slashed, reply, heard>>

\* Only a clean TRUE of the fallback counts.
ReplyByFallback ==
    /\ Pending /\ fallback
    /\ Reply(sysv(IF answer.err # "nil" THEN Fails(answer.err) ELSE initRunning))
    /\ UNCHANGED <<heard, runVars>>

GetterStep ==
    \/ ReplyInvalid \/ ReplyFromFiles \/ ReplyFromSCM \/ ReplyNull \/ ReplyFromTable
    \/ ReplyUnfinished \/ ReplyFinished \/ FallBack \/ ReplyByFallback

HostNext == GetterStep \/ (RunNext /\ UNCHANGED hostVars)

\* One getter and its subprocess, or one command: resource.
HostSpec == (HostInit \/ CommandInit) /\ [][HostNext]_<<runVars, hostVars>>

-----------------------------------------------------------------------------
(* Properties *)

\* What the code assumes of a helper that could not be started: the package is
\* not installed, on purpose, and, as there is no output to read, the systemd
\* unit does not exist and the upstart job does not run.
MissingBinary ==
    child = "none" /\ (getter \in {"Installed", "Exists"} \/ backend = "upstart")

\* Which replies without an error are learned, and which are assumed.  A negative
\* one comes from a helper that ran, and ended by itself before its context did;
\* or from one that could not be started, where that is assumed to mean no.  A
\* positive reply rests on a
\* helper that ran and exited 0, never on the zero status of one that did not
\* start.  A lookup without a helper was told so by the system; a service that
\* could not be opened is not a stopped one.  What falls short of it: the sysv
\* fallback of legacy systemd drops the error of a helper that was killed, and
\* the files it reads are a source of their own; an address that cannot be
\* dialled is unreachable whatever the reason; an unreadable kernel parameter
\* is absent.
RepliesAreLearned ==
    /\ reply = R(FALSE, "nil") =>
        /\ AsksHelper /\ ~fallback =>
              ctx = "live" /\ (child \in {"exit0", "exit1"} \/ MissingBinary)
        /\ backend \in Tables \ {"addr", "kernelparam"} => heard = "absent"
        /\ backend = "windows" => heard = IF getter = "Exists" THEN "notfound" ELSE "open"
    /\ reply = R(TRUE, "nil") =>
        /\ AsksHelper => child = "exit0" \/ (Legacy /\ getter \in {"Exists", "Enabled"})
        /\ backend \in Tables => heard = "present"
        /\ backend = "windows" => heard = "open"

==============================================================================
