---------------------------- MODULE HostAnswers ----------------------------
(***************************************************************************)
(* What the lookups that run no subprocess answer, given what the          *)
(* operating system told them: the Service Control Manager, the files that *)
(* ServiceInit and ServiceUpstart read, and the tables behind user, group, *)
(* interface, file, kernel-param, registry and addr.                       *)
(*                                                                         *)
(* An answer is a value and an error.  The value is TRUE for "yes" and for *)
(* an attribute that was read, FALSE for "no" and for a zero value.  Each  *)
(* operator gives the set of answers that the one question can have.       *)
(***************************************************************************)

R(v, e) == [val |-> v, err |-> e]

Either == {R(TRUE, "nil"), R(FALSE, "nil")}

Fails(e) == {R(FALSE, e)}

Unsupported == Fails("unsupported")

-----------------------------------------------------------------------------
(* ServiceWindows *)

\* Opening the service: open, no such service, or the manager refused.
handles == {"open", "notfound", "scm"}

withConfig(h, answers) == IF h = "open" THEN answers \cup Fails("query") ELSE Fails(h)

\* The one getter for which an absent service is an answer.
scmExists(h) == {R(h = "open", IF h = "scm" THEN h ELSE "nil")}

\* A start type this build does not know is an error.
scmEnabled(h) == withConfig(h, Either \cup Fails("starttype"))

scmRunning(h) == withConfig(h, Either)

scmAttribute(h) == withConfig(h, {R(TRUE, "nil")} \cup Fails("starttype"))

SCMAnswers(g, h) ==
    CASE g = "Exists" -> scmExists(h)
      [] g = "Enabled" -> scmEnabled(h)
      [] g = "Running" -> scmRunning(h)
      [] g = "Attribute" -> scmAttribute(h)
      [] OTHER -> Unsupported

-----------------------------------------------------------------------------
(* ServiceInit, ServiceUpstart and what they embed *)

initExists == Either

\* /etc/rc?.d or /etc/runlevels; a name that is no pattern is an error.
initRunLevels == Either \cup Fails("glob")

\* A fallback on sysv counts only when it says yes without an error.
sysv(answers) == {R(a.val /\ a.err = "nil", "nil") : a \in answers}

upstartExists == {R(TRUE, "nil")} \cup sysv(initExists)

upstartEnabled == Either \cup sysv(initRunLevels)

windowsOnlyServiceAttrs == Unsupported

noMaskConcept == Unsupported

\* The getters of the POSIX backends that run no helper.
ServiceAnswers(b, g) ==
    CASE g = "Attribute" -> windowsOnlyServiceAttrs
      [] g = "Masked" -> noMaskConcept
      [] g = "RunLevels" -> IF b \in {"init", "upstart"} THEN initRunLevels ELSE {R(FALSE, "nil")}
      [] g = "Exists" -> IF b = "upstart" THEN upstartExists ELSE initExists
      [] g = "Enabled" -> IF b = "upstart" THEN upstartEnabled ELSE initRunLevels

-----------------------------------------------------------------------------
(* The tables.  said is "present", "absent", or the way the lookup failed. *)

\* Found, not found, or an error: the three are kept apart.
ThreeWay(said) ==
    {CASE said = "present" -> R(TRUE, "nil")
       [] said = "absent" -> R(FALSE, "nil")
       [] OTHER -> R(FALSE, said)}

\* An attribute of what is not there is an error, never a zero value.
Read(said) == {IF said = "present" THEN R(TRUE, "nil") ELSE R(FALSE, said)}

userExists(said) == ThreeWay(said)

\* UID, GID and Home; on Windows an identifier is not a number.
userIds(said) == Read(said) \cup (IF said = "present" THEN Fails("atoi") ELSE {})

\* A group file that ends in a read error gives a short list and no error.
userGroups(said) == Read(said) \cup Fails("groupfile")

\* An entry of /etc/passwd that does not have seven fields ends the search.
userShell(os, said) ==
    IF os = "windows" THEN Unsupported ELSE Read(said) \cup Fails("passwd")

groupExists(said) == ThreeWay(said)

groupId(said) == Read(said) \cup (IF said = "present" THEN Fails("atoi") ELSE {})

interfaceExists(said) == ThreeWay(said)

interfaceAttribute(said) == Read(said) \cup (IF said = "present" THEN Fails("addrs") ELSE {})

\* Every failure to dial is "not reachable".
Reachable(said) == {R(said = "present", "nil")}

\* A parameter that cannot be read is absent, where there is a /proc/sys.
kernelParamExists(said) ==
    IF said = "unsupported" THEN Unsupported ELSE {R(said = "present", "nil")}

kernelParamValue(said) == Read(said)

\* ~user in a path is looked up first; that may fail, and says nothing.
realPathSays == {"present", "absent", "failed", "nouser"}

\* A file that cannot be examined is reported present, with the error.
fileExists(said) == IF said = "failed" THEN {R(TRUE, said)} ELSE ThreeWay(said)

\* Size, Filetype and LinkedTo; the last fails on what is not a link.
fileStat(said) == Read(said) \cup (IF said = "present" THEN Fails("nolink") ELSE {})

\* Contents and the hashes.
fileRead(said) == Read(said) \cup (IF said = "present" THEN Fails("open") ELSE {})

fileOwnership(os, said) == IF os = "windows" THEN Unsupported ELSE Read(said)

\* A NULL DACL and an entry of an unknown type are errors.
fileAcl(os, said) ==
    IF os = "posix" THEN Unsupported
    ELSE Read(said) \cup (IF said = "present" THEN Fails("nulldacl") \cup Fails("acetype") ELSE {})

\* A key that does not parse is not looked up.
parseRegistryKey == {"present", "absent", "failed", "invalid"}

registryExists(os, said) == IF os = "posix" THEN Unsupported ELSE ThreeWay(said)

\* Value and Type; a link or an unknown type has no value.
registryValue(os, said) ==
    IF os = "posix" THEN Unsupported
    ELSE Read(said) \cup (IF said = "present" THEN Fails("valuetype") ELSE {})

Says(b) ==
    CASE b = "file" -> realPathSays
      [] b = "registry" -> parseRegistryKey
      [] b = "kernelparam" -> {"present", "absent", "failed", "unsupported"}
      [] OTHER -> {"present", "absent", "failed"}

TableExists(b, os, said) ==
    CASE b = "user" -> userExists(said)
      [] b = "group" -> groupExists(said)
      [] b = "interface" -> interfaceExists(said)
      [] b = "addr" -> Reachable(said)
      [] b = "kernelparam" -> kernelParamExists(said)
      [] b = "file" -> fileExists(said)
      [] b = "registry" -> registryExists(os, said)

TableAttribute(b, os, said) ==
    CASE b = "user" -> userIds(said) \cup userGroups(said) \cup userShell(os, said)
      [] b = "group" -> groupId(said)
      [] b = "interface" -> interfaceAttribute(said)
      [] b = "addr" -> Reachable(said)
      [] b = "kernelparam" -> kernelParamValue(said)
      [] b = "file" -> fileStat(said) \cup fileRead(said)
                       \cup fileOwnership(os, said) \cup fileAcl(os, said)
      [] b = "registry" -> registryValue(os, said)

=============================================================================
