-------------------------------- MODULE Add --------------------------------
(***************************************************************************)
(* syver add and syver autoadd (add.go, resource/resource_map.go): the     *)
(* gossfile is read, resources built from the live host are put into it,   *)
(* and the whole is written back.                                          *)
(*                                                                         *)
(* A resource is <<type, key>>.  What a lookup of it finds does not change *)
(* during the run and is chosen when it is first made: "present",          *)
(* "absent", "failed"; "partly": it is there, and an attribute that may be *)
(* left out could not be read; "unread": it is there, and one that may not *)
(* could not; or, of a service on Windows, "unfound": its absence is an    *)
(* error.  An entry says the state it asserts ("old" for one that was      *)
(* there before) and whether it has a title.                               *)
(***************************************************************************)
EXTENDS Integers, Sequences, FiniteSets

CONSTANTS
    AutoAddable,    \* the types autoadd tries; all seven in the code
    Paths, Names,   \* the arguments with a slash, and those without
    PortKeys        \* the ports a process may listen on

\* A name has a slash or has none; where a process can be added, so can its
\* ports.
ASSUME AddAssumption ==
    /\ Paths \cap Names = {}
    /\ "process" \in AutoAddable => "port" \in AutoAddable

VARIABLES
    op,         \* "none", "autoadd", or the type of an add
    args,       \* the keys still to add
    autoType,   \* the type autoAddResource is at, and the ports still to add
    owned,
    matched,    \* found, of the key being added
    unmatched,
    config,     \* syverConfig
    gossfile,   \* the file: Gossfile(entries), NoFile, Garbled or Truncated
    gossfile0,  \* history: as it was
    asked,      \* history: the arguments
    learned,    \* history: what each lookup found
    skipped,    \* history: those whose Exists failed
    apc         \* "read", "next", "type", "ports", "write", or how it ended

addVars == <<op, args, autoType, owned, matched, unmatched, config, gossfile,
             gossfile0, asked, learned, skipped, apc>>

\* By AutoAddSpec.Order.
AutoAddDescriptors == <<"file", "group", "package", "port", "process", "service", "user">>

NoEntries == [e \in {} |-> e]
File(status, es) == [status |-> status, entries |-> es]
NoFile == File("none", NoEntries)
Garbled == File("garbled", NoEntries)
Truncated == File("truncated", NoEntries)
Gossfile(es) == File("good", es)
Entry(state, title) == [state |-> state, title |-> title]
With(f, e, v) == [x \in DOMAIN f \cup {e} |-> IF x = e THEN v ELSE f[x]]
Ended == {"ok", "error", "partial", "unwritten"}

AddInit ==
    /\ autoType = 1 /\ owned = {} /\ matched = FALSE /\ unmatched = {}
    /\ config = NoEntries /\ learned = NoEntries /\ skipped = {}
    /\ gossfile0 = gossfile /\ asked = args
    /\ apc = "read"

-----------------------------------------------------------------------------
(* Building a resource *)

\* The constructors: what the entry will assert, or "error".  Only a lookup
\* of the owner or the group that ran out of time ends NewFile; when it fails
\* in any other way, as when the mode or the type cannot be read, the
\* attribute is left out.
NewFile(found) == IF found \in {"unread", "failed"} THEN "error" ELSE found
\* Enabled and Running have to be read, and on Windows ErrServiceNotFound is
\* what they return of a service there is not.
NewService(found) == IF found \in {"unread", "unfound", "failed"} THEN "error" ELSE found
\* The value and its type have to be read.
NewRegistry(found) == IF found \in {"unread", "failed"} THEN "error" ELSE found
\* Everywhere else an attribute that cannot be read is left out.
NewProcess(found) == IF found = "failed" THEN "error" ELSE found
NewPackage(found) == IF found = "failed" THEN "error" ELSE found
NewGroup(found) == IF found = "failed" THEN "error" ELSE found
NewUser(found) == IF found = "failed" THEN "error" ELSE found
NewInterface(found) == IF found = "failed" THEN "error" ELSE found
NewMount(found) == IF found = "failed" THEN "error" ELSE found
NewDNS(found) == IF found = "failed" THEN "error" ELSE found
\* Nothing is written of a command that could not be run to its end, of a URL
\* nobody answers at, or of a parameter there is not.
NewCommand(found) == IF found # "present" THEN "error" ELSE found
NewHTTP(found) == IF found # "present" THEN "error" ELSE found
NewKernelParam(found) == IF found # "present" THEN "error" ELSE found
\* The error of a port's lookup is discarded, and the entry says that nothing
\* listens; every failure to dial an address is the answer no.
NewPort(found) == IF found = "failed" THEN "absent" ELSE found
NewAddr(found) == found
\* A gossfile is included without being looked at.
NewSyverfile(found) == "present"

Addable ==
    {"file", "service", "registry", "process", "package", "group", "user", "interface", "mount",
     "dns", "command", "http", "kernel-param", "port", "addr", "gossfile"}

FoundOf(t) ==
    CASE t = "file" -> {"present", "partly", "unread", "absent", "failed"}
      [] t = "service" -> {"present", "partly", "unread", "absent", "unfound", "failed"}
      [] t = "registry" -> {"present", "unread", "absent", "failed"}
      [] t \in {"process", "group", "user", "interface"} -> {"present", "partly", "absent", "failed"}
      [] t \in {"package", "mount", "dns", "kernel-param", "port"} -> {"present", "absent", "failed"}
      [] t \in {"command", "http"} -> {"present", "failed"}
      [] t = "addr" -> {"present", "absent"}
      [] t = "gossfile" -> {"present"}

DiscardError(t, found) == IF found = "present" THEN "present" ELSE "absent"

fromSystem(t, found) ==
    CASE t = "file"         -> NewFile(found)
      [] t = "service"      -> NewService(found)
      [] t = "registry"     -> NewRegistry(found)
      [] t = "process"      -> NewProcess(found)
      [] t = "package"      -> NewPackage(found)
      [] t = "group"        -> NewGroup(found)
      [] t = "user"         -> NewUser(found)
      [] t = "interface"    -> NewInterface(found)
      [] t = "mount"        -> NewMount(found)
      [] t = "dns"          -> NewDNS(found)
      [] t = "command"      -> NewCommand(found)
      [] t = "http"         -> NewHTTP(found)
      [] t = "kernel-param" -> NewKernelParam(found)
      [] t = "port"         -> NewPort(found)
      [] t = "addr"         -> NewAddr(found)
      [] t = "gossfile"     -> NewSyverfile(found)

\* UpsertLive and AppendSysResource: the title of an entry is kept.
UpsertLive(cfg, e, state) ==
    With(cfg, e, Entry(state, e \in DOMAIN cfg /\ cfg[e].title))

\* What a lookup of e finds, this time and every time.
Finds(e, found) ==
    /\ e \in DOMAIN learned => found = learned[e]
    /\ learned' = With(learned, e, found)

\* The constructor's lookup is kept by the snapshots and by package's setup;
\* a file, a group, a service and a user are looked at again, and that may fail.
ExistsMayFail(t) == t \in {"file", "group", "service", "user"}

End(how) ==
    /\ apc' = how
    /\ UNCHANGED <<op, args, autoType, owned, matched, unmatched, config, gossfile, gossfile0, asked>>

-----------------------------------------------------------------------------
ReadStore ==
    /\ apc = "read"
    /\ IF gossfile = Garbled
       THEN apc' = "error" /\ UNCHANGED config
       ELSE config' = gossfile.entries /\ apc' = "next"
    /\ UNCHANGED <<op, args, autoType, owned, matched, unmatched, gossfile, gossfile0, asked, learned, skipped>>

savedAtOnce(cfg) == Gossfile(cfg)

\* Nothing is written until every key is done.
savedSoFar(cfg) == gossfile

\* AddResource: an error ends the command before anything is written.
AddResource ==
    /\ apc = "next" /\ op # "autoadd" /\ args # <<>>
    /\ LET e == <<op, Head(args)>>
       IN  \E found \in FoundOf(op) :
              /\ Finds(e, found)
              /\ IF fromSystem(op, found) = "error"
                 THEN End("error")
                 ELSE /\ config' = UpsertLive(config, e, fromSystem(op, found))
                      /\ gossfile' = savedSoFar(config')
                      /\ args' = Tail(args)
                      /\ UNCHANGED <<op, autoType, owned, matched, unmatched, gossfile0, asked, apc>>
    /\ UNCHANGED skipped

\* autoAddResource starts on a key.
NextKey ==
    /\ apc = "next" /\ op = "autoadd" /\ args # <<>>
    /\ apc' = "type" /\ autoType' = 1 /\ matched' = FALSE
    /\ UNCHANGED <<op, args, owned, unmatched, config, gossfile, gossfile0, asked, learned, skipped>>

Tries(t, key) == t \in AutoAddable /\ (t = "file" => key \in Paths)

\* found = true
foundAny(ok) == matched \/ ok

\* AppendSysResourceIfExists: the constructor's error is returned, that of
\* Exists skips the entry.  A process that matches goes on to its ports.
AppendIfExists(t, key) ==
    LET e == <<t, key>>
    IN  \E found \in FoundOf(t), again \in BOOLEAN :
           /\ Finds(e, found)
           /\ again => ExistsMayFail(t)
           /\ IF fromSystem(t, found) = "error"
              THEN End("error") /\ UNCHANGED skipped
              ELSE LET ok == found \in {"present", "partly"} /\ ~again
                   IN  /\ config' = IF ok THEN UpsertLive(config, e, fromSystem(t, found)) ELSE config
                       /\ matched' = foundAny(ok)
                       /\ skipped' = IF again \/ found = "failed" THEN skipped \cup {e} ELSE skipped
                       /\ IF t = "process" /\ ok
                          THEN /\ \E ports \in SUBSET PortKeys : owned' = ports
                               /\ apc' = "ports" /\ UNCHANGED autoType
                          ELSE autoType' = autoType + 1 /\ UNCHANGED <<owned, apc>>
                       /\ UNCHANGED <<op, args, unmatched, gossfile, gossfile0, asked>>

autoAddType ==
    /\ apc = "type" /\ autoType <= Len(AutoAddDescriptors)
    /\ IF Tries(AutoAddDescriptors[autoType], Head(args))
       THEN AppendIfExists(AutoAddDescriptors[autoType], Head(args))
       ELSE /\ autoType' = autoType + 1
            /\ UNCHANGED <<op, args, owned, matched, unmatched, config, gossfile, gossfile0,
                           asked, learned, skipped, apc>>

\* GetPorts, and the ports of the process that matched.
AutoAddPorts ==
    /\ apc = "ports"
    /\ \/ End("error") /\ UNCHANGED <<learned, skipped>>
       \/ /\ owned = {}
          /\ apc' = "type" /\ autoType' = autoType + 1
          /\ UNCHANGED <<op, args, owned, matched, unmatched, config, gossfile, gossfile0, asked, learned, skipped>>
       \/ \E p \in owned, found \in FoundOf("port") :
             /\ Finds(<<"port", p>>, found)
             /\ owned' = owned \ {p}
             /\ config' = IF found = "present" THEN UpsertLive(config, <<"port", p>>, "present") ELSE config
             /\ skipped' = IF found = "failed" THEN skipped \cup {<<"port", p>>} ELSE skipped
             /\ UNCHANGED <<op, args, autoType, matched, unmatched, gossfile, gossfile0, asked, apc>>

KeyDone ==
    /\ apc = "type" /\ autoType > Len(AutoAddDescriptors)
    /\ unmatched' = IF matched THEN unmatched ELSE unmatched \cup {Head(args)}
    /\ args' = Tail(args) /\ apc' = "next"
    /\ UNCHANGED <<op, autoType, owned, matched, config, gossfile, gossfile0, asked, learned, skipped>>

\* All the keys are done: nothing matched, or there is something to write.
KeysDone ==
    /\ apc = "next" /\ args = <<>>
    /\ End(IF op = "autoadd" /\ asked # <<>> /\ \A i \in 1..Len(asked) : asked[i] \in unmatched
           THEN "error" ELSE "write")
    /\ UNCHANGED <<learned, skipped>>

\* os.WriteFile truncates, then writes; either may fail.
WriteJSON ==
    /\ apc = "write"
    /\ \/ config = NoEntries /\ apc' = "error" /\ UNCHANGED gossfile
       \/ /\ config # NoEntries
          /\ \/ gossfile' = Gossfile(config) /\ apc' = IF unmatched = {} THEN "ok" ELSE "partial"
             \/ gossfile' \in {gossfile, Truncated} /\ apc' = "unwritten"
    /\ UNCHANGED <<op, args, autoType, owned, matched, unmatched, config, gossfile0, asked, learned, skipped>>

AddNext ==
    \/ ReadStore \/ AddResource \/ NextKey \/ autoAddType \/ AutoAddPorts
    \/ KeyDone \/ KeysDone \/ WriteJSON

AddEnded == apc \in Ended /\ UNCHANGED addVars

\* The commands checked: one or two arguments, over a gossfile that is not
\* there, cannot be parsed, or has an entry that will be added again and one
\* that will not.  autoadd with two arguments is tried over that one only.
AddScenarios ==
    /\ op \in {"autoadd"} \cup Addable
    /\ args \in {<<k>> : k \in Paths \cup Names} \cup {<<p, n>> : p \in Paths, n \in Names}
    /\ gossfile \in {NoFile, Garbled} \cup
          {Gossfile([e \in {<<op, args[1]>>, <<"file", args[1]>>, <<"user", "other">>} |-> Entry("old", TRUE)])}
    /\ op = "autoadd" /\ Len(args) = 2 => gossfile.status = "good"
    /\ AddInit

AddSpec == AddScenarios /\ [][AddNext \/ AddEnded]_addVars

\* Any command: as many arguments as one likes, no two alike, over any gossfile.
AnyAdd ==
    /\ op \in {"autoadd"} \cup Addable
    /\ args \in Seq(Paths \cup Names)
    /\ \A i, j \in 1..Len(args) : args[i] = args[j] => i = j
    /\ \/ gossfile \in {NoFile, Garbled}
       \/ \E es : gossfile = Gossfile(es) /\ \A e \in DOMAIN es : \E title \in BOOLEAN : es[e] = Entry("old", title)
    /\ AddInit

AnyAddSpec == AnyAdd /\ [][AddNext \/ AddEnded]_addVars

-----------------------------------------------------------------------------
(* Properties *)

Written == apc \in {"ok", "partial"}
About(e) == e[2] \in {asked[i] : i \in 1..Len(asked)} \/ e[1] = "port"

\* The exit status tells what was done.  A command that fails before it comes
\* to write leaves the gossfile as it found it, whatever keys it had added by
\* then; autoadd exits 0 only when each name it was given was found as
\* something, and reports a partial success only when some was and some not.
AddStatusHonest ==
    LET Found(k) == \E e \in DOMAIN learned :
            e[2] = k /\ learned[e] \in {"present", "partly"} /\ e \notin skipped /\ (e[1] = "file" => k \in Paths)
        keys == {asked[i] : i \in 1..Len(asked)}
    IN  /\ apc = "error" => gossfile = gossfile0
        /\ op = "autoadd" /\ apc = "ok" => \A k \in keys : Found(k)
        /\ op = "autoadd" /\ apc = "partial" => (\E k \in keys : Found(k)) /\ (\E k \in keys : ~Found(k))

\* The gossfile a command leaves says what the host was found to be, and all
\* it said before.  An entry the command does not name is as it was, and one
\* that is added again keeps its title; a new entry asserts what its lookup
\* found.  None is written of a service whose state, of a registry key whose
\* value or of a file whose owner or group was not read because the lookup did
\* not run; an owner or a group whose lookup ran and failed is left out of the
\* entry, as is any other attribute.  A port whose lookup failed is the one
\* exception: it is written as not listening.
GossfileExact ==
    Written =>
        /\ \A e \in DOMAIN gossfile0.entries :
              /\ e \in DOMAIN gossfile.entries
              /\ gossfile.entries[e].title = gossfile0.entries[e].title
              /\ ~About(e) => gossfile.entries[e] = gossfile0.entries[e]
        /\ \A e \in DOMAIN gossfile.entries :
              gossfile.entries[e].state # "old" /\ ~(e[1] = "port" /\ learned[e] = "failed") =>
                  /\ gossfile.entries[e].state = learned[e]
                  /\ learned[e] \notin {"unread", "unfound", "failed"}

\* resource/resource_map.go, lines 98-101, of autoadd: "propagating would abort
\* the whole run because one resource happened to be unreadable.  Discovering
\* nine resources and failing on the tenth is a worse outcome than discovering
\* nine and reporting why the tenth was left out."  So what was found present
\* is in the gossfile in the end, unless the file could not be read or written.
AutoAddKeepsGoing ==
    op = "autoadd" /\ apc \in Ended \ {"unwritten"} /\ gossfile0 # Garbled =>
        \A e \in DOMAIN learned :
            learned[e] = "present" /\ e \notin skipped =>
                e \in DOMAIN gossfile.entries

=============================================================================
