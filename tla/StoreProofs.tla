---------------------------- MODULE StoreProofs ----------------------------
(***************************************************************************)
(* What the commands that read and write gossfiles promise.                *)
(*                                                                         *)
(* Discovery, for any number of entries and of workers: the verdicts that  *)
(* a spec is rendered with are complete and each is its own entry's.       *)
(* Loads, of any files under any command line: they run discovery as it    *)
(* expects to be run, render the spec with what it found, merge every      *)
(* include in its order, warn of each file once for each use and of every  *)
(* definition that is overwritten.  add and autoadd, for any arguments:    *)
(* nothing is lost and nothing invented.                                   *)
(***************************************************************************)
EXTENDS Loader, Add, WellFoundedInduction, FiniteSetTheorems, TLAPS

-----------------------------------------------------------------------------
(* The inductive invariant of the discovery phase *)

Verdicts == [register : Registers, passed : BOOLEAN]

DiscoveryTypeOK ==
    /\ phase \in {"off", "range", "over"}
    /\ entries \subseteq Registers
    /\ checker \in [Workers -> {"take", "validate", "send", "exit"}]
    /\ entry \in [Workers -> Registers \cup {NoRegister}]
    /\ passed \in [Workers -> BOOLEAN]
    /\ out \in Seq(Verdicts)

Holds(w) == checker[w] \in {"validate", "send"}

\* An entry is with the feeder, with one worker, or has been told of.
HeldInv ==
    /\ \A w \in Workers : Holds(w) => entry[w] \in Registers \ entries
    /\ \A v, w \in Workers : Holds(v) /\ Holds(w) /\ entry[v] = entry[w] => v = w
    /\ \A w \in Workers : checker[w] = "validate" => entry[w] \notin DOMAIN told
    /\ entries \cap DOMAIN told = {}

\* Every verdict on its way, and every one collected, is that of its entry.
VerdictInv ==
    /\ \A w \in Workers : checker[w] = "send" =>
          entry[w] \in DOMAIN told /\ passed[w] = Passed(told[entry[w]])
    /\ \A i \in 1..Len(out) :
          out[i].register \in DOMAIN told /\ out[i].passed = Passed(told[out[i].register])
    /\ \A r \in DOMAIN discovered : r \in DOMAIN told /\ discovered[r] = Passed(told[r])

\* What has been told of is on its way or collected.
NoneLost ==
    \A r \in DOMAIN told :
        \/ \E w \in Workers : checker[w] = "send" /\ entry[w] = r
        \/ \E i \in 1..Len(out) : out[i].register = r
        \/ r \in DOMAIN discovered

EndInv ==
    /\ phase = "off" => \A w \in Workers : checker[w] = "exit"
    /\ phase # "off" => \A w \in Workers : checker[w] = "exit" => entries = {}
    /\ phase # "off" /\ outClosed => \A w \in Workers : checker[w] = "exit"
    /\ phase = "over" => out = <<>> /\ outClosed

DiscoveryInv == DiscoveryTypeOK /\ HeldInv /\ VerdictInv /\ NoneLost /\ EndInv

-----------------------------------------------------------------------------
(* Facts *)

\* A verdict is true or false.
LEMMA PassedFact == ASSUME NEW x PROVE Passed(x) \in BOOLEAN
BY Zenon DEF Passed

\* There is always a worker.
LEMMA WorkerFact == 1 \in Workers
BY WorkerAssumption DEF Workers, workerCount, AtLeast, AtMost

\* Before any phase there is nothing to say.
LEMMA DiscoveryInitInv == DiscoveryOff => DiscoveryInv
<1> SUFFICES ASSUME DiscoveryOff PROVE DiscoveryInv
    OBVIOUS
<1> USE DEF DiscoveryOff
<1>1. DiscoveryTypeOK
  <2>1. passed \in [Workers -> BOOLEAN]
    BY Zenon
  <2>2. out \in Seq(Verdicts)
    OBVIOUS
  <2>3. QED
    BY <2>1, <2>2 DEF DiscoveryTypeOK
<1>2. DOMAIN told = {} /\ DOMAIN discovered = {}
    BY DEF Empty
<1>3. HeldInv
    BY <1>2 DEF HeldInv, Holds
<1>4. VerdictInv
    BY <1>2 DEF VerdictInv
<1>5. NoneLost
    BY <1>2 DEF NoneLost
<1>6. EndInv
    BY DEF EndInv
<1>7. QED
    BY <1>1, <1>3, <1>4, <1>5, <1>6 DEF DiscoveryInv

\* A phase starts with nothing told of.
LEMMA HandOverStep == ASSUME DiscoveryInv, HandOver PROVE DiscoveryInv'
<1>1. PICK section :
        /\ Range(section) \subseteq Registers /\ entries' = Range(section) /\ phase' = "range"
        /\ checker' = [w \in Workers |-> "take"] /\ out' = <<>> /\ outClosed' = FALSE
        /\ discovered' = Empty /\ told' = Empty /\ UNCHANGED <<entry, passed>>
    BY DEF HandOver, Discover
<1>2. DOMAIN told' = {} /\ DOMAIN discovered' = {}
    BY <1>1 DEF Empty
<1>3. DiscoveryTypeOK'
    BY <1>1 DEF DiscoveryInv, DiscoveryTypeOK
<1>4. HeldInv'
    BY <1>1, <1>2 DEF HeldInv, Holds
<1>5. VerdictInv'
    BY <1>1, <1>2 DEF VerdictInv
<1>6. NoneLost'
    BY <1>2 DEF NoneLost
<1>7. EndInv'
    BY <1>1 DEF EndInv
<1>8. QED
    BY <1>3, <1>4, <1>5, <1>6, <1>7 DEF DiscoveryInv

\* A worker that takes an entry is the only one to hold it; one that finds none
\* left exits.
LEMMA TakeEntryStep == ASSUME DiscoveryInv, NEW w \in Workers, TakeEntry(w) PROVE DiscoveryInv'
<1> USE DEF DiscoveryInv
<1>1. /\ phase # "off" /\ checker[w] = "take"
      /\ UNCHANGED <<phase, passed, out, outClosed, discovered, told>>
    BY DEF TakeEntry
<1>2. CASE entries = {} /\ CheckerTo(w, "exit") /\ UNCHANGED <<entries, entry>>
  <2>1. /\ checker' \in [Workers -> {"take", "validate", "send", "exit"}] /\ checker'[w] = "exit"
        /\ \A v \in Workers : v # w => checker'[v] = checker[v]
    BY <1>2 DEF CheckerTo, DiscoveryTypeOK
  <2>2. DiscoveryTypeOK'
    BY <1>1, <1>2, <2>1 DEF DiscoveryTypeOK
  <2>3. HeldInv'
    BY <1>1, <1>2, <2>1 DEF HeldInv, Holds
  <2>4. VerdictInv'
    BY <1>1, <1>2, <2>1 DEF VerdictInv
  <2>5. NoneLost'
    BY <1>1, <1>2, <2>1 DEF NoneLost
  <2>6. EndInv'
    BY <1>1, <1>2, <2>1 DEF EndInv
  <2>7. QED
    BY <2>2, <2>3, <2>4, <2>5, <2>6
<1>3. ASSUME NEW r \in entries, entries' = entries \ {r}, entry' = [entry EXCEPT ![w] = r],
             CheckerTo(w, "validate")
      PROVE  DiscoveryInv'
  <2>1. /\ checker' \in [Workers -> {"take", "validate", "send", "exit"}] /\ checker'[w] = "validate"
        /\ \A v \in Workers : v # w => checker'[v] = checker[v]
    BY <1>3 DEF CheckerTo, DiscoveryTypeOK
  <2>2. r \in Registers /\ entry'[w] = r /\ \A v \in Workers : v # w => entry'[v] = entry[v]
    BY <1>3 DEF DiscoveryTypeOK
  <2>3. DiscoveryTypeOK'
    BY <1>1, <1>3, <2>1, <2>2 DEF DiscoveryTypeOK
  <2>4. HeldInv'
    BY <1>1, <1>3, <2>1, <2>2 DEF HeldInv, Holds
  <2>5. VerdictInv'
    BY <1>1, <2>1, <2>2 DEF VerdictInv
  <2>6. NoneLost'
    BY <1>1, <2>1, <2>2 DEF NoneLost
  <2>7. EndInv'
    BY <1>1, <1>3, <2>1 DEF EndInv
  <2>8. QED
    BY <2>3, <2>4, <2>5, <2>6, <2>7
<1>4. QED
    BY <1>2, <1>3 DEF TakeEntry

\* Validating an entry tells of it for the first time.
LEMMA ValidateEntryStep == ASSUME DiscoveryInv, NEW w \in Workers, ValidateEntry(w) PROVE DiscoveryInv'
<1> USE DEF DiscoveryInv
<1>1. PICK results :
        /\ told' = Put(told, entry[w], results)
        /\ passed' = [passed EXCEPT ![w] = Passed(results)]
    BY Zenon DEF ValidateEntry
<1>2. /\ checker[w] = "validate" /\ CheckerTo(w, "send")
      /\ UNCHANGED <<phase, entries, entry, out, outClosed, discovered>>
    BY DEF ValidateEntry
<1>3. /\ checker' \in [Workers -> {"take", "validate", "send", "exit"}] /\ checker'[w] = "send"
      /\ \A v \in Workers : v # w => checker'[v] = checker[v]
    BY <1>2 DEF CheckerTo, DiscoveryTypeOK
<1>4. /\ passed' \in [Workers -> BOOLEAN] /\ passed'[w] = Passed(results)
      /\ \A v \in Workers : v # w => passed'[v] = passed[v]
    BY <1>1, PassedFact DEF DiscoveryTypeOK
<1>5. entry[w] \notin DOMAIN told /\ entry[w] \notin entries
    BY <1>2 DEF HeldInv, Holds
<1>6. /\ DOMAIN told' = DOMAIN told \cup {entry[w]} /\ told'[entry[w]] = results
      /\ \A r \in DOMAIN told : told'[r] = told[r]
  <2>1. /\ DOMAIN told' = DOMAIN told \cup {entry[w]} /\ told'[entry[w]] = results
        /\ \A r \in DOMAIN told : r # entry[w] => told'[r] = told[r]
    BY <1>1 DEF Put
  <2>2. QED
    BY <1>5, <2>1, Zenon
<1>7. DiscoveryTypeOK'
    BY <1>2, <1>3, <1>4 DEF DiscoveryTypeOK
<1>8. HeldInv'
    BY <1>2, <1>3, <1>5, <1>6 DEF HeldInv, Holds
<1>9. VerdictInv'
    BY <1>2, <1>3, <1>4, <1>5, <1>6 DEF VerdictInv
<1>10. NoneLost'
    BY <1>2, <1>3, <1>6 DEF NoneLost
<1>11. EndInv'
    BY <1>2, <1>3 DEF EndInv
<1>12. QED
    BY <1>7, <1>8, <1>9, <1>10, <1>11

\* A verdict that is sent is on out, which still is open.
LEMMA SendVerdictStep == ASSUME DiscoveryInv, NEW w \in Workers, SendVerdict(w) PROVE DiscoveryInv'
<1> USE DEF DiscoveryInv
<1> DEFINE verdict == [register |-> entry[w], passed |-> passed[w]]
<1>1. /\ checker[w] = "send" /\ ~outClosed /\ out' = Append(out, verdict) /\ CheckerTo(w, "take")
      /\ UNCHANGED <<phase, entries, entry, passed, outClosed, discovered, told>>
    BY DEF SendVerdict
<1>2. /\ checker' \in [Workers -> {"take", "validate", "send", "exit"}] /\ checker'[w] = "take"
      /\ \A v \in Workers : v # w => checker'[v] = checker[v]
    BY <1>1 DEF CheckerTo, DiscoveryTypeOK
<1>3. verdict \in Verdicts /\ verdict.register = entry[w] /\ verdict.passed = passed[w]
    BY <1>1 DEF Verdicts, DiscoveryTypeOK, HeldInv, Holds
<1> HIDE DEF verdict
<1>4. /\ out' \in Seq(Verdicts) /\ Len(out) \in Nat /\ Len(out') = Len(out) + 1
      /\ out'[Len(out) + 1] = verdict /\ \A i \in 1..Len(out) : out'[i] = out[i]
    BY <1>1, <1>3 DEF DiscoveryTypeOK
<1>5. DiscoveryTypeOK'
    BY <1>1, <1>2, <1>4 DEF DiscoveryTypeOK
<1>6. HeldInv'
    BY <1>1, <1>2 DEF HeldInv, Holds
<1>7. VerdictInv'
  <2>1. ASSUME NEW i \in 1..Len(out')
        PROVE  out'[i].register \in DOMAIN told /\ out'[i].passed = Passed(told[out'[i].register])
    <3>1. i \in 1..Len(out) \/ i = Len(out) + 1
        BY <1>4
    <3>2. QED
        BY <1>1, <1>3, <1>4, <3>1 DEF VerdictInv
  <2>2. QED
    BY <1>1, <1>2, <2>1 DEF VerdictInv
<1>8. NoneLost'
  <2> SUFFICES ASSUME NEW r \in DOMAIN told
               PROVE  \/ \E v \in Workers : checker'[v] = "send" /\ entry[v] = r
                      \/ \E i \in 1..Len(out') : out'[i].register = r
                      \/ r \in DOMAIN discovered
    BY <1>1 DEF NoneLost
  <2>1. CASE r = entry[w]
    BY <1>3, <1>4, <2>1
  <2>2. CASE \E i \in 1..Len(out) : out[i].register = r
    <3>1. PICK i \in 1..Len(out) : out[i].register = r
        BY <2>2
    <3>2. i \in 1..Len(out') /\ out'[i].register = r
        BY <1>4, <3>1
    <3>3. QED
        BY <3>2
  <2>3. QED
    BY <1>2, <2>1, <2>2 DEF NoneLost
<1>9. EndInv'
    BY <1>1, <1>2 DEF EndInv
<1>10. QED
    BY <1>5, <1>6, <1>7, <1>8, <1>9

\* A verdict that is received is in the map; nothing is left when out is closed
\* and empty.
LEMMA CollectStep == ASSUME DiscoveryInv, Collect PROVE DiscoveryInv'
<1> USE DEF DiscoveryInv
<1>1. phase = "range" /\ UNCHANGED <<entries, checker, entry, passed, outClosed, told>>
    BY DEF Collect
<1>2. CASE out = <<>> /\ outClosed /\ phase' = "over" /\ UNCHANGED <<discovered, out>>
  <2>1. DiscoveryTypeOK'
    BY <1>1, <1>2 DEF DiscoveryTypeOK
  <2>2. HeldInv' /\ VerdictInv' /\ NoneLost'
    BY <1>1, <1>2 DEF HeldInv, Holds, VerdictInv, NoneLost
  <2>3. EndInv'
    BY <1>1, <1>2 DEF EndInv
  <2>4. QED
    BY <2>1, <2>2, <2>3
<1>3. CASE /\ out # <<>> /\ out' = Tail(out) /\ UNCHANGED phase
           /\ discovered' = Put(discovered, Head(out).register, Head(out).passed)
  <2>1. /\ Len(out) \in Nat \ {0} /\ Head(out) = out[1] /\ 1 \in 1..Len(out)
        /\ out' \in Seq(Verdicts) /\ Len(out') = Len(out) - 1
        /\ \A i \in 1..Len(out') : out'[i] = out[i + 1] /\ i + 1 \in 1..Len(out)
    BY <1>3 DEF DiscoveryTypeOK
  <2>2. /\ DOMAIN discovered' = DOMAIN discovered \cup {out[1].register}
        /\ discovered'[out[1].register] = out[1].passed
        /\ \A r \in DOMAIN discovered : r # out[1].register => discovered'[r] = discovered[r]
    <3>1. discovered' = Put(discovered, out[1].register, out[1].passed)
        BY <1>3, <2>1
    <3>2. QED
        BY <3>1 DEF Put
  <2>3. DiscoveryTypeOK'
    BY <1>1, <1>3, <2>1 DEF DiscoveryTypeOK
  <2>4. HeldInv'
    BY <1>1 DEF HeldInv, Holds
  <2>5. VerdictInv'
    BY <1>1, <2>1, <2>2 DEF VerdictInv
  <2>6. NoneLost'
    <3> SUFFICES ASSUME NEW r \in DOMAIN told, r \notin DOMAIN discovered',
                        ~\E w \in Workers : checker[w] = "send" /\ entry[w] = r
                 PROVE  \E i \in 1..Len(out') : out'[i].register = r
        BY <1>1 DEF NoneLost
    <3>1. PICK i \in 1..Len(out) : out[i].register = r
        BY <2>2 DEF NoneLost
    <3>2. i # 1
        BY <2>2, <3>1
    <3>3. i - 1 \in 1..Len(out') /\ (i - 1) + 1 = i
        BY <2>1, <3>1, <3>2
    <3>4. out'[i - 1] = out[i]
        BY <2>1, <3>3
    <3>5. QED
        BY <3>1, <3>3, <3>4
  <2>7. EndInv'
    BY <1>1, <1>3 DEF EndInv
  <2>8. QED
    BY <2>3, <2>4, <2>5, <2>6, <2>7
<1>4. QED
    BY <1>2, <1>3 DEF Collect

\* Every step of discovery and of the loader around it keeps DiscoveryInv.
LEMMA DiscoveryNextInv ==
    DiscoveryInv /\ [HandOver \/ DiscoveryNext \/ TakeVerdicts]_discoveryVars => DiscoveryInv'
<1> SUFFICES ASSUME DiscoveryInv, [HandOver \/ DiscoveryNext \/ TakeVerdicts]_discoveryVars
             PROVE  DiscoveryInv'
    OBVIOUS
<1>1. CASE HandOver
    BY <1>1, HandOverStep
<1>2. CASE \E w \in Workers : Check(w)
    BY <1>2, TakeEntryStep, ValidateEntryStep, SendVerdictStep DEF Check
<1>3. CASE CloseOut
  <2>1. /\ phase = "range" /\ \A w \in Workers : checker[w] = "exit"
        /\ UNCHANGED <<phase, entries, checker, entry, passed, out, discovered, told>>
    BY <1>3 DEF CloseOut
  <2>2. DiscoveryTypeOK' /\ HeldInv'
    BY <2>1 DEF DiscoveryInv, DiscoveryTypeOK, HeldInv, Holds
  <2>3. VerdictInv' /\ NoneLost'
    BY <2>1 DEF DiscoveryInv, VerdictInv, NoneLost
  <2>4. EndInv'
    BY <2>1 DEF DiscoveryInv, EndInv
  <2>5. QED
    BY <2>2, <2>3, <2>4 DEF DiscoveryInv
<1>4. CASE Collect
    BY <1>4, CollectStep
<1>5. CASE TakeVerdicts \/ UNCHANGED discoveryVars
  <2>1. /\ UNCHANGED <<entries, checker, entry, passed, out, outClosed, discovered, told>>
        /\ phase' = phase \/ (phase = "over" /\ phase' = "off")
    BY <1>5 DEF TakeVerdicts, discoveryVars
  <2>2. DiscoveryTypeOK' /\ HeldInv'
    BY <2>1 DEF DiscoveryInv, DiscoveryTypeOK, HeldInv, Holds
  <2>3. VerdictInv' /\ NoneLost'
    BY <2>1 DEF DiscoveryInv, VerdictInv, NoneLost
  <2>4. EndInv'
    BY <2>1 DEF DiscoveryInv, EndInv
  <2>5. QED
    BY <2>2, <2>3, <2>4 DEF DiscoveryInv
<1>6. QED
    BY <1>1, <1>2, <1>3, <1>4, <1>5 DEF DiscoveryNext

\* The discovery phases of a load only reach states of DiscoveryInv.
THEOREM DiscoveryInvCorrect == DiscoverySpec => []DiscoveryInv
BY DiscoveryInitInv, DiscoveryNextInv, PTL DEF DiscoverySpec

\* However many entries and workers there are, and in whatever order they
\* finish, every entry has its verdict, and its own.
THEOREM VerdictsCorrect == DiscoverySpec => []VerdictsExact
<1>1. DiscoveryInv => VerdictsExact
  <2> SUFFICES ASSUME DiscoveryInv, phase = "over"
               PROVE  /\ DOMAIN discovered = DOMAIN told
                      /\ \A r \in DOMAIN told : discovered[r] = ("FAIL" \notin Range(told[r]))
                      /\ entries = {} /\ \A w \in Workers : checker[w] = "exit"
    BY Zenon DEF VerdictsExact
  <2>1. (\A w \in Workers : checker[w] = "exit") /\ out = <<>>
    BY DEF DiscoveryInv, EndInv
  <2>2. entries = {}
    BY <2>1, WorkerFact DEF DiscoveryInv, EndInv
  <2>3. DOMAIN discovered = DOMAIN told
    BY <2>1 DEF DiscoveryInv, VerdictInv, NoneLost
  <2>4. \A r \in DOMAIN told : discovered[r] = Passed(told[r])
    BY <2>3 DEF DiscoveryInv, VerdictInv
  <2>5. QED
    BY <2>1, <2>2, <2>3, <2>4, Zenon DEF Passed
<1>2. QED
    BY <1>1, DiscoveryInvCorrect, PTL

-----------------------------------------------------------------------------
(* add and autoadd: the inductive invariant *)

Arguments == Paths \cup Names
Live == {"next", "type", "ports", "write", "ok", "partial"}

\* The types of what add and autoadd keep.
AddTypeInv ==
    /\ op \in {"autoadd"} \cup Addable
    /\ asked \in Seq(Arguments)
    /\ \A i, j \in 1..Len(asked) : asked[i] = asked[j] => i = j
    /\ autoType \in 1..8 /\ matched \in BOOLEAN
    /\ apc \in {"read", "error", "unwritten"} \cup Live

\* What is left of the arguments is their end.
ArgsInv ==
    /\ args \in Seq(Arguments) /\ Len(args) <= Len(asked)
    /\ \A i \in 1..Len(args) : args[i] = asked[Len(asked) - Len(args) + i]
    /\ apc \in {"type", "ports"} => op = "autoadd" /\ args # <<>>
    /\ apc = "ports" => autoType = 5 /\ "process" \in AutoAddable

OldEntries(es) == \A e \in DOMAIN es : \E title \in BOOLEAN : es[e] = Entry("old", title)

\* The gossfile is written once, at the end.
FileInv ==
    /\ OldEntries(gossfile0.entries)
    /\ apc \notin {"ok", "partial", "unwritten"} => gossfile = gossfile0
    /\ Written => gossfile = Gossfile(config)

Kept ==
    \A e \in DOMAIN gossfile0.entries :
        /\ e \in DOMAIN config
        /\ config[e].title = gossfile0.entries[e].title
        /\ ~About(e) => config[e] = gossfile0.entries[e]

\* What an entry may say of a resource that was found so.
Says(e, state, found) ==
    /\ state # "old"
    /\ \/ e[1] = "port" /\ found = "failed"
       \/ state = found /\ found \notin {"unread", "unfound", "failed"}

Learned ==
    \A e \in DOMAIN config :
        config[e].state # "old" => e \in DOMAIN learned /\ Says(e, config[e].state, learned[e])

ConfigInv == apc \in Live => Kept /\ Learned

-----------------------------------------------------------------------------
(* The arguments autoadd has done with, and the one it is at *)

Processed(k) == \E i \in 1..(Len(asked) - Len(args)) : asked[i] = k

FoundAs(t, k) ==
    /\ <<t, k>> \in DOMAIN learned /\ learned[<<t, k>>] \in {"present", "partly"}
    /\ <<t, k>> \notin skipped
    /\ t = "file" => k \in Paths

FoundUpTo(n, k) == \E j \in 1..n : FoundAs(AutoAddDescriptors[j], k)

PortLearned(k) == "port" \in AutoAddable => <<"port", k>> \in DOMAIN learned

LookupsInv ==
    \A e \in DOMAIN learned :
        e = <<e[1], e[2]>> /\ e[1] \in AutoAddable /\ \E j \in 1..7 : e[1] = AutoAddDescriptors[j]

SkippedInv ==
    \A e \in skipped :
        \/ e \in DOMAIN learned /\ learned[e] = "failed"
        \/ \E j \in (1..7) \ {4} :
              /\ e[1] = AutoAddDescriptors[j]
              /\ Processed(e[2]) \/ (apc \in {"type", "ports"} /\ e[2] = Head(args) /\ autoType > j)

DoneInv ==
    /\ \A k \in unmatched : k \in Arguments /\ Processed(k)
    /\ \A k \in Arguments : Processed(k) => (k \in unmatched <=> ~FoundUpTo(7, k)) /\ PortLearned(k)

CurrentInv ==
    apc \in {"type", "ports"} =>
        /\ matched <=> FoundUpTo(IF apc = "ports" THEN 5 ELSE autoType - 1, Head(args))
        /\ autoType > 4 => PortLearned(Head(args))

OutcomeInv ==
    /\ apc \in {"write", "ok", "partial"} =>
          args = <<>> /\ ~(asked # <<>> /\ \A i \in 1..Len(asked) : asked[i] \in unmatched)
    /\ apc = "ok" => unmatched = {}
    /\ apc = "partial" => unmatched # {}

AutoInv ==
    op = "autoadd" /\ apc # "error" =>
        LookupsInv /\ SkippedInv /\ DoneInv /\ CurrentInv /\ OutcomeInv

AddInv == AddTypeInv /\ ArgsInv /\ FileInv /\ ConfigInv /\ AutoInv

-----------------------------------------------------------------------------
(* Facts *)

\* A lookup leaves what was learned before as it was.
LEMMA FindsFact ==
    ASSUME NEW e, NEW found, Finds(e, found)
    PROVE  /\ DOMAIN learned' = DOMAIN learned \cup {e} /\ learned'[e] = found
           /\ \A x \in DOMAIN learned : learned'[x] = learned[x]
BY DEF Finds, With

\* An upsert keeps the title.
LEMMA UpsertTitle ==
    ASSUME NEW cfg, NEW e \in DOMAIN cfg, NEW state, cfg[e].title \in BOOLEAN
    PROVE  UpsertLive(cfg, e, state)[e].title = cfg[e].title
<1>1. UpsertLive(cfg, e, state)[e] = [state |-> state, title |-> e \in DOMAIN cfg /\ cfg[e].title]
    BY DEF UpsertLive, With, Entry
<1>2. UpsertLive(cfg, e, state)[e].title = (e \in DOMAIN cfg /\ cfg[e].title)
    BY <1>1
<1>3. QED
    BY <1>2

\* A constructor that returns an entry says what was found.
LEMMA ConstructorFact ==
    ASSUME NEW t \in Addable, NEW k, NEW found \in FoundOf(t), fromSystem(t, found) # "error"
    PROVE  Says(<<t, k>>, fromSystem(t, found), found)
<1> USE DEF Addable, FoundOf, fromSystem, Says, NewFile, NewService, NewRegistry, NewProcess,
        NewPackage, NewGroup, NewUser, NewInterface, NewMount, NewDNS, NewCommand, NewHTTP,
        NewKernelParam, NewPort, NewAddr, NewSyverfile
<1> DEFINE e == <<t, k>>
<1>0. e[1] = t
    OBVIOUS
<1>1. CASE t = "file"
    BY <1>0, <1>1
<1>2. CASE t = "service"
    BY <1>0, <1>2
<1>3. CASE t = "registry"
    BY <1>0, <1>3
<1>4. CASE t = "process"
    BY <1>0, <1>4
<1>5. CASE t = "package"
    BY <1>0, <1>5
<1>6. CASE t = "group"
    BY <1>0, <1>6
<1>7. CASE t = "user"
    BY <1>0, <1>7
<1>8. CASE t = "interface"
    BY <1>0, <1>8
<1>9. CASE t = "mount"
    BY <1>0, <1>9
<1>10. CASE t = "dns"
    BY <1>0, <1>10
<1>11. CASE t = "command"
    BY <1>0, <1>11
<1>12. CASE t = "http"
    BY <1>0, <1>12
<1>13. CASE t = "kernel-param"
    BY <1>0, <1>13
<1>14. CASE t = "port"
    BY <1>0, <1>14
<1>15. CASE t = "addr"
    BY <1>0, <1>15
<1>16. CASE t = "gossfile"
    BY <1>0, <1>16
<1>17. QED
    BY <1>1, <1>2, <1>3, <1>4, <1>5, <1>6, <1>7, <1>8, <1>9, <1>10, <1>11, <1>12, <1>13,
       <1>14, <1>15, <1>16

\* The gossfile a run starts from has titles, or none.
LEMMA OldFact ==
    ASSUME NEW es, OldEntries(es), NEW e \in DOMAIN es
    PROVE  es[e].title \in BOOLEAN /\ es[e].state = "old"
<1>1. PICK title \in BOOLEAN : es[e] = [state |-> "old", title |-> title]
    BY DEF OldEntries, Entry
<1>2. QED
    BY <1>1

\* Putting an entry the command is about into the config keeps what it was.
LEMMA UpsertKept ==
    ASSUME Kept, OldEntries(gossfile0.entries), NEW e, NEW state, About(e),
           config' = UpsertLive(config, e, state), UNCHANGED <<gossfile0, asked>>
    PROVE  Kept'
<1>1. /\ DOMAIN config' = DOMAIN config \cup {e}
      /\ \A x \in DOMAIN config : x # e => config'[x] = config[x]
    BY DEF UpsertLive, With, Entry
<1>2. \A x : About(x)' <=> About(x)
    BY DEF About
<1>3. ASSUME NEW x \in DOMAIN gossfile0.entries
      PROVE  /\ x \in DOMAIN config' /\ config'[x].title = gossfile0.entries[x].title
             /\ ~About(x) => config'[x] = gossfile0.entries[x]
  <2>1. x \in DOMAIN config /\ config[x].title = gossfile0.entries[x].title
    BY <1>3 DEF Kept
  <2>2. gossfile0.entries[x].title \in BOOLEAN
    BY <1>3, OldFact
  <2>3. CASE x = e
    <3>1. config'[x].title = config[x].title
        BY <2>1, <2>2, <2>3, UpsertTitle
    <3>2. QED
        BY <1>1, <2>1, <2>3, <3>1
  <2>4. CASE x # e
    BY <1>1, <1>3, <2>1, <2>4 DEF Kept
  <2>5. QED
    BY <2>3, <2>4
<1>4. QED
    BY <1>2, <1>3 DEF Kept

\* Every entry of the config still says what was learned, after one lookup and
\* what its constructor made of it.
LEMMA UpsertLearned ==
    ASSUME Learned, NEW e, NEW found, NEW state, Finds(e, found), Says(e, state, found),
           config' = UpsertLive(config, e, state)
    PROVE  Learned'
<1>1. /\ DOMAIN config' = DOMAIN config \cup {e} /\ config'[e].state = state
      /\ \A x \in DOMAIN config : x # e => config'[x] = config[x]
    BY DEF UpsertLive, With, Entry
<1>2. /\ DOMAIN learned' = DOMAIN learned \cup {e} /\ learned'[e] = found
      /\ \A x \in DOMAIN learned : learned'[x] = learned[x]
    BY FindsFact
<1>3. QED
    BY <1>1, <1>2 DEF Learned, Says

\* A lookup alone changes nothing.
LEMMA LookupLearned ==
    ASSUME Kept, Learned, NEW e, NEW found, Finds(e, found), UNCHANGED <<config, gossfile0, asked>>
    PROVE  Kept' /\ Learned'
<1>1. /\ DOMAIN learned' = DOMAIN learned \cup {e} /\ learned'[e] = found
      /\ \A x \in DOMAIN learned : learned'[x] = learned[x]
    BY FindsFact
<1>2. QED
    BY <1>1 DEF Kept, Learned, About, Says

\* The argument at hand is one of those given.
LEMMA HeadFact ==
    ASSUME ArgsInv, AddTypeInv, args # <<>>
    PROVE  /\ Len(args) > 0 /\ Head(args) \in Arguments
           /\ Head(args) = asked[Len(asked) - Len(args) + 1]
           /\ Len(asked) - Len(args) + 1 \in 1..Len(asked)
           /\ \A t : About(<<t, Head(args)>>)
           /\ ~Processed(Head(args))
<1>1. /\ args \in Seq(Arguments) /\ asked \in Seq(Arguments) /\ Len(args) <= Len(asked)
      /\ \A i \in 1..Len(args) : args[i] = asked[Len(asked) - Len(args) + i]
      /\ \A i, j \in 1..Len(asked) : asked[i] = asked[j] => i = j
    BY DEF ArgsInv, AddTypeInv
<1>2. Len(args) > 0 /\ Head(args) = args[1] /\ Head(args) \in Arguments
    BY <1>1
<1>3. /\ Head(args) = asked[Len(asked) - Len(args) + 1]
      /\ Len(asked) - Len(args) + 1 \in 1..Len(asked)
    BY <1>1, <1>2
<1>4. ASSUME NEW t PROVE About(<<t, Head(args)>>)
  <2>1. \E i \in 1..Len(asked) : asked[i] = Head(args)
    BY <1>3
  <2>2. QED
    BY <2>1 DEF About
<1>5. ASSUME NEW i \in 1..(Len(asked) - Len(args)), asked[i] = Head(args) PROVE FALSE
  <2>1. Len(asked) \in Nat /\ Len(args) \in Nat
    BY <1>1
  <2>2. i \in 1..Len(asked) /\ i # Len(asked) - Len(args) + 1
    BY <1>5, <2>1
  <2>3. QED
    BY <1>1, <1>3, <1>5, <2>2
<1>6. QED
    BY <1>2, <1>3, <1>4, <1>5 DEF Processed

\* With an argument less to do, those before it and it are done.
LEMMA TailFact ==
    ASSUME ArgsInv, AddTypeInv, args # <<>>, args' = Tail(args), asked' = asked
    PROVE  /\ args' \in Seq(Arguments) /\ Len(args') <= Len(asked)
           /\ \A i \in 1..Len(args') : args'[i] = asked[Len(asked) - Len(args') + i]
           /\ \A k : Processed(k)' <=> Processed(k) \/ k = Head(args)
<1>1. /\ args \in Seq(Arguments) /\ asked \in Seq(Arguments) /\ Len(args) <= Len(asked)
      /\ \A i \in 1..Len(args) : args[i] = asked[Len(asked) - Len(args) + i]
    BY DEF ArgsInv, AddTypeInv
<1>2. args' \in Seq(Arguments) /\ Len(args') = Len(args) - 1 /\ \A i \in 1..Len(args') : args'[i] = args[i + 1]
    BY <1>1
<1>3. Len(asked) \in Nat /\ Len(args) \in Nat /\ Len(args) > 0
    BY <1>1
<1>4. \A i \in 1..Len(args') : args'[i] = asked[Len(asked) - Len(args') + i]
  <2> TAKE i \in 1..Len(args')
  <2>1. i + 1 \in 1..Len(args) /\ Len(asked) - Len(args) + (i + 1) = Len(asked) - Len(args') + i
    BY <1>2, <1>3
  <2>2. QED
    BY <1>1, <1>2, <2>1
<1>5. Head(args) = asked[Len(asked) - Len(args) + 1]
    BY HeadFact
<1>6. 1..(Len(asked) - Len(args')) = 1..(Len(asked) - Len(args)) \cup {Len(asked) - Len(args) + 1}
    BY <1>1, <1>2, <1>3
<1>7. \A k : Processed(k)' <=> Processed(k) \/ k = Head(args)
    BY <1>5, <1>6 DEF Processed
<1>8. QED
    BY <1>1, <1>2, <1>3, <1>4, <1>7

\* The descriptors, by their place.
LEMMA DescriptorFact ==
    /\ \A i, j \in 1..7 : AutoAddDescriptors[i] = AutoAddDescriptors[j] => i = j
    /\ \A i \in 1..7 : AutoAddDescriptors[i] \in Addable
    /\ \A i \in 1..7 : AutoAddDescriptors[i] = "file" <=> i = 1
    /\ \A i \in 1..7 : AutoAddDescriptors[i] = "port" <=> i = 4
    /\ \A i \in 1..7 : AutoAddDescriptors[i] = "process" <=> i = 5
    /\ Len(AutoAddDescriptors) = 7
<1>1. \A i \in 1..7 : i \in {1, 2, 3, 4, 5, 6, 7}
    OBVIOUS
<1>2. QED
    BY <1>1 DEF AutoAddDescriptors, Addable

\* A lookup shows in what it is about, and nowhere else.
LEMMA FoundElsewhere ==
    ASSUME NEW t, NEW k, NEW found, Finds(<<t, k>>, found),
           skipped' = skipped \/ skipped' = skipped \cup {<<t, k>>}
    PROVE  \A u, l : u # t \/ l # k => (FoundAs(u, l)' <=> FoundAs(u, l))
<1>1. /\ DOMAIN learned' = DOMAIN learned \cup {<<t, k>>}
      /\ \A x \in DOMAIN learned : learned'[x] = learned[x]
    BY FindsFact
<1>2. \A u, l : u # t \/ l # k => <<u, l>> # <<t, k>>
    OBVIOUS
<1>3. QED
    BY <1>1, <1>2 DEF FoundAs

\* A port that was looked up before is found as it was.
LEMMA PortAgain ==
    ASSUME NEW p, NEW found, Finds(<<"port", p>>, found), <<"port", p>> \in DOMAIN learned,
           skipped' = IF found = "failed" THEN skipped \cup {<<"port", p>>} ELSE skipped
    PROVE  FoundAs("port", p)' <=> FoundAs("port", p)
<1>1. learned'[<<"port", p>>] = found /\ found = learned[<<"port", p>>]
      /\ <<"port", p>> \in DOMAIN learned'
    BY FindsFact DEF Finds
<1>2. QED
    BY <1>1 DEF FoundAs

-----------------------------------------------------------------------------
(* The steps *)

\* A run starts with nothing looked up.
LEMMA AddInitInv == AnyAdd => AddInv
<1> SUFFICES ASSUME AnyAdd PROVE AddInv
    OBVIOUS
<1> USE DEF AnyAdd, AddInit
<1>1. AddTypeInv
  <2>1. matched \in BOOLEAN
    BY Zenon
  <2>2. autoType \in 1..8 /\ asked \in Seq(Arguments)
    BY DEF Arguments
  <2>3. op \in {"autoadd"} \cup Addable /\ \A i, j \in 1..Len(asked) : asked[i] = asked[j] => i = j
    OBVIOUS
  <2>4. QED
    BY <2>1, <2>2, <2>3 DEF AddTypeInv, Live
<1>2. ArgsInv
    BY DEF ArgsInv, Arguments
<1>3. OldEntries(gossfile0.entries)
  <2>1. CASE gossfile \in {NoFile, Garbled}
    BY <2>1 DEF NoFile, Garbled, File, NoEntries, OldEntries
  <2>2. CASE gossfile \notin {NoFile, Garbled}
    <3>1. PICK es : gossfile = [status |-> "good", entries |-> es] /\ OldEntries(es)
        BY <2>2 DEF Gossfile, File, OldEntries
    <3>2. gossfile0.entries = es
        BY <3>1
    <3>3. QED
        BY <3>1, <3>2
  <2>3. QED
    BY <2>1, <2>2
<1>4. FileInv
    BY <1>3 DEF FileInv, Written
<1>5. ConfigInv
    BY DEF ConfigInv, Live
<1>6. AutoInv
  <2>1. DOMAIN learned = {} /\ skipped = {} /\ unmatched = {}
    BY DEF NoEntries
  <2>2. \A k : ~Processed(k)
    BY <1>1 DEF Processed, AddTypeInv
  <2>3. QED
    BY <2>1, <2>2 DEF AutoInv, LookupsInv, SkippedInv, DoneInv, CurrentInv, OutcomeInv
<1>7. QED
    BY <1>1, <1>2, <1>4, <1>5, <1>6 DEF AddInv

\* Reading the gossfile: the config is what it says.
LEMMA ReadStoreStep == ASSUME AddInv, ReadStore PROVE AddInv'
<1> USE DEF AddInv
<1>1. /\ apc = "read"
      /\ UNCHANGED <<op, args, autoType, owned, matched, unmatched, gossfile, gossfile0, asked, learned, skipped>>
      /\ apc' = "error" \/ (apc' = "next" /\ config' = gossfile.entries)
    BY DEF ReadStore
<1>2. AddTypeInv' /\ ArgsInv'
    BY <1>1 DEF AddTypeInv, ArgsInv, Live
<1>3. FileInv'
    BY <1>1 DEF FileInv, Written
<1>4. ConfigInv'
  <2> SUFFICES ASSUME apc' = "next", config' = gossfile0.entries PROVE Kept' /\ Learned'
    BY <1>1 DEF ConfigInv, FileInv, Live
  <2>1. Kept'
    BY <1>1 DEF Kept
  <2>2. Learned'
    BY <1>1, OldFact DEF Learned, FileInv
  <2>3. QED
    BY <2>1, <2>2
<1>5. AutoInv'
  <2> SUFFICES ASSUME op = "autoadd", apc' = "next"
               PROVE  LookupsInv' /\ SkippedInv' /\ DoneInv' /\ CurrentInv' /\ OutcomeInv'
    BY <1>1 DEF AutoInv
  <2>1. LookupsInv /\ SkippedInv /\ DoneInv
    BY <1>1 DEF AutoInv
  <2>2. SkippedInv'
    BY <1>1, <2>1 DEF SkippedInv, Processed
  <2>3. DoneInv'
    BY <1>1, <2>1 DEF DoneInv, Processed, FoundUpTo, FoundAs, PortLearned
  <2>4. QED
    BY <1>1, <2>1, <2>2, <2>3 DEF LookupsInv, CurrentInv, OutcomeInv
<1>6. QED
    BY <1>2, <1>3, <1>4, <1>5

\* An error ends the command before anything is written.
LEMMA ErrorStep ==
    ASSUME AddInv, apc \in {"next", "type", "ports", "write"}, apc' = "error",
           UNCHANGED <<op, args, autoType, owned, matched, unmatched, config, gossfile, gossfile0, asked>>
    PROVE  AddInv'
<1> USE DEF AddInv
<1>1. AddTypeInv' /\ ArgsInv'
    BY DEF AddTypeInv, ArgsInv
<1>2. FileInv'
    BY DEF FileInv, Written
<1>3. ConfigInv' /\ AutoInv'
    BY DEF ConfigInv, AutoInv, Live
<1>4. QED
    BY <1>1, <1>2, <1>3

\* add: an argument is looked up and its entry put into the config.
LEMMA AddResourceStep == ASSUME AddInv, AddResource PROVE AddInv'
<1> DEFINE e == <<op, Head(args)>>
<1>1. PICK found \in FoundOf(op) :
        /\ Finds(e, found)
        /\ IF fromSystem(op, found) = "error"
           THEN End("error")
           ELSE /\ config' = UpsertLive(config, e, fromSystem(op, found))
                /\ gossfile' = savedSoFar(config')
                /\ args' = Tail(args)
                /\ UNCHANGED <<op, autoType, owned, matched, unmatched, gossfile0, asked, apc>>
    BY DEF AddResource
<1>2. apc = "next" /\ op # "autoadd" /\ args # <<>> /\ op \in Addable
    BY DEF AddResource, AddInv, AddTypeInv
<1>3. CASE fromSystem(op, found) = "error"
    BY <1>1, <1>2, <1>3, ErrorStep DEF End
<1>4. CASE fromSystem(op, found) # "error"
  <2>1. /\ config' = UpsertLive(config, e, fromSystem(op, found)) /\ gossfile' = gossfile
        /\ args' = Tail(args) /\ UNCHANGED <<op, autoType, matched, unmatched, gossfile0, asked, apc>>
    BY <1>1, <1>4 DEF savedSoFar
  <2>2. AddTypeInv' /\ ArgsInv'
    BY <1>2, <2>1, TailFact DEF AddInv, AddTypeInv, ArgsInv
  <2>3. FileInv'
    BY <1>2, <2>1 DEF AddInv, FileInv, Written
  <2>4. About(e) /\ Says(e, fromSystem(op, found), found)
    BY <1>2, <1>4, HeadFact, ConstructorFact DEF AddInv
  <2>5. Kept /\ Learned /\ OldEntries(gossfile0.entries)
    BY <1>2 DEF AddInv, ConfigInv, FileInv, Live
  <2>6. Kept'
    BY <2>1, <2>4, <2>5, UpsertKept
  <2>7. Learned'
    BY <1>1, <2>1, <2>4, <2>5, UpsertLearned
  <2>8. ConfigInv' /\ AutoInv'
    BY <1>2, <2>1, <2>6, <2>7 DEF ConfigInv, AutoInv
  <2>9. QED
    BY <2>2, <2>3, <2>8 DEF AddInv
<1>5. QED
    BY <1>3, <1>4

\* autoadd starts on an argument.
LEMMA NextKeyStep == ASSUME AddInv, NextKey PROVE AddInv'
<1> USE DEF AddInv
<1>1. /\ apc = "next" /\ op = "autoadd" /\ args # <<>> /\ apc' = "type" /\ autoType' = 1 /\ matched' = FALSE
      /\ UNCHANGED <<op, args, owned, unmatched, config, gossfile, gossfile0, asked, learned, skipped>>
    BY DEF NextKey
<1>2. AddTypeInv' /\ ArgsInv'
  <2>1. matched' \in BOOLEAN
    BY <1>1, Zenon
  <2>2. QED
    BY <1>1, <2>1 DEF AddTypeInv, ArgsInv, Live
<1>3. FileInv'
    BY <1>1 DEF FileInv, Written
<1>4. ConfigInv'
    BY <1>1 DEF ConfigInv, Live, Kept, Learned, About, Says
<1>5. LookupsInv /\ SkippedInv /\ DoneInv
    BY <1>1 DEF AutoInv
<1>6. LookupsInv' /\ OutcomeInv'
    BY <1>1, <1>5 DEF LookupsInv, OutcomeInv
<1>7. SkippedInv'
    BY <1>1, <1>5 DEF SkippedInv, Processed
<1>8. DoneInv'
    BY <1>1, <1>5 DEF DoneInv, Processed, FoundUpTo, FoundAs, PortLearned
<1>9. CurrentInv'
    BY <1>1 DEF CurrentInv, FoundUpTo
<1>10. AutoInv'
    BY <1>6, <1>7, <1>8, <1>9 DEF AutoInv
<1>11. QED
    BY <1>2, <1>3, <1>4, <1>10

\* A type that is not tried for the argument: nothing of that type was found.
LEMMA NotTriedStep ==
    ASSUME AddInv, apc = "type", autoType <= 7, ~Tries(AutoAddDescriptors[autoType], Head(args)),
           autoType' = autoType + 1,
           UNCHANGED <<op, args, owned, matched, unmatched, config, gossfile, gossfile0,
                       asked, learned, skipped, apc>>
    PROVE  AddInv'
<1> USE DEF AddInv
<1> DEFINE k == Head(args)
           t == AutoAddDescriptors[autoType]
<1>1. op = "autoadd" /\ args # <<>> /\ autoType \in 1..7
    BY DEF ArgsInv, AddTypeInv
<1>2. AddTypeInv' /\ ArgsInv'
    BY <1>1 DEF AddTypeInv, ArgsInv
<1>3. FileInv'
    BY DEF FileInv, Written
<1>4. ConfigInv'
    BY DEF ConfigInv, Kept, Learned, About, Says
<1>5. LookupsInv /\ SkippedInv /\ DoneInv /\ CurrentInv
    BY <1>1 DEF AutoInv
<1>6. LookupsInv' /\ OutcomeInv'
    BY <1>5 DEF LookupsInv, OutcomeInv
<1>7. SkippedInv'
    BY <1>1, <1>5 DEF SkippedInv, Processed
<1>8. DoneInv'
    BY <1>5 DEF DoneInv, Processed, FoundUpTo, FoundAs, PortLearned
<1>9. CurrentInv'
  <2>1. ~FoundAs(t, k)
    <3>1. CASE t \notin AutoAddable
      <4>1. ASSUME <<t, k>> \in DOMAIN learned PROVE FALSE
        <5> DEFINE e == <<t, k>>
        <5>1. e[1] = t /\ e \in DOMAIN learned
            BY <4>1
        <5>2. QED
            BY <3>1, <1>5, <5>1 DEF LookupsInv
      <4>2. QED
        BY <4>1 DEF FoundAs
    <3>2. CASE t \in AutoAddable
        BY <3>2 DEF Tries, FoundAs
    <3>3. QED
        BY <3>1, <3>2
  <2>2. \A u, l : FoundAs(u, l)' <=> FoundAs(u, l)
    BY DEF FoundAs
  <2>3. 1..autoType = 1..(autoType - 1) \cup {autoType}
    BY <1>1
  <2>4. FoundUpTo(autoType, k) <=> FoundUpTo(autoType - 1, k)
    BY <2>1, <2>3 DEF FoundUpTo
  <2>5. matched <=> FoundUpTo(autoType - 1, k)
    BY <1>5 DEF CurrentInv
  <2>6. autoType' - 1 = autoType
    BY <1>1
  <2>7. autoType' > 4 => PortLearned(k)
    <3>1. CASE autoType > 4
        BY <1>5, <3>1 DEF CurrentInv
    <3>2. CASE autoType = 4
        BY <3>2, <1>1, DescriptorFact DEF Tries, PortLearned
    <3>3. QED
        BY <1>1, <3>1, <3>2
  <2>8. PortLearned(k)' <=> PortLearned(k)
    BY DEF PortLearned
  <2>9. (FoundUpTo(autoType - 1, k))' <=> FoundUpTo(autoType, k)
    BY <2>2, <2>6 DEF FoundUpTo
  <2>10. QED
    BY <2>4, <2>5, <2>7, <2>8, <2>9 DEF CurrentInv
<1>10. AutoInv'
    BY <1>6, <1>7, <1>8, <1>9 DEF AutoInv
<1>11. QED
    BY <1>2, <1>3, <1>4, <1>10

\* A type that is tried: the argument is found as that type exactly when it is
\* put into the config.
LEMMA TriedStep ==
    ASSUME AddInv, apc = "type", NEW t, NEW k, k = Head(args),
           autoType <= 7, t = AutoAddDescriptors[autoType], Tries(t, k), AppendIfExists(t, k)
    PROVE  AddInv'
<1> DEFINE e == <<t, k>>
<1>1. PICK found \in FoundOf(t), again \in BOOLEAN :
        /\ Finds(e, found)
        /\ again => ExistsMayFail(t)
        /\ IF fromSystem(t, found) = "error"
           THEN End("error") /\ UNCHANGED skipped
           ELSE LET ok == found \in {"present", "partly"} /\ ~again
                IN  /\ config' = IF ok THEN UpsertLive(config, e, fromSystem(t, found)) ELSE config
                    /\ matched' = foundAny(ok)
                    /\ skipped' = IF again \/ found = "failed" THEN skipped \cup {e} ELSE skipped
                    /\ IF t = "process" /\ ok
                       THEN /\ \E ports \in SUBSET PortKeys : owned' = ports
                            /\ apc' = "ports" /\ UNCHANGED autoType
                       ELSE autoType' = autoType + 1 /\ UNCHANGED <<owned, apc>>
                    /\ UNCHANGED <<op, args, unmatched, gossfile, gossfile0, asked>>
    BY DEF AppendIfExists
<1>2. op = "autoadd" /\ args # <<>> /\ autoType \in 1..7 /\ t \in Addable /\ t \in AutoAddable
    BY DescriptorFact DEF AddInv, ArgsInv, AddTypeInv, Tries
<1>3. CASE fromSystem(t, found) = "error"
    BY <1>1, <1>3, ErrorStep DEF End
<1>4. CASE fromSystem(t, found) # "error"
  <2> DEFINE ok == found \in {"present", "partly"} /\ ~again
  <2>1. /\ config' = IF ok THEN UpsertLive(config, e, fromSystem(t, found)) ELSE config
        /\ UNCHANGED <<op, args, unmatched, gossfile, gossfile0, asked>>
    BY <1>1, <1>4
  <2>2. matched' = (matched \/ ok)
    BY <1>1, <1>4 DEF foundAny
  <2>3. skipped' = IF again \/ found = "failed" THEN skipped \cup {e} ELSE skipped
    BY <1>1, <1>4
  <2>4. \/ t = "process" /\ apc' = "ports" /\ autoType' = autoType
        \/ apc' = "type" /\ autoType' = autoType + 1
    BY <1>1, <1>4
  <2>5. /\ DOMAIN learned' = DOMAIN learned \cup {e} /\ learned'[e] = found
        /\ \A x \in DOMAIN learned : learned'[x] = learned[x]
        /\ e \in DOMAIN learned => found = learned[e]
    BY <1>1, FindsFact DEF Finds
  <2>6. again => t # "port" /\ t # "process"
    BY <1>1 DEF ExistsMayFail
  <2>7. /\ t = "port" <=> autoType = 4
        /\ t = "process" <=> autoType = 5
        /\ \A j \in 1..7 : t = AutoAddDescriptors[j] => j = autoType
    BY <1>2, DescriptorFact
  <2>8. k \in Arguments /\ About(e) /\ ~Processed(k)
    BY <1>2, HeadFact DEF AddInv
  <2>9. \A l : Processed(l)' <=> Processed(l)
    BY <2>1 DEF Processed
  <2>10. AddTypeInv' /\ ArgsInv'
    <3>1. matched' \in BOOLEAN
        BY <2>2 DEF AddInv, AddTypeInv
    <3>2. autoType' \in 1..8
        BY <1>2, <2>4
    <3>3. AddTypeInv'
        BY <2>1, <2>4, <3>1, <3>2 DEF AddInv, AddTypeInv, Live
    <3>4. ArgsInv'
        BY <1>2, <2>1, <2>4, <2>7 DEF AddInv, ArgsInv
    <3>5. QED
        BY <3>3, <3>4
  <2>11. FileInv'
    BY <2>1, <2>4 DEF AddInv, FileInv, Written
  <2>12. ConfigInv'
    <3>1. Kept /\ Learned /\ OldEntries(gossfile0.entries)
        BY DEF AddInv, ConfigInv, FileInv, Live
    <3>2. Says(e, fromSystem(t, found), found)
        BY <1>2, <1>4, ConstructorFact
    <3>3. CASE ok
      <4>1. config' = UpsertLive(config, e, fromSystem(t, found))
        BY <2>1, <3>3
      <4>2. Kept'
        BY <2>1, <2>8, <3>1, <4>1, UpsertKept
      <4>3. Learned'
        BY <1>1, <3>1, <3>2, <4>1, UpsertLearned
      <4>4. QED
        BY <4>2, <4>3 DEF ConfigInv
    <3>4. CASE ~ok
      <4>1. config' = config
        BY <2>1, <3>4
      <4>2. QED
        BY <1>1, <2>1, <3>1, <4>1, LookupLearned DEF ConfigInv
    <3>5. QED
        BY <3>3, <3>4
  <2>13. LookupsInv /\ SkippedInv /\ DoneInv /\ CurrentInv
    BY <1>2 DEF AddInv, AutoInv
  <2>14. e[1] = t /\ e[2] = k
    OBVIOUS
  <2>15. LookupsInv'
    BY <1>2, <2>5, <2>13, <2>14 DEF LookupsInv
  <2>16. SkippedInv'
    <3> SUFFICES ASSUME NEW x \in skipped'
                 PROVE  \/ x \in DOMAIN learned' /\ learned'[x] = "failed"
                        \/ \E j \in (1..7) \ {4} :
                              /\ x[1] = AutoAddDescriptors[j]
                              /\ Processed(x[2]) \/ (x[2] = Head(args) /\ autoType' > j)
        BY <2>1, <2>4, <2>9 DEF SkippedInv
    <3>1. CASE x = e
      <4>1. CASE again
        <5>1. autoType \in (1..7) \ {4} /\ x[1] = AutoAddDescriptors[autoType] /\ x[2] = Head(args)
            BY <1>2, <2>6, <2>7, <2>14, <3>1, <4>1
        <5>2. autoType' > autoType
            BY <1>2, <2>4, <2>6, <4>1
        <5>3. QED
            BY <5>1, <5>2
      <4>2. CASE ~again /\ found = "failed"
        BY <2>5, <3>1, <4>2
      <4>3. CASE ~again /\ found # "failed"
        <5>1. x \in skipped /\ x[1] = t /\ x[2] = k
            BY <2>3, <2>14, <3>1, <4>3
        <5>2. ~(x \in DOMAIN learned /\ learned[x] = "failed")
            BY <2>5, <3>1, <4>3
        <5>3. PICK j \in (1..7) \ {4} : x[1] = AutoAddDescriptors[j] /\ (Processed(x[2]) \/ autoType > j)
            BY <2>13, <5>1, <5>2 DEF SkippedInv
        <5>4. QED
            BY <1>2, <2>7, <2>8, <5>1, <5>3
      <4>4. QED
        BY <4>1, <4>2, <4>3
    <3>2. CASE x # e
      <4>1. x \in skipped
        BY <2>3, <3>2
      <4>2. CASE x \in DOMAIN learned /\ learned[x] = "failed"
        BY <2>5, <4>2
      <4>3. CASE ~(x \in DOMAIN learned /\ learned[x] = "failed")
        <5>1. PICK j \in (1..7) \ {4} :
                /\ x[1] = AutoAddDescriptors[j]
                /\ Processed(x[2]) \/ (x[2] = Head(args) /\ autoType > j)
            BY <2>13, <4>1, <4>3 DEF SkippedInv
        <5>2. autoType > j => autoType' > j
            BY <1>2, <2>4, <5>1
        <5>3. QED
            BY <5>1, <5>2
      <4>4. QED
        BY <4>2, <4>3
    <3>3. QED
        BY <3>1, <3>2
  <2>17. \A u, l : u # t \/ l # k => (FoundAs(u, l)' <=> FoundAs(u, l))
    BY <1>1, <2>3, FoundElsewhere
  <2>18. FoundAs(t, k)' <=> ok
    <3>1. CASE ok
      <4>1. ASSUME e \in skipped PROVE FALSE
        <5>1. ~(e \in DOMAIN learned /\ learned[e] = "failed")
            BY <2>5, <3>1
        <5>2. PICK j \in (1..7) \ {4} : e[1] = AutoAddDescriptors[j] /\ (Processed(e[2]) \/ autoType > j)
            BY <2>13, <4>1, <5>1 DEF SkippedInv
        <5>3. QED
            BY <1>2, <2>7, <2>8, <2>14, <5>2
      <4>2. skipped' = skipped
        BY <2>3, <3>1
      <4>3. QED
        BY <2>5, <3>1, <4>1, <4>2 DEF FoundAs, Tries
    <3>2. CASE ~ok
        BY <2>3, <2>5, <3>2 DEF FoundAs
    <3>3. QED
        BY <3>1, <3>2
  <2>19. \A l : PortLearned(l) => PortLearned(l)'
    BY <2>5 DEF PortLearned
  <2>20. DoneInv'
    <3>1. \A l : l # k => (FoundUpTo(7, l)' <=> FoundUpTo(7, l))
        BY <2>17 DEF FoundUpTo
    <3>2. QED
        BY <2>1, <2>8, <2>9, <2>13, <2>19, <3>1 DEF DoneInv
  <2>21. CurrentInv'
    <3>1. (IF apc = "ports" THEN 5 ELSE autoType - 1)' = autoType
        BY <1>2, <2>4, <2>7
    <3>2. \A j \in 1..(autoType - 1) : AutoAddDescriptors[j] # t
        BY <1>2, DescriptorFact
    <3>3. \A j \in 1..(autoType - 1) :
             FoundAs(AutoAddDescriptors[j], k)' <=> FoundAs(AutoAddDescriptors[j], k)
        BY <2>17, <3>2
    <3>4. 1..autoType = 1..(autoType - 1) \cup {autoType}
        BY <1>2
    <3>5. (\E j \in 1..autoType : FoundAs(AutoAddDescriptors[j], k)') <=> FoundUpTo(autoType - 1, k) \/ ok
        BY <2>18, <3>3, <3>4 DEF FoundUpTo
    <3>6. matched <=> FoundUpTo(autoType - 1, k)
        BY <2>13 DEF CurrentInv
    <3>7. matched' <=> (FoundUpTo(IF apc = "ports" THEN 5 ELSE autoType - 1, Head(args)))'
        BY <2>1, <2>2, <3>1, <3>5, <3>6 DEF FoundUpTo
    <3>8. autoType' > 4 => PortLearned(k)'
      <4>1. CASE autoType > 4
        BY <2>13, <2>19, <4>1 DEF CurrentInv
      <4>2. CASE autoType = 4
        BY <2>5, <2>7, <4>2 DEF PortLearned
      <4>3. CASE autoType < 4
        BY <1>2, <2>4, <2>7, <4>3
      <4>4. QED
        BY <1>2, <4>1, <4>2, <4>3
    <3>9. QED
        BY <2>1, <3>7, <3>8 DEF CurrentInv
  <2>22. OutcomeInv'
    BY <2>4 DEF OutcomeInv
  <2>23. AutoInv'
    BY <2>15, <2>16, <2>20, <2>21, <2>22 DEF AutoInv
  <2>24. QED
    BY <2>10, <2>11, <2>12, <2>23 DEF AddInv
<1>5. QED
    BY <1>3, <1>4

\* autoadd tries a type, or leaves it out.
LEMMA autoAddTypeStep == ASSUME AddInv, autoAddType PROVE AddInv'
<1>1. apc = "type" /\ autoType <= 7
    BY DescriptorFact DEF autoAddType
<1>2. CASE Tries(AutoAddDescriptors[autoType], Head(args))
    BY <1>1, <1>2, TriedStep DEF autoAddType
<1>3. CASE ~Tries(AutoAddDescriptors[autoType], Head(args))
    BY <1>1, <1>3, NotTriedStep DEF autoAddType
<1>4. QED
    BY <1>2, <1>3

\* A port of a process: if it is also an argument, it was looked up before.
LEMMA OwnedPortStep ==
    ASSUME AddInv, apc = "ports", NEW p, NEW found \in FoundOf("port"), Finds(<<"port", p>>, found),
           config' = IF found = "present" THEN UpsertLive(config, <<"port", p>>, "present") ELSE config,
           skipped' = IF found = "failed" THEN skipped \cup {<<"port", p>>} ELSE skipped,
           UNCHANGED <<op, args, autoType, matched, unmatched, gossfile, gossfile0, asked, apc>>
    PROVE  AddInv'
<1> DEFINE e == <<"port", p>>
<1>1. op = "autoadd" /\ args # <<>> /\ autoType = 5 /\ "port" \in AutoAddable
    BY AddAssumption DEF AddInv, ArgsInv
<1>2. e[1] = "port" /\ e[2] = p /\ e = <<e[1], e[2]>>
    OBVIOUS
<1>3. /\ DOMAIN learned' = DOMAIN learned \cup {e} /\ learned'[e] = found
      /\ \A x \in DOMAIN learned : learned'[x] = learned[x]
    BY FindsFact
<1>4. AddTypeInv' /\ ArgsInv'
    BY DEF AddInv, AddTypeInv, ArgsInv
<1>5. FileInv'
    BY DEF AddInv, FileInv, Written
<1>6. ConfigInv'
  <2>1. Kept /\ Learned /\ OldEntries(gossfile0.entries)
    BY DEF AddInv, ConfigInv, FileInv, Live
  <2>2. CASE found = "present"
    <3>1. About(e) /\ Says(e, "present", found)
        BY <1>2, <2>2 DEF About, Says
    <3>2. config' = UpsertLive(config, e, "present")
        BY <2>2
    <3>3. Kept'
        BY <2>1, <3>1, <3>2, UpsertKept
    <3>4. Learned'
        BY <2>1, <3>1, <3>2, UpsertLearned
    <3>5. QED
        BY <3>3, <3>4 DEF ConfigInv
  <2>3. CASE found # "present"
    BY <2>1, <2>3, LookupLearned DEF ConfigInv
  <2>4. QED
    BY <2>2, <2>3
<1>7. LookupsInv /\ SkippedInv /\ DoneInv /\ CurrentInv
    BY <1>1 DEF AddInv, AutoInv
<1>8. \A l : Processed(l)' <=> Processed(l)
    BY DEF Processed
<1>9. LookupsInv'
  <2>1. \E j \in 1..7 : "port" = AutoAddDescriptors[j]
    BY DEF AutoAddDescriptors
  <2>2. QED
    BY <1>1, <1>2, <1>3, <1>7, <2>1 DEF LookupsInv
<1>10. SkippedInv'
  <2> SUFFICES ASSUME NEW x \in skipped'
               PROVE  \/ x \in DOMAIN learned' /\ learned'[x] = "failed"
                      \/ \E j \in (1..7) \ {4} :
                            /\ x[1] = AutoAddDescriptors[j]
                            /\ Processed(x[2]) \/ (x[2] = Head(args) /\ autoType > j)
    BY <1>8 DEF SkippedInv
  <2>1. CASE x \in skipped
    BY <1>3, <1>7, <2>1 DEF SkippedInv
  <2>2. CASE x \notin skipped
    BY <1>3, <2>2
  <2>3. QED
    BY <2>1, <2>2
<1>11. ASSUME NEW l, PortLearned(l) PROVE \A u : FoundAs(u, l)' <=> FoundAs(u, l)
  <2>1. l = p => (FoundAs("port", p)' <=> FoundAs("port", p))
    BY <1>1, <1>11, PortAgain DEF PortLearned
  <2>2. \A u : u # "port" \/ l # p => (FoundAs(u, l)' <=> FoundAs(u, l))
    BY FoundElsewhere
  <2>3. QED
    BY <2>1, <2>2
<1>12. \A n, l : PortLearned(l) => (FoundUpTo(n, l)' <=> FoundUpTo(n, l))
    BY <1>11 DEF FoundUpTo
<1>13. \A l : PortLearned(l) => PortLearned(l)'
    BY <1>3 DEF PortLearned
<1>14. DoneInv'
    BY <1>7, <1>8, <1>12, <1>13 DEF DoneInv
<1>15. CurrentInv'
  <2>1. PortLearned(Head(args)) /\ (matched <=> FoundUpTo(5, Head(args)))
    BY <1>1, <1>7 DEF CurrentInv
  <2>2. FoundUpTo(5, Head(args))' <=> FoundUpTo(5, Head(args))
    BY <1>12, <2>1
  <2>3. PortLearned(Head(args))'
    BY <1>13, <2>1
  <2>4. QED
    BY <2>1, <2>2, <2>3 DEF CurrentInv
<1>16. OutcomeInv'
    BY DEF OutcomeInv
<1>17. AutoInv'
    BY <1>9, <1>10, <1>14, <1>15, <1>16 DEF AutoInv
<1>18. QED
    BY <1>4, <1>5, <1>6, <1>17 DEF AddInv

\* The ports of a process: they cannot be had, are all done, or one is added.
LEMMA AutoAddPortsStep == ASSUME AddInv, AutoAddPorts PROVE AddInv'
<1>1. apc = "ports"
    BY DEF AutoAddPorts
<1>2. CASE End("error")
    BY <1>1, <1>2, ErrorStep DEF End
<1>3. CASE /\ apc' = "type" /\ autoType' = autoType + 1
           /\ UNCHANGED <<op, args, owned, matched, unmatched, config, gossfile, gossfile0, asked, learned, skipped>>
  <2>1. op = "autoadd" /\ args # <<>> /\ autoType = 5 /\ autoType' = 6
    BY <1>1, <1>3 DEF AddInv, ArgsInv
  <2>2. AddTypeInv' /\ ArgsInv'
    BY <1>3, <2>1 DEF AddInv, AddTypeInv, ArgsInv, Live
  <2>3. FileInv'
    BY <1>1, <1>3 DEF AddInv, FileInv, Written
  <2>4. ConfigInv'
    BY <1>1, <1>3 DEF AddInv, ConfigInv, Live, Kept, Learned, About, Says
  <2>5. LookupsInv /\ SkippedInv /\ DoneInv /\ CurrentInv
    BY <1>1, <2>1 DEF AddInv, AutoInv
  <2>6. LookupsInv' /\ OutcomeInv'
    BY <1>3, <2>5 DEF LookupsInv, OutcomeInv
  <2>7. SkippedInv'
    BY <1>1, <1>3, <2>1, <2>5 DEF SkippedInv, Processed
  <2>8. DoneInv'
    BY <1>3, <2>5 DEF DoneInv, Processed, FoundUpTo, FoundAs, PortLearned
  <2>9. CurrentInv'
    <3>1. matched <=> FoundUpTo(5, Head(args))
        BY <1>1, <2>5 DEF CurrentInv
    <3>2. FoundUpTo(5, Head(args))' <=> FoundUpTo(5, Head(args))
        BY <1>3 DEF FoundUpTo, FoundAs
    <3>3. PortLearned(Head(args))'
        BY <1>1, <1>3, <2>1, <2>5 DEF CurrentInv, PortLearned
    <3>4. (IF apc = "ports" THEN 5 ELSE autoType - 1)' = 5
        BY <1>3, <2>1
    <3>5. (FoundUpTo(IF apc = "ports" THEN 5 ELSE autoType - 1, Head(args)))' <=> FoundUpTo(5, Head(args))'
        BY <3>4 DEF FoundUpTo
    <3>6. QED
        BY <1>3, <3>1, <3>2, <3>3, <3>5 DEF CurrentInv
  <2>10. AutoInv'
    BY <2>6, <2>7, <2>8, <2>9 DEF AutoInv
  <2>11. QED
    BY <2>2, <2>3, <2>4, <2>10 DEF AddInv
<1>4. ASSUME NEW p \in owned, NEW found \in FoundOf("port"), Finds(<<"port", p>>, found),
             config' = IF found = "present" THEN UpsertLive(config, <<"port", p>>, "present") ELSE config,
             skipped' = IF found = "failed" THEN skipped \cup {<<"port", p>>} ELSE skipped,
             UNCHANGED <<op, args, autoType, matched, unmatched, gossfile, gossfile0, asked, apc>>
      PROVE  AddInv'
    BY <1>1, <1>4, OwnedPortStep
<1>5. QED
    BY <1>2, <1>3, <1>4 DEF AutoAddPorts

\* autoadd is done with an argument, and remembers it if it was nothing.
LEMMA KeyDoneStep == ASSUME AddInv, KeyDone PROVE AddInv'
<1>1. /\ apc = "type" /\ autoType > 7 /\ args' = Tail(args) /\ apc' = "next"
      /\ unmatched' = IF matched THEN unmatched ELSE unmatched \cup {Head(args)}
      /\ UNCHANGED <<op, autoType, owned, matched, config, gossfile, gossfile0, asked, learned, skipped>>
    BY DescriptorFact DEF KeyDone
<1>2. op = "autoadd" /\ args # <<>> /\ autoType = 8 /\ autoType - 1 = 7
    BY <1>1 DEF AddInv, AddTypeInv, ArgsInv
<1>3. /\ args' \in Seq(Arguments) /\ Len(args') <= Len(asked)
      /\ \A i \in 1..Len(args') : args'[i] = asked[Len(asked) - Len(args') + i]
      /\ \A k : Processed(k)' <=> Processed(k) \/ k = Head(args)
    BY <1>1, <1>2, TailFact DEF AddInv
<1>4. Head(args) \in Arguments /\ ~Processed(Head(args))
    BY <1>2, HeadFact DEF AddInv
<1>5. AddTypeInv' /\ ArgsInv'
    BY <1>1, <1>3 DEF AddInv, AddTypeInv, ArgsInv, Live
<1>6. FileInv'
    BY <1>1 DEF AddInv, FileInv, Written
<1>7. ConfigInv'
    BY <1>1 DEF AddInv, ConfigInv, Live, Kept, Learned, About, Says
<1>8. LookupsInv /\ SkippedInv /\ DoneInv /\ CurrentInv
    BY <1>1, <1>2 DEF AddInv, AutoInv
<1>9. LookupsInv' /\ OutcomeInv' /\ CurrentInv'
    BY <1>1, <1>8 DEF LookupsInv, OutcomeInv, CurrentInv
<1>10. SkippedInv'
    BY <1>1, <1>3, <1>8 DEF SkippedInv
<1>11. \A l : (FoundUpTo(7, l)' <=> FoundUpTo(7, l)) /\ (PortLearned(l)' <=> PortLearned(l))
    BY <1>1 DEF FoundUpTo, FoundAs, PortLearned
<1>12. (matched <=> FoundUpTo(7, Head(args))) /\ PortLearned(Head(args))
    BY <1>1, <1>2, <1>8 DEF CurrentInv
<1>13. DoneInv'
  <2>1. \A k \in unmatched' : k \in Arguments /\ Processed(k)'
    BY <1>1, <1>3, <1>4, <1>8 DEF DoneInv
  <2>2. ASSUME NEW k \in Arguments, Processed(k)'
        PROVE  (k \in unmatched' <=> ~FoundUpTo(7, k)) /\ PortLearned(k)
    <3>1. CASE k = Head(args)
      <4>1. k \notin unmatched
        BY <1>4, <1>8, <3>1 DEF DoneInv
      <4>2. QED
        BY <1>1, <1>12, <3>1, <4>1
    <3>2. CASE k # Head(args)
        BY <1>1, <1>3, <1>8, <2>2, <3>2 DEF DoneInv
    <3>3. QED
        BY <3>1, <3>2
  <2>3. QED
    BY <1>11, <2>1, <2>2 DEF DoneInv
<1>14. AutoInv'
    BY <1>9, <1>10, <1>13 DEF AutoInv
<1>15. QED
    BY <1>5, <1>6, <1>7, <1>14 DEF AddInv

\* All the arguments are done.
LEMMA KeysDoneStep == ASSUME AddInv, KeysDone PROVE AddInv'
<1> DEFINE Nothing == op = "autoadd" /\ asked # <<>> /\ \A i \in 1..Len(asked) : asked[i] \in unmatched
<1>1. /\ apc = "next" /\ args = <<>> /\ apc' = IF Nothing THEN "error" ELSE "write"
      /\ UNCHANGED <<op, args, autoType, owned, matched, unmatched, config, gossfile, gossfile0, asked>>
      /\ UNCHANGED <<learned, skipped>>
    BY DEF KeysDone, End
<1>2. CASE Nothing
    BY <1>1, <1>2, ErrorStep
<1>3. CASE ~Nothing
  <2>1. apc' = "write"
    BY <1>1, <1>3
  <2>2. AddTypeInv' /\ ArgsInv'
    BY <1>1, <2>1 DEF AddInv, AddTypeInv, ArgsInv, Live
  <2>3. FileInv'
    BY <1>1, <2>1 DEF AddInv, FileInv, Written
  <2>4. ConfigInv'
    BY <1>1, <2>1 DEF AddInv, ConfigInv, Live, Kept, Learned, About, Says
  <2>5. AutoInv'
    <3> SUFFICES ASSUME op = "autoadd"
                 PROVE  LookupsInv' /\ SkippedInv' /\ DoneInv' /\ CurrentInv' /\ OutcomeInv'
        BY <1>1 DEF AutoInv
    <3>1. LookupsInv /\ SkippedInv /\ DoneInv
        BY <1>1 DEF AddInv, AutoInv
    <3>2. LookupsInv' /\ CurrentInv'
        BY <1>1, <2>1, <3>1 DEF LookupsInv, CurrentInv
    <3>3. SkippedInv'
        BY <1>1, <2>1, <3>1 DEF SkippedInv, Processed
    <3>4. DoneInv'
        BY <1>1, <3>1 DEF DoneInv, Processed, FoundUpTo, FoundAs, PortLearned
    <3>5. OutcomeInv'
        BY <1>1, <1>3, <2>1 DEF OutcomeInv
    <3>6. QED
        BY <3>2, <3>3, <3>4, <3>5
  <2>6. QED
    BY <2>2, <2>3, <2>4, <2>5 DEF AddInv
<1>4. QED
    BY <1>2, <1>3

\* The gossfile is written whole, or the write failed.
LEMMA WriteJSONStep == ASSUME AddInv, WriteJSON PROVE AddInv'
<1>1. /\ apc = "write"
      /\ UNCHANGED <<op, args, autoType, owned, matched, unmatched, config, gossfile0, asked, learned, skipped>>
    BY DEF WriteJSON
<1>2. CASE apc' = "error" /\ UNCHANGED gossfile
    BY <1>1, <1>2, ErrorStep
<1>3. CASE \/ gossfile' = Gossfile(config) /\ apc' = IF unmatched = {} THEN "ok" ELSE "partial"
           \/ apc' = "unwritten"
  <2>1. \/ gossfile' = Gossfile(config) /\ apc' = "ok" /\ unmatched = {}
        \/ gossfile' = Gossfile(config) /\ apc' = "partial" /\ unmatched # {}
        \/ apc' = "unwritten"
    BY <1>3
  <2>2. AddTypeInv' /\ ArgsInv'
    BY <1>1, <2>1 DEF AddInv, AddTypeInv, ArgsInv, Live
  <2>3. FileInv'
    BY <1>1, <2>1 DEF AddInv, FileInv, Written
  <2>4. ConfigInv'
    BY <1>1, <2>1 DEF AddInv, ConfigInv, Live, Kept, Learned, About, Says
  <2>5. AutoInv'
    <3> SUFFICES ASSUME op = "autoadd"
                 PROVE  LookupsInv' /\ SkippedInv' /\ DoneInv' /\ CurrentInv' /\ OutcomeInv'
        BY <1>1 DEF AutoInv
    <3>1. LookupsInv /\ SkippedInv /\ DoneInv /\ OutcomeInv
        BY <1>1 DEF AddInv, AutoInv
    <3>2. LookupsInv' /\ CurrentInv'
        BY <1>1, <2>1, <3>1 DEF LookupsInv, CurrentInv
    <3>3. SkippedInv'
        BY <1>1, <2>1, <3>1 DEF SkippedInv, Processed
    <3>4. DoneInv'
        BY <1>1, <3>1 DEF DoneInv, Processed, FoundUpTo, FoundAs, PortLearned
    <3>5. OutcomeInv'
        BY <1>1, <2>1, <3>1 DEF OutcomeInv
    <3>6. QED
        BY <3>2, <3>3, <3>4, <3>5
  <2>6. QED
    BY <2>2, <2>3, <2>4, <2>5 DEF AddInv
<1>4. QED
    BY <1>2, <1>3 DEF WriteJSON

\* Every step of add and of autoadd keeps AddInv.
LEMMA AddNextInv == AddInv /\ [AddNext \/ AddEnded]_addVars => AddInv'
<1> SUFFICES ASSUME AddInv, [AddNext \/ AddEnded]_addVars PROVE AddInv'
    OBVIOUS
<1>1. CASE AddNext
    BY <1>1, ReadStoreStep, AddResourceStep, NextKeyStep, autoAddTypeStep, AutoAddPortsStep,
       KeyDoneStep, KeysDoneStep, WriteJSONStep DEF AddNext
<1>2. CASE UNCHANGED addVars
  <2> USE <1>2 DEF addVars
  <2>1. AddTypeInv' /\ ArgsInv' /\ FileInv'
    BY DEF AddInv, AddTypeInv, ArgsInv, FileInv, Written
  <2>2. ConfigInv'
    BY DEF AddInv, ConfigInv, Kept, Learned, About, Says
  <2>3. AutoInv'
    <3> SUFFICES ASSUME op = "autoadd", apc # "error"
                 PROVE  LookupsInv' /\ SkippedInv' /\ DoneInv' /\ CurrentInv' /\ OutcomeInv'
        BY DEF AutoInv
    <3>1. LookupsInv /\ SkippedInv /\ DoneInv /\ CurrentInv /\ OutcomeInv
        BY DEF AddInv, AutoInv
    <3>2. LookupsInv' /\ OutcomeInv'
        BY <3>1 DEF LookupsInv, OutcomeInv
    <3>3. SkippedInv'
        BY <3>1 DEF SkippedInv, Processed
    <3>4. DoneInv'
        BY <3>1 DEF DoneInv, Processed, FoundUpTo, FoundAs, PortLearned
    <3>5. CurrentInv'
        BY <3>1 DEF CurrentInv, FoundUpTo, FoundAs, PortLearned
    <3>6. QED
        BY <3>2, <3>3, <3>4, <3>5
  <2>4. QED
    BY <2>1, <2>2, <2>3 DEF AddInv
<1>3. QED
    BY <1>1, <1>2 DEF AddEnded

\* The commands TLC runs are among those of AnyAdd.
LEMMA ScenariosFact == AddScenarios => AnyAdd
<1> SUFFICES ASSUME AddScenarios PROVE AnyAdd
    OBVIOUS
<1>1. args \in Seq(Paths \cup Names) /\ \A i, j \in 1..Len(args) : args[i] = args[j] => i = j
  <2>1. CASE \E k \in Paths \cup Names : args = <<k>>
    BY <2>1
  <2>2. CASE \E p \in Paths, n \in Names : args = <<p, n>>
    <3>1. PICK p \in Paths, n \in Names : args = <<p, n>>
        BY <2>2
    <3>2. p # n
        BY AddAssumption
    <3>3. QED
        BY <3>1, <3>2
  <2>3. QED
    BY <2>1, <2>2 DEF AddScenarios
<1>2. \/ gossfile \in {NoFile, Garbled}
      \/ \E es : gossfile = Gossfile(es) /\ \A e \in DOMAIN es : \E title \in BOOLEAN : es[e] = Entry("old", title)
  <2> DEFINE es == [e \in {<<op, args[1]>>, <<"file", args[1]>>, <<"user", "other">>} |-> Entry("old", TRUE)]
  <2>1. \A e \in DOMAIN es : es[e] = Entry("old", TRUE) /\ TRUE \in BOOLEAN
    BY Zenon
  <2>2. gossfile \in {NoFile, Garbled} \/ gossfile = Gossfile(es)
    BY DEF AddScenarios
  <2>3. QED
    BY <2>1, <2>2, Zenon
<1>3. QED
    BY <1>1, <1>2 DEF AddScenarios, AnyAdd

\* So what is proved of any add is proved of those.
THEOREM ScenariosCorrect == AddSpec => AnyAddSpec
BY ScenariosFact, PTL DEF AddSpec, AnyAddSpec

\* A run of add or autoadd only reaches states of AddInv.
THEOREM AddInvCorrect == AnyAddSpec => []AddInv
BY AddInitInv, AddNextInv, PTL DEF AnyAddSpec

\* Whatever the arguments, the host and the gossfile: what it said is kept, and
\* what was added is what was found.
THEOREM GossfileCorrect == AnyAddSpec => []GossfileExact
<1>1. AddInv => GossfileExact
  <2> SUFFICES ASSUME AddInv, Written PROVE GossfileExact
    BY DEF GossfileExact
  <2>1. Kept /\ Learned
    BY DEF AddInv, ConfigInv, Written, Live
  <2>2. gossfile.entries = config
    BY DEF AddInv, FileInv, Gossfile, File
  <2>3. \A e \in DOMAIN gossfile0.entries :
           /\ e \in DOMAIN gossfile.entries
           /\ gossfile.entries[e].title = gossfile0.entries[e].title
           /\ ~About(e) => gossfile.entries[e] = gossfile0.entries[e]
    BY <2>1, <2>2 DEF Kept
  <2>4. \A e \in DOMAIN gossfile.entries :
           gossfile.entries[e].state # "old" /\ ~(e[1] = "port" /\ learned[e] = "failed") =>
               /\ gossfile.entries[e].state = learned[e]
               /\ learned[e] \notin {"unread", "unfound", "failed"}
    BY <2>1, <2>2 DEF Learned, Says
  <2>5. QED
    BY <2>3, <2>4 DEF GossfileExact
<1>2. QED
    BY <1>1, AddInvCorrect, PTL

\* A command that fails before it writes leaves the gossfile alone, and the
\* status of autoadd says whether all, some or none of the names were found.
THEOREM StatusCorrect == AnyAddSpec => []AddStatusHonest
<1>1. AddInv => AddStatusHonest
  <2> SUFFICES ASSUME AddInv PROVE AddStatusHonest
    OBVIOUS
  <2> DEFINE Found(k) == \E e \in DOMAIN learned :
                e[2] = k /\ learned[e] \in {"present", "partly"} /\ e \notin skipped /\ (e[1] = "file" => k \in Paths)
             keys == {asked[i] : i \in 1..Len(asked)}
  <2>1. apc = "error" => gossfile = gossfile0
    BY DEF AddInv, FileInv
  <2>2. ASSUME op = "autoadd", apc \in {"ok", "partial"}
        PROVE  \A k \in keys : k \in unmatched <=> ~Found(k)
    <3>1. LookupsInv /\ DoneInv /\ args = <<>>
        BY <2>2 DEF AddInv, AutoInv, OutcomeInv
    <3>2. ASSUME NEW k \in keys PROVE k \in Arguments /\ Processed(k)
      <4>1. Len(args) = 0 /\ Len(asked) - 0 = Len(asked) /\ asked \in Seq(Arguments)
        BY <3>1 DEF AddInv, AddTypeInv
      <4>2. PICK i \in 1..Len(asked) : asked[i] = k
        BY <3>2
      <4>3. QED
        BY <4>1, <4>2 DEF Processed
    <3>3. ASSUME NEW k PROVE FoundUpTo(7, k) <=> Found(k)
      <4>1. ASSUME NEW j \in 1..7, FoundAs(AutoAddDescriptors[j], k) PROVE Found(k)
        <5> DEFINE e == <<AutoAddDescriptors[j], k>>
        <5>1. e[1] = AutoAddDescriptors[j] /\ e[2] = k
            OBVIOUS
        <5>2. e \in DOMAIN learned
            BY <4>1 DEF FoundAs
        <5>3. QED
            BY <4>1, <5>1, <5>2 DEF FoundAs
      <4>2. ASSUME NEW e \in DOMAIN learned, e[2] = k, learned[e] \in {"present", "partly"},
                   e \notin skipped, e[1] = "file" => k \in Paths
            PROVE  FoundUpTo(7, k)
        <5>1. PICK j \in 1..7 : e[1] = AutoAddDescriptors[j]
            BY <3>1, <4>2 DEF LookupsInv
        <5>2. e = <<AutoAddDescriptors[j], k>>
            BY <3>1, <4>2, <5>1 DEF LookupsInv
        <5>3. QED
            BY <4>2, <5>1, <5>2 DEF FoundUpTo, FoundAs
      <4>3. QED
        BY <4>1, <4>2 DEF FoundUpTo
    <3>4. QED
        BY <3>1, <3>2, <3>3 DEF DoneInv
  <2>3. op = "autoadd" /\ apc = "ok" => \A k \in keys : Found(k)
    BY <2>2 DEF AddInv, AutoInv, OutcomeInv
  <2>4. ASSUME op = "autoadd", apc = "partial"
        PROVE  (\E k \in keys : Found(k)) /\ (\E k \in keys : ~Found(k))
    <3>1. /\ unmatched # {} /\ args = <<>> /\ DoneInv
          /\ ~(asked # <<>> /\ \A i \in 1..Len(asked) : asked[i] \in unmatched)
        BY <2>4 DEF AddInv, AutoInv, OutcomeInv
    <3>2. PICK k \in unmatched : Processed(k)
        BY <3>1 DEF DoneInv
    <3>3. k \in keys
      <4>1. Len(args) = 0 /\ Len(asked) - 0 = Len(asked) /\ asked \in Seq(Arguments)
        BY <3>1 DEF AddInv, AddTypeInv
      <4>2. QED
        BY <3>2, <4>1 DEF Processed
    <3>4. asked # <<>>
        BY <3>3
    <3>5. PICK i \in 1..Len(asked) : asked[i] \notin unmatched
        BY <3>1, <3>4
    <3>6. asked[i] \in keys
        BY <3>5
    <3>7. Found(asked[i]) /\ ~Found(k)
        BY <2>2, <2>4, <3>2, <3>3, <3>5, <3>6
    <3>8. QED
        BY <3>3, <3>6, <3>7
  <2>5. QED
    BY <2>1, <2>3, <2>4 DEF AddStatusHonest
<1>2. QED
    BY <1>1, AddInvCorrect, PTL

-----------------------------------------------------------------------------
(* Loads: the inductive invariant *)

Sections == Partial(DKeys, Registers \cup {NoRegister})
Configs == [res : Partial(Keys, Files), section : Sections]
Errors == {"none", "template", "decode", "depth", "format", "notests", "file", "nomatch", "nodiscovery", "register",
            "vars"}
Frames == [file : Files, ret : Configs, todo : SUBSET Files]

\* The types of what a load keeps.  The stack stays below the depth limit, what
\* was read once is what was there to read, and a stream that is drained was kept.
LoaderTypeOK ==
    /\ disk \in [Files -> Documents \cup {Absent}] /\ opt \in CommandLines
    /\ lpc \in {"peek", "discover", "load", "merge", "return", "done"}
    /\ pass \in {"none", "peek", "load", "discover"}
    /\ stack \in Seq(Frames) /\ Len(stack) < MaxDepth
    /\ answer \in [err : Errors, cfg : Configs]
    /\ stdinCache \in {<<>>, <<disk[Spec1]>>} /\ varsCache \in {<<>>, <<opt.vars>>}
    /\ ("stdin" \in drained => stdinCache # <<>>) /\ ("vars" \in drained => varsCache # <<>>)
    /\ opt.vars = BadVars => lpc # "merge"

\* The real load is rendered with the verdicts of this host over the vars files,
\* and loudly, whatever an earlier load left behind.
RendersTruly ==
    pass = "load" /\ opt.vars # BadVars => template = TrueTemplate /\ (lpc = "merge" => ~quietDecode)

\* Discovery runs while the loading goroutine waits for it, and what it found is
\* what the loader holds from then on.
RenderInv ==
    /\ phase # "off" => lpc = "return" /\ pass # "load"
    /\ phase = "off" =>
          DOMAIN verdicts = DOMAIN told /\ \A r \in DOMAIN told : verdicts[r] = ("FAIL" \notin Range(told[r]))
    /\ pass = "load" => lpc \in {"merge", "return", "done"}
    /\ RendersTruly

-----------------------------------------------------------------------------
(* Facts *)

\* Nothing is a partial function.
LEMMA EmptyFact == ASSUME NEW S, NEW T PROVE Empty \in Partial(S, T)
<1>1. Empty \in [{} -> T]
    BY DEF Empty
<1>2. {} \in SUBSET S
    OBVIOUS
<1>3. QED
    BY <1>1, <1>2 DEF Partial

\* One partial function laid over another is one.
LEMMA OverrideFact ==
    ASSUME NEW S, NEW T, NEW f \in Partial(S, T), NEW g \in Partial(S, T)
    PROVE  Override(f, g) \in Partial(S, T)
<1>1. PICK D \in SUBSET S : f \in [D -> T]
    BY DEF Partial
<1>2. PICK E \in SUBSET S : g \in [E -> T]
    BY DEF Partial
<1>3. Override(f, g) \in [D \cup E -> T]
    BY <1>1, <1>2 DEF Override
<1>4. D \cup E \in SUBSET S
    OBVIOUS
<1>5. QED
    BY <1>3, <1>4 DEF Partial

\* mergeSyver of two configs is one.
LEMMA MergeFact ==
    ASSUME NEW c \in Configs, NEW d \in Configs
    PROVE  mergeSyver(c, d) \in Configs
<1>1. /\ c.res \in Partial(Keys, Files) /\ d.res \in Partial(Keys, Files)
      /\ c.section \in Sections /\ d.section \in Sections
    BY DEF Configs
<1>2. Override(c.res, d.res) \in Partial(Keys, Files)
    BY <1>1, OverrideFact
<1>3. Override(c.section, d.section) \in Sections
    BY <1>1, OverrideFact DEF Sections
<1>4. QED
    BY <1>2, <1>3 DEF mergeSyver, Config, Configs

\* There is a config without anything in it.
LEMMA NoConfigFact == NoConfig \in Configs
BY EmptyFact DEF NoConfig, Config, Configs, Sections

\* The first of the files still to include is one of them.
LEMMA LeastFact ==
    ASSUME NEW S \in SUBSET Files, S # {}
    PROVE  Least(S) \in S /\ \A g \in S : Least(S) <= g
<1>1. S \subseteq Nat
    BY LoaderAssumption
<1>2. PICK x \in S : \A y \in S : ~(<<y, x>> \in OpToRel(<, Nat))
    BY <1>1, NatLessThanWellFounded, WFMin
<1>3. ASSUME NEW y \in S, y < x PROVE <<y, x>> \in OpToRel(<, Nat)
  <2>1. y \in Nat /\ x \in Nat
    BY <1>1
  <2>2. <<y, x>> \in Nat \X Nat
    BY <2>1
  <2>3. QED
    BY <1>3, <2>1, <2>2, Zenon DEF OpToRel
<1>4. \A y \in S : ~(y < x)
    BY <1>2, <1>3, Zenon
<1>5. \A y \in S : x <= y
    BY <1>1, <1>4
<1>6. QED
    BY <1>5 DEF Least

\* The activation a document is entered with is well typed.
LEMMA FrameFact == ASSUME NEW f \in Files, NEW doc \in Documents PROVE Frame(f, doc) \in Frames
<1>1. /\ doc.defs \in SUBSET Keys /\ doc.incs \in SUBSET Files /\ doc.section \in Sections
    BY DEF Documents, Sections
<1>2. [k \in doc.defs |-> f] \in Partial(Keys, Files)
  <2>1. [k \in doc.defs |-> f] \in [doc.defs -> Files]
    OBVIOUS
  <2>2. QED
    BY <1>1, <2>1 DEF Partial
<1>3. (IF Opens(doc, template) THEN [k \in doc.defs |-> f] ELSE Empty) \in Partial(Keys, Files)
    BY <1>2, EmptyFact
<1>4. (IF Opens(doc, template) THEN doc.incs \ doc.skip ELSE {}) \in SUBSET Files
    BY <1>1
<1>5. QED
    BY <1>1, <1>3, <1>4 DEF Frame, Frames, Config, Configs

\* A load that fails returns no config.
LEMMA FailFact ==
    ASSUME LoaderTypeOK, NEW e \in Errors, Fail(e)
    PROVE  /\ stack' \in Seq(Frames) /\ Len(stack') < MaxDepth
           /\ answer' \in [err : Errors, cfg : Configs]
           /\ lpc' = "return"
<1>1. answer' = [err |-> e, cfg |-> NoConfig] /\ lpc' = "return" /\ stack' = stack
    BY DEF Fail, Err
<1>2. answer' \in [err : Errors, cfg : Configs]
    BY <1>1, NoConfigFact
<1>3. QED
    BY <1>1, <1>2 DEF LoaderTypeOK

\* Entering a document: it cannot be used, it lies too deep, or it is pushed.
LEMMA EnterFact ==
    ASSUME NEW below \in Seq(Frames), NEW f \in Files, NEW doc \in Documents, NEW fmt,
           LoaderTypeOK, lpc = "merge", Enter(below, f, doc, fmt)
    PROVE  /\ stack' \in Seq(Frames) /\ Len(stack') < MaxDepth
           /\ answer' \in [err : Errors, cfg : Configs]
           /\ lpc' \in {"merge", "return"}
<1>1. CASE \E e \in {"template", "decode", "depth"} : Fail(e)
  <2>1. PICK e \in {"template", "decode", "depth"} : Fail(e)
    BY <1>1
  <2>2. e \in Errors
    BY <2>1 DEF Errors
  <2>3. QED
    BY <2>1, <2>2, FailFact
<1>2. CASE /\ ~(Len(below) + 1 >= MaxDepth)
           /\ stack' = Append(below, Frame(f, doc)) /\ UNCHANGED <<lpc, answer>>
  <2>1. stack' \in Seq(Frames) /\ Len(stack') = Len(below) + 1
    BY <1>2, FrameFact
  <2>2. Len(below) \in Nat /\ MaxDepth \in Nat
    BY LoaderAssumption
  <2>3. Len(stack') < MaxDepth
    BY <1>2, <2>1, <2>2
  <2>4. QED
    BY <1>2, <2>1, <2>3 DEF LoaderTypeOK
<1>3. QED
    BY <1>1, <1>2 DEF Enter, Unreadable

-----------------------------------------------------------------------------
(* The types of a load *)

\* What a vars file gives is what is in it, pipe or not.
LEMMA VarsFact == ASSUME LoaderTypeOK PROVE readVarsFile = opt.vars
BY DEF LoaderTypeOK, readVarsFile

\* stdin gives every reader what was on it.
LEMMA StdinFact == ASSUME LoaderTypeOK PROVE readStdinOnce = disk[Spec1]
BY DEF LoaderTypeOK, readStdinOnce

\* What the filter of a load is made of, or that there is none.
LEMMA FilterFact ==
    ASSUME LoaderTypeOK, NEW peek, NEW disc, NewFilter(peek, disc)
    PROVE  /\ opt.vars = BadVars => lpc' = "return" /\ answer' = Err("vars")
           /\ opt.vars # BadVars =>
                /\ lpc' = "merge" /\ answer' = answer
                /\ template' = [disc |-> loadVarsForTemplates(opt.vars, disc),
                                missingkey |-> IF peek THEN "zero" ELSE "error"]
           /\ varsCache' = IF opt.pipe THEN <<opt.vars>> ELSE varsCache
           /\ drained' = IF opt.pipe THEN drained \cup {"vars"} ELSE drained
<1> DEFINE file == readVarsFile
<1>1. file = opt.vars
    BY VarsFact
<1>2. /\ IF file = BadVars
         THEN template' = NoFilter /\ answer' = Err("vars") /\ lpc' = "return"
         ELSE /\ template' = [disc |-> loadVarsForTemplates(file, disc),
                              missingkey |-> IF peek THEN "zero" ELSE "error"]
              /\ lpc' = "merge" /\ UNCHANGED answer
      /\ varsCache' = IF opt.pipe THEN <<file>> ELSE varsCache
      /\ drained' = IF opt.pipe THEN drained \cup {"vars"} ELSE drained
    BY DEF NewFilter
<1> HIDE DEF file
<1>3. QED
    BY <1>1, <1>2

\* A load starts with an empty stack, or ends for want of variables.
LEMMA StartLoadTypes ==
    ASSUME LoaderTypeOK, NEW p \in {"peek", "load", "discover"}, NEW disc, StartLoad(p, disc)
    PROVE  LoaderTypeOK'
<1>1. /\ pass' = p /\ stack' = <<>> /\ UNCHANGED <<disk, opt, stdinCache>> /\ NewFilter(p = "peek", disc)
    BY DEF StartLoad
<1>6. /\ varsCache' = IF opt.pipe THEN <<opt.vars>> ELSE varsCache
      /\ drained' = IF opt.pipe THEN drained \cup {"vars"} ELSE drained
      /\ opt.vars = BadVars => lpc' = "return" /\ answer' = Err("vars")
      /\ opt.vars # BadVars => lpc' = "merge" /\ answer' = answer
    BY <1>1, FilterFact, Zenon
<1>2. /\ varsCache' \in {<<>>, <<opt.vars>>}
      /\ ("stdin" \in drained' => stdinCache # <<>>) /\ ("vars" \in drained' => varsCache' # <<>>)
  <2>1. <<opt.vars>> # <<>>
    OBVIOUS
  <2>2. QED
    BY <1>1, <1>6, <2>1 DEF LoaderTypeOK
<1>3. stack' \in Seq(Frames) /\ Len(stack') < MaxDepth
    BY <1>1, LoaderAssumption
<1>4. answer' \in [err : Errors, cfg : Configs] /\ lpc' \in {"merge", "return"} /\ (opt.vars = BadVars => lpc' # "merge")
  <2>1. Err("vars") \in [err : Errors, cfg : Configs]
    BY NoConfigFact DEF Err, Errors
  <2>2. QED
    BY <1>6, <2>1 DEF LoaderTypeOK
<1>5. QED
    BY <1>1, <1>2, <1>3, <1>4 DEF LoaderTypeOK

\* The root of a load is entered, or it cannot be.
LEMMA ReadRootTypes == ASSUME LoaderTypeOK, ReadRoot PROVE LoaderTypeOK'
<1> DEFINE stdin == opt.stdin /\ Root = Spec1
           doc == IF stdin THEN readStdinOnce ELSE disk[Root]
<1>1. /\ lpc = "merge" /\ UNCHANGED loadSettings
      /\ stdinCache' = IF stdin THEN <<doc>> ELSE stdinCache
      /\ drained' = IF stdin THEN drained \cup {"stdin"} ELSE drained
    BY DEF ReadRoot
<1>2. \/ \E e \in {"format", "notests", "file"} : Fail(e)
      \/ doc # Absent /\ Enter(<<>>, Root, doc, doc.fmt)
    BY DEF ReadRoot
<1>3. Root \in Files /\ disk[Root] \in Documents \cup {Absent} /\ disk[Spec1] \in Documents \cup {Absent}
    BY LoaderAssumption DEF LoaderTypeOK, Root, Spec1, DiscoverSpec
<1>4. /\ doc \in Documents \cup {Absent} /\ stdinCache' \in {<<>>, <<disk[Spec1]>>}
      /\ ("stdin" \in drained' => stdinCache' # <<>>) /\ ("vars" \in drained' => varsCache # <<>>)
  <2>1. <<doc>> # <<>>
    OBVIOUS
  <2>2. QED
    BY <1>1, <1>3, <2>1, StdinFact DEF LoaderTypeOK
<1>5. /\ stack' \in Seq(Frames) /\ Len(stack') < MaxDepth
      /\ answer' \in [err : Errors, cfg : Configs] /\ lpc' \in {"merge", "return"}
  <2>1. CASE \E e \in {"format", "notests", "file"} : Fail(e)
    <3>1. PICK e \in {"format", "notests", "file"} : Fail(e)
        BY <2>1
    <3>2. e \in Errors
        BY <3>1 DEF Errors
    <3>3. QED
        BY <3>1, <3>2, FailFact
  <2>2. CASE doc # Absent /\ Enter(<<>>, Root, doc, doc.fmt)
    <3>1. doc \in Documents /\ <<>> \in Seq(Frames)
        BY <1>4, <2>2
    <3>2. QED
        BY <1>1, <1>3, <2>2, <3>1, EnterFact
  <2>3. QED
    BY <1>2, <2>1, <2>2
<1>6. QED
    BY <1>1, <1>4, <1>5 DEF LoaderTypeOK, loadSettings

\* The innermost activation, when there is one.
LEMMA TopFact ==
    ASSUME LoaderTypeOK, stack # <<>>
    PROVE  Len(stack) \in Nat \ {0} /\ Top \in Frames
BY DEF LoaderTypeOK, Top

\* A sequence with one element replaced is one.
LEMMA ReplaceFact ==
    ASSUME NEW S, NEW s \in Seq(S), NEW i \in 1..Len(s), NEW x \in S
    PROVE  [s EXCEPT ![i] = x] \in Seq(S)
OBVIOUS

\* The next include is entered, or it cannot be.
LEMMA IncludeTypes == ASSUME LoaderTypeOK, Include PROVE LoaderTypeOK'
<1> DEFINE f == Least(Top.todo)
           below == [stack EXCEPT ![Len(stack)].todo = @ \ {f}]
<1>1. /\ lpc = "merge" /\ stack # <<>> /\ Top.todo # {}
      /\ UNCHANGED <<loadSettings, outStoreFormat, stdinCache, drained>>
      /\ IF disk[f] = Absent THEN Fail("nomatch") ELSE Enter(below, f, disk[f], outStoreFormat)
    BY DEF Include
<1>2. Len(stack) \in Nat \ {0} /\ Top \in Frames /\ Top.todo \in SUBSET Files
    BY <1>1, TopFact DEF Frames
<1>3. f \in Files
    BY <1>1, <1>2, LeastFact
<1>4. below \in Seq(Frames)
  <2>1. stack \in Seq(Frames) /\ Len(stack) \in 1..Len(stack)
    BY <1>2 DEF LoaderTypeOK
  <2>2. [Top EXCEPT !.todo = @ \ {f}] \in Frames
    BY <1>2 DEF Frames
  <2>3. below = [stack EXCEPT ![Len(stack)] = [Top EXCEPT !.todo = @ \ {f}]]
    BY DEF Top
  <2>4. QED
    BY <2>1, <2>2, <2>3, ReplaceFact
<1>5. disk[f] \in Documents \cup {Absent}
    BY <1>3 DEF LoaderTypeOK
<1>6. /\ stack' \in Seq(Frames) /\ Len(stack') < MaxDepth
      /\ answer' \in [err : Errors, cfg : Configs] /\ lpc' \in {"merge", "return"}
  <2>1. CASE disk[f] = Absent
    <3>1. Fail("nomatch") /\ "nomatch" \in Errors
        BY <1>1, <2>1 DEF Errors
    <3>2. QED
        BY <3>1, FailFact
  <2>2. CASE disk[f] # Absent
    <3>1. Enter(below, f, disk[f], outStoreFormat) /\ disk[f] \in Documents
        BY <1>1, <1>5, <2>2
    <3>2. QED
        BY <1>1, <1>3, <1>4, <3>1, EnterFact
  <2>3. QED
    BY <2>1, <2>2
<1>7. QED
    BY <1>1, <1>6 DEF LoaderTypeOK, loadSettings

\* The innermost activation returns to its caller, or the load to its own.
LEMMA MergedTypes == ASSUME LoaderTypeOK, Merged PROVE LoaderTypeOK'
<1>1. lpc = "merge" /\ stack # <<>> /\ UNCHANGED <<loadSettings, outStoreFormat, stdinCache, drained, warned>>
    BY DEF Merged
<1>2. Len(stack) \in Nat \ {0} /\ Top \in Frames /\ Top.ret \in Configs
    BY <1>1, TopFact DEF Frames
<1>3. /\ stack' \in Seq(Frames) /\ Len(stack') < MaxDepth
      /\ answer' \in [err : Errors, cfg : Configs] /\ lpc' \in {"merge", "return"}
  <2>1. CASE Len(stack) > 1
    <3> DEFINE up == Len(stack) - 1
               rest == SubSeq(stack, 1, up)
    <3>1. stack' = [rest EXCEPT ![up].ret = mergeSyver(@, Top.ret)] /\ UNCHANGED <<lpc, answer>>
        BY <2>1 DEF Merged
    <3>2. stack \in Seq(Frames) /\ up \in 1..Len(stack)
        BY <1>2, <2>1 DEF LoaderTypeOK
    <3>3. rest \in Seq(Frames) /\ Len(rest) = up /\ rest[up] \in Frames
        BY <3>2
    <3>4. mergeSyver(rest[up].ret, Top.ret) \in Configs
      <4>1. rest[up].ret \in Configs
        BY <3>3 DEF Frames
      <4>2. QED
        BY <1>2, <4>1, MergeFact
    <3>5. [rest[up] EXCEPT !.ret = mergeSyver(rest[up].ret, Top.ret)] \in Frames
        BY <3>3, <3>4 DEF Frames
    <3>6. stack' = [rest EXCEPT ![up] = [rest[up] EXCEPT !.ret = mergeSyver(rest[up].ret, Top.ret)]]
        BY <3>1
    <3>7. stack' \in Seq(Frames) /\ Len(stack') = up
        BY <3>2, <3>3, <3>5, <3>6
    <3>8. up < MaxDepth
        BY <1>2, LoaderAssumption DEF LoaderTypeOK
    <3>9. QED
        BY <1>1, <3>1, <3>7, <3>8 DEF LoaderTypeOK
  <2>2. CASE Fail("notests")
    <3>1. "notests" \in Errors
        BY DEF Errors
    <3>2. QED
        BY <2>2, <3>1, FailFact
  <2>3. CASE answer' = Ok(Top.ret) /\ lpc' = "return" /\ UNCHANGED stack
    <3>1. answer' = [err |-> "none", cfg |-> Top.ret]
        BY <2>3 DEF Ok
    <3>2. answer' \in [err : Errors, cfg : Configs]
        BY <1>2, <3>1 DEF Errors
    <3>3. QED
        BY <2>3, <3>2 DEF LoaderTypeOK
  <2>4. QED
    BY <2>1, <2>2, <2>3 DEF Merged
<1>4. QED
    BY <1>1, <1>3 DEF LoaderTypeOK, loadSettings

\* A load's caller goes on with an answer, that of the load or an error.
LEMMA ReturnTypes == ASSUME LoaderTypeOK, Return PROVE LoaderTypeOK'
<1>1. /\ lpc = "return"
      /\ UNCHANGED <<disk, opt, verdicts, pass, outStoreFormat, template, stack, stdinCache, varsCache, drained>>
      /\ \/ answer' = answer /\ lpc' \in {"return", "load", "done"}
         \/ lpc' = "done" /\ \E e \in {"nodiscovery", "register"} : answer' = Err(e)
    BY DEF Return, Finished
<1>2. answer' \in [err : Errors, cfg : Configs] /\ lpc' \in {"return", "load", "done"}
  <2>1. CASE answer' = answer /\ lpc' \in {"return", "load", "done"}
    BY <2>1 DEF LoaderTypeOK
  <2>2. CASE lpc' = "done" /\ \E e \in {"nodiscovery", "register"} : answer' = Err(e)
    BY <2>2, NoConfigFact DEF Err, Errors
  <2>3. QED
    BY <1>1, <2>1, <2>2
<1>3. QED
    BY <1>1, <1>2 DEF LoaderTypeOK

\* The stack of includes never grows to the depth limit, and no load sees a stdin
\* or a pipe that another has drained.
THEOREM LoaderTypeCorrect == AnyLoadSpec => []LoaderTypeOK
<1>1. AnyLoad => LoaderTypeOK
  <2> SUFFICES ASSUME AnyLoad PROVE LoaderTypeOK
    OBVIOUS
  <2>1. opt \in CommandLines /\ opt.mode \in {"plain", "discover", "format", "render"}
    BY DEF AnyLoad, CommandLines
  <2>2. lpc \in {"peek", "discover", "load"}
    BY <2>1 DEF AnyLoad, LoaderInit
  <2>3. answer = [err |-> "none", cfg |-> NoConfig]
    BY DEF AnyLoad, LoaderInit, Ok
  <2>4. answer \in [err : Errors, cfg : Configs]
    BY <2>3, NoConfigFact DEF Errors
  <2>5. stack \in Seq(Frames) /\ Len(stack) < MaxDepth
    BY LoaderAssumption DEF AnyLoad, LoaderInit
  <2>6. QED
    BY <2>1, <2>2, <2>4, <2>5 DEF AnyLoad, LoaderInit, LoaderTypeOK
<1>2. LoaderTypeOK /\ [LoaderNext]_<<loaderVars, discoveryVars>> => LoaderTypeOK'
  <2> SUFFICES ASSUME LoaderTypeOK, [LoaderNext]_<<loaderVars, discoveryVars>> PROVE LoaderTypeOK'
    OBVIOUS
  <2>1. CASE Peek \/ LoadDiscoverSpec \/ Load
    BY <2>1, StartLoadTypes DEF Peek, LoadDiscoverSpec, Load
  <2>2. CASE LoadSteps
    BY <2>2, ReadRootTypes, IncludeTypes, MergedTypes DEF LoadSteps
  <2>3. CASE Return
    BY <2>3, ReturnTypes
  <2>4. CASE Discovered
    BY <2>4 DEF Discovered, afterDiscovery, LoaderTypeOK, loadVars
  <2>5. CASE UNCHANGED loaderVars
    BY <2>5 DEF loaderVars, loadVars, LoaderTypeOK
  <2>6. QED
    BY <2>1, <2>2, <2>3, <2>4, <2>5 DEF LoaderNext, LoaderStep
<1>3. QED
    BY <1>1, <1>2, PTL DEF AnyLoadSpec

-----------------------------------------------------------------------------
(* What loads promise *)

\* The sections handed to discovery are those it expects: to discovery the
\* loader is any caller.
THEOREM LoadsRunDiscovery == AnyLoadSpec => DiscoverySpec
<1>1. AnyLoad => DiscoveryOff
    BY DEF AnyLoad
<1>2. LoaderTypeOK /\ [LoaderNext]_<<loaderVars, discoveryVars>>
        => [HandOver \/ DiscoveryNext \/ TakeVerdicts]_discoveryVars
  <2> SUFFICES ASSUME LoaderTypeOK, [LoaderNext]_<<loaderVars, discoveryVars>>
               PROVE  HandOver \/ DiscoveryNext \/ TakeVerdicts \/ UNCHANGED discoveryVars
    OBVIOUS
  <2>1. CASE Peek \/ LoadDiscoverSpec \/ Load
    BY <2>1 DEF Peek, LoadDiscoverSpec, Load
  <2>2. CASE Return
    <3> DEFINE section == answer.cfg.section
    <3>1. phase = "off" /\ (UNCHANGED discoveryVars \/ (~EntriesError(section) /\ Discover(section)))
        BY <2>2 DEF Return
    <3>2. CASE ~EntriesError(section) /\ Discover(section)
      <4>1. section \in Sections
        BY DEF LoaderTypeOK, Configs
      <4>2. PICK D \in SUBSET DKeys : section \in [D -> Registers \cup {NoRegister}]
        BY <4>1 DEF Sections, Partial
      <4>3. Range(section) \subseteq Registers
        BY <3>2, <4>2 DEF EntriesError, Range
      <4>4. QED
        BY <3>1, <3>2, <4>3 DEF HandOver
    <3>3. QED
        BY <3>1, <3>2
  <2>3. CASE Discovered
    BY <2>3 DEF Discovered, TakeVerdicts
  <2>4. CASE LoadSteps /\ UNCHANGED discoveryVars
    BY <2>4
  <2>5. QED
    BY <2>1, <2>2, <2>3, <2>4 DEF LoaderNext, LoaderStep
<1>3. QED
    BY <1>1, <1>2, LoaderTypeCorrect, PTL DEF AnyLoadSpec, DiscoverySpec

\* So in every load, of any files under any command line, the verdicts are
\* complete and each is its own entry's.
THEOREM LoadVerdictsCorrect == AnyLoadSpec => []VerdictsExact
BY LoadsRunDiscovery, VerdictsCorrect, PTL

\* Nothing is rendered before there is a filter.
LEMMA RenderInit == AnyLoad => RenderInv
<1> SUFFICES ASSUME AnyLoad PROVE RenderInv
    OBVIOUS
<1>1. phase = "off" /\ pass = "none" /\ verdicts = Empty /\ told = Empty
    BY DEF AnyLoad, LoaderInit, DiscoveryOff
<1>2. DOMAIN verdicts = {} /\ DOMAIN told = {}
    BY <1>1 DEF Empty
<1>3. QED
    BY <1>1, <1>2 DEF RenderInv, RendersTruly

\* The filter of the real load.
LEMMA LoadFilter ==
    ASSUME LoaderTypeOK, RenderInv, Load, opt.vars # BadVars
    PROVE  template' = TrueTemplate' /\ ~quietDecode'
<1>1. /\ lpc = "load" /\ UNCHANGED <<opt, told>> /\ quietDecode' = FALSE
      /\ template' = [disc |-> loadVarsForTemplates(opt.vars, verdicts), missingkey |-> "error"]
  <2>1. /\ lpc = "load" /\ UNCHANGED <<opt, told>> /\ quietDecode' = FALSE /\ NewFilter(FALSE, verdicts)
    BY DEF Load, StartLoad, quietFor, discoveryVars
  <2>2. QED
    BY <2>1, FilterFact
<1>2. DOMAIN verdicts = DOMAIN told /\ \A r \in DOMAIN told : verdicts[r] = ("FAIL" \notin Range(told[r]))
    BY <1>1 DEF RenderInv
<1>3. opt.vars = [r \in DOMAIN opt.vars |-> opt.vars[r]]
    BY DEF LoaderTypeOK, CommandLines, Partial
<1>4. loadVarsForTemplates(opt.vars, verdicts) =
        IF opt.inline # Unread THEN opt.inline
        ELSE [r \in DOMAIN opt.vars \cup DOMAIN told |->
                 IF r \in DOMAIN told THEN "FAIL" \notin Range(told[r]) ELSE opt.vars[r]]
  <2>1. CASE DOMAIN told = {}
    BY <1>2, <1>3, <2>1 DEF loadVarsForTemplates
  <2>2. CASE DOMAIN told # {}
    BY <1>2, <2>2 DEF loadVarsForTemplates, Override
  <2>3. QED
    BY <2>1, <2>2
<1>5. template' = TrueTemplate
    BY <1>1, <1>4 DEF TrueTemplate
<1>6. TrueTemplate' = TrueTemplate
    BY <1>1 DEF TrueTemplate
<1>7. QED
    BY <1>1, <1>5, <1>6

\* Reading and merging leave the filter alone.
LEMMA LoadStepsFact ==
    ASSUME LoadSteps
    PROVE  /\ lpc = "merge" /\ lpc' \in {"merge", "return"}
           /\ UNCHANGED <<opt, verdicts, pass, quietDecode, template>>
<1>1. CASE ReadRoot
    BY <1>1 DEF ReadRoot, Enter, Fail, loadSettings
<1>2. CASE Include
    BY <1>2 DEF Include, Enter, Fail, loadSettings
<1>3. CASE Merged
    BY <1>3 DEF Merged, Fail, loadSettings
<1>4. QED
    BY <1>1, <1>2, <1>3 DEF LoadSteps

\* Discovery moves only while it is under way, and does not end itself.
LEMMA DiscoveryMoves ==
    ASSUME DiscoveryInv, DiscoveryNext
    PROVE  phase # "off" /\ phase' # "off"
<1>1. CASE \E w \in Workers : Check(w)
    BY <1>1 DEF Check, TakeEntry, ValidateEntry, SendVerdict, DiscoveryInv, EndInv
<1>2. CASE CloseOut \/ Collect
    BY <1>2 DEF CloseOut, Collect
<1>3. QED
    BY <1>1, <1>2 DEF DiscoveryNext

\* Every step of a load keeps RenderInv.
LEMMA RenderNext ==
    LoaderTypeOK /\ DiscoveryInv /\ VerdictsExact /\ RenderInv /\ [LoaderNext]_<<loaderVars, discoveryVars>>
        => RenderInv'
<1> SUFFICES ASSUME LoaderTypeOK, DiscoveryInv, VerdictsExact, RenderInv,
                    [LoaderNext]_<<loaderVars, discoveryVars>>
             PROVE  RenderInv'
    OBVIOUS
<1>1. CASE Peek \/ LoadDiscoverSpec
  <2>1. /\ lpc \in {"peek", "discover"} /\ pass' \in {"peek", "discover"} /\ UNCHANGED <<verdicts, phase, told>>
    BY <1>1 DEF Peek, LoadDiscoverSpec, StartLoad, discoveryVars
  <2>2. QED
    BY <2>1 DEF RenderInv, RendersTruly
<1>2. CASE Load
  <2>1. /\ lpc = "load" /\ pass' = "load" /\ lpc' \in {"merge", "return"}
        /\ UNCHANGED <<opt, verdicts, phase, told>>
    BY <1>2 DEF Load, StartLoad, NewFilter, discoveryVars
  <2>2. opt.vars # BadVars => template' = TrueTemplate' /\ ~quietDecode'
    BY <1>2, LoadFilter
  <2>3. QED
    BY <2>1, <2>2 DEF RenderInv, RendersTruly
<1>3. CASE LoadSteps /\ UNCHANGED discoveryVars
  <2>1. /\ lpc = "merge" /\ lpc' \in {"merge", "return"} /\ UNCHANGED <<phase, told>>
        /\ UNCHANGED <<opt, verdicts, pass, quietDecode, template>>
    BY <1>3, LoadStepsFact DEF discoveryVars
  <2>2. TrueTemplate' = TrueTemplate
    BY <2>1 DEF TrueTemplate
  <2>3. QED
    BY <2>1, <2>2 DEF RenderInv, RendersTruly
<1>4. CASE Return
  <2>1. /\ lpc = "return" /\ phase = "off" /\ quietDecode' = FALSE
        /\ UNCHANGED <<opt, verdicts, pass, template>>
    BY <1>4 DEF Return
  <2>2. CASE UNCHANGED discoveryVars /\ (pass = "load" => lpc' = "done")
    <3>1. UNCHANGED <<phase, told>>
        BY <2>2 DEF discoveryVars
    <3>2. TrueTemplate' = TrueTemplate
        BY <2>1, <3>1 DEF TrueTemplate
    <3>3. QED
        BY <2>1, <2>2, <3>1, <3>2 DEF RenderInv, RendersTruly
  <2>3. CASE pass # "load" /\ phase' = "range" /\ lpc' = lpc
    BY <2>1, <2>3 DEF RenderInv, RendersTruly
  <2>4. QED
    BY <1>4, <2>2, <2>3 DEF Return, IsResult, Finished, Discover
<1>5. CASE Discovered
  <2>1. /\ lpc = "return" /\ phase = "over" /\ phase' = "off" /\ verdicts' = discovered
        /\ UNCHANGED <<pass, told>>
    BY <1>5 DEF Discovered, loadVars
  <2>2. pass # "load"
    BY <2>1 DEF RenderInv
  <2>3. DOMAIN discovered = DOMAIN told /\ \A r \in DOMAIN told : discovered[r] = ("FAIL" \notin Range(told[r]))
    BY <2>1 DEF VerdictsExact
  <2>4. QED
    BY <2>1, <2>2, <2>3 DEF RenderInv, RendersTruly
<1>6. CASE DiscoveryNext /\ UNCHANGED loaderVars
  <2>1. phase # "off" /\ phase' # "off"
    BY <1>6, DiscoveryMoves
  <2>2. UNCHANGED <<lpc, pass>>
    BY <1>6 DEF loaderVars, loadVars
  <2>3. QED
    BY <2>1, <2>2 DEF RenderInv, RendersTruly
<1>7. CASE UNCHANGED <<loaderVars, discoveryVars>>
  <2>1. UNCHANGED <<lpc, pass, phase, told, verdicts, template, opt, quietDecode>>
    BY <1>7 DEF loaderVars, loadVars, discoveryVars
  <2>2. TrueTemplate' = TrueTemplate
    BY <2>1 DEF TrueTemplate
  <2>3. QED
    BY <2>1, <2>2 DEF RenderInv, RendersTruly
<1>8. QED
    BY <1>1, <1>2, <1>3, <1>4, <1>5, <1>6, <1>7 DEF LoaderNext, LoaderStep

\* In every load.
THEOREM RenderInvCorrect == AnyLoadSpec => []RenderInv
<1>1. AnyLoadSpec => []DiscoveryInv
    BY LoadsRunDiscovery, DiscoveryInvCorrect, PTL
<1>2. QED
    BY <1>1, RenderInit, RenderNext, LoaderTypeCorrect, LoadVerdictsCorrect, PTL DEF AnyLoadSpec

\* The peek leaves no trace in what the real load is rendered with: any files,
\* any command line, whatever order discovery's workers finish in.
THEOREM RendersCorrect == AnyLoadSpec => []RendersTruly
<1>1. RenderInv => RendersTruly
    BY DEF RenderInv
<1>2. QED
    BY <1>1, RenderInvCorrect, PTL

-----------------------------------------------------------------------------
(* Chains of includes *)

Inc(t) == [f \in Files |-> Includes(f, t)]

\* C holds the chains from root along inc, as deep as the limit.
IsChains(C, inc, root) ==
    \A u : u \in C <=> /\ u \in Seq(Files) /\ 1 <= Len(u) /\ Len(u) <= MaxDepth /\ u[1] = root
                       /\ \A i \in 1..(Len(u) - 1) : u[i + 1] \in inc[u[i]]

\* The chains of the reference are these.
LEMMA ChainsFact ==
    ASSUME NEW root \in Files, NEW t
    PROVE  IsChains(Chains(root, t), Inc(t), root)
<1> SUFFICES ASSUME NEW u
             PROVE  u \in Chains(root, t) <=>
                      /\ u \in Seq(Files) /\ 1 <= Len(u) /\ Len(u) <= MaxDepth /\ u[1] = root
                      /\ \A i \in 1..(Len(u) - 1) : u[i + 1] \in Inc(t)[u[i]]
    BY DEF IsChains
<1>1. MaxDepth \in Nat
    BY LoaderAssumption
<1>2. ASSUME u \in Chains(root, t)
      PROVE  /\ u \in Seq(Files) /\ 1 <= Len(u) /\ Len(u) <= MaxDepth /\ u[1] = root
             /\ \A i \in 1..(Len(u) - 1) : u[i + 1] \in Inc(t)[u[i]]
  <2>1. PICK n \in 1..MaxDepth : /\ u \in [1..n -> Files] /\ u[1] = root
                                 /\ \A i \in 1..(n - 1) : u[i + 1] \in Includes(u[i], t)
    BY <1>2 DEF Chains
  <2>2. u \in Seq(Files) /\ Len(u) = n /\ n \in Nat
    BY <1>1, <2>1
  <2>3. \A i \in 1..(n - 1) : u[i] \in Files
    BY <2>1
  <2>4. QED
    BY <1>1, <2>1, <2>2, <2>3 DEF Inc
<1>3. ASSUME u \in Seq(Files), 1 <= Len(u), Len(u) <= MaxDepth, u[1] = root,
             \A i \in 1..(Len(u) - 1) : u[i + 1] \in Inc(t)[u[i]]
      PROVE  u \in Chains(root, t)
  <2> DEFINE n == Len(u)
  <2>1. n \in 1..MaxDepth /\ u \in [1..n -> Files]
    BY <1>1, <1>3
  <2>2. \A i \in 1..(n - 1) : u[i + 1] \in Includes(u[i], t)
    <3>1. \A i \in 1..(n - 1) : u[i] \in Files
        BY <2>1
    <3>2. \A i \in 1..(n - 1) : Inc(t)[u[i]] = Includes(u[i], t)
        BY <3>1 DEF Inc
    <3>3. QED
        BY <1>3, <3>2
  <2> HIDE DEF n
  <2>3. u \in {s \in [1..n -> Files] : s[1] = root /\ \A i \in 1..(n - 1) : s[i + 1] \in Includes(s[i], t)}
    BY <1>3, <2>1, <2>2
  <2>4. QED
    BY <2>1, <2>3, Zenon DEF Chains
<1>4. QED
    BY <1>2, <1>3

\* An includer is met before what it includes,
LEMMA BeforePrefix ==
    ASSUME NEW s \in Seq(Files), NEW u \in Seq(Files), Len(s) < Len(u),
           \A j \in 1..Len(s) : u[j] = s[j]
    PROVE  Before(s, u)
<1>1. SubSeq(u, 1, Len(s)) = s
    OBVIOUS
<1>2. QED
    BY <1>1 DEF Before

\* and an earlier include before a later one.
LEMMA BeforeBranch ==
    ASSUME NEW s \in Seq(Files), NEW u \in Seq(Files), NEW i \in 1..Len(s), i <= Len(u),
           \A j \in 1..(i - 1) : u[j] = s[j], s[i] < u[i]
    PROVE  Before(s, u)
<1>1. SubSeq(s, 1, i - 1) = SubSeq(u, 1, i - 1)
    OBVIOUS
<1>2. QED
    BY <1>1 DEF Before

\* What it is for one chain to be met before another.
LEMMA BeforeFact ==
    ASSUME NEW s \in Seq(Files), NEW u \in Seq(Files), Before(s, u)
    PROVE  \/ Len(s) < Len(u) /\ \A j \in 1..Len(s) : u[j] = s[j]
           \/ \E i \in 1..Len(s) : /\ i <= Len(u) /\ s[i] < u[i]
                                   /\ \A j \in 1..(i - 1) : u[j] = s[j]
<1>1. CASE Len(s) < Len(u) /\ SubSeq(u, 1, Len(s)) = s
  <2>1. \A j \in 1..Len(s) : SubSeq(u, 1, Len(s))[j] = u[j]
    BY <1>1
  <2>2. QED
    BY <1>1, <2>1
<1>2. CASE \E i \in 1..Len(s) : i <= Len(u) /\ SubSeq(s, 1, i - 1) = SubSeq(u, 1, i - 1) /\ s[i] < u[i]
  <2>1. PICK i \in 1..Len(s) : i <= Len(u) /\ SubSeq(s, 1, i - 1) = SubSeq(u, 1, i - 1) /\ s[i] < u[i]
    BY <1>2
  <2>2. \A j \in 1..(i - 1) : SubSeq(s, 1, i - 1)[j] = s[j] /\ SubSeq(u, 1, i - 1)[j] = u[j]
    BY <2>1
  <2>3. \A j \in 1..(i - 1) : u[j] = s[j]
    BY <2>1, <2>2
  <2>4. QED
    BY <2>1, <2>3
<1>3. QED
    BY <1>1, <1>2 DEF Before

\* No two chains are each met before the other.
LEMMA BeforeStrict ==
    ASSUME NEW s \in Seq(Files), NEW u \in Seq(Files), Before(s, u), Before(u, s)
    PROVE  FALSE
<1>1. Files \subseteq Nat
    BY LoaderAssumption
<1>2. \A j \in 1..Len(s) : s[j] \in Nat
  <2>1. \A j \in 1..Len(s) : s[j] \in Files
    OBVIOUS
  <2>2. QED
    BY <1>1, <2>1
<1>3. \A j \in 1..Len(u) : u[j] \in Nat
  <2>1. \A j \in 1..Len(u) : u[j] \in Files
    OBVIOUS
  <2>2. QED
    BY <1>1, <2>1
<1>4. CASE Len(s) < Len(u) /\ \A j \in 1..Len(s) : u[j] = s[j]
  <2>1. PICK i \in 1..Len(u) : i <= Len(s) /\ u[i] < s[i]
    BY <1>4, BeforeFact
  <2>2. QED
    BY <1>2, <1>4, <2>1
<1>5. CASE \E i \in 1..Len(s) : i <= Len(u) /\ s[i] < u[i] /\ \A j \in 1..(i - 1) : u[j] = s[j]
  <2>1. PICK i \in 1..Len(s) : i <= Len(u) /\ s[i] < u[i] /\ \A j \in 1..(i - 1) : u[j] = s[j]
    BY <1>5
  <2>2. CASE Len(u) < Len(s) /\ \A j \in 1..Len(u) : s[j] = u[j]
    BY <1>2, <2>1, <2>2
  <2>3. CASE \E k \in 1..Len(u) : k <= Len(s) /\ u[k] < s[k] /\ \A j \in 1..(k - 1) : s[j] = u[j]
    <3>1. PICK k \in 1..Len(u) : k <= Len(s) /\ u[k] < s[k] /\ \A j \in 1..(k - 1) : s[j] = u[j]
        BY <2>3
    <3>2. i \in 1..Len(u) /\ k \in 1..Len(s)
        BY <2>1, <3>1
    <3>3. CASE i = k
        BY <1>2, <1>3, <2>1, <3>1, <3>2, <3>3
    <3>4. CASE i < k
      <4>1. i \in 1..(k - 1)
        BY <3>4
      <4>2. QED
        BY <1>2, <1>3, <2>1, <3>1, <3>2, <4>1
    <3>5. CASE k < i
      <4>1. k \in 1..(i - 1)
        BY <3>5
      <4>2. QED
        BY <1>2, <1>3, <2>1, <3>1, <3>2, <4>1
    <3>6. QED
        BY <3>3, <3>4, <3>5
  <2>4. QED
    BY <2>2, <2>3, BeforeFact
<1>6. QED
    BY <1>4, <1>5, BeforeFact

\* u goes through the first i activations.
Under(st, u, i) == i <= Len(u) /\ \A j \in 1..i : u[j] = st[j].file

\* u goes on through an include that is still to merge.
Pending(st, u) == \E i \in 1..Len(st) : Under(st, u, i) /\ i < Len(u) /\ u[i + 1] \in st[i].todo

Met(st, C) == {u \in C : ~Pending(st, u)}

\* What the i-th activation has in its ret: what was met below it, but not
\* below the activation it waits for.
Own(st, C, i) == {u \in Met(st, C) : Under(st, u, i) /\ (i < Len(st) => ~Under(st, u, i + 1))}

\* The includes of the i-th activation that are done with, or under way.
Merging(st, inc, i) == inc[st[i].file] \ st[i].todo

\* The stack is a chain, and the includes of each activation are taken in order.
Stacked(st, inc, root) ==
    /\ st \in Seq(Frames) /\ st # <<>> /\ st[1].file = root
    /\ \A i \in 1..Len(st) :
          st[i].todo \subseteq inc[st[i].file] /\ \A g \in Merging(st, inc, i) : \A h \in st[i].todo : g < h
    /\ \A i \in 1..(Len(st) - 1) :
          st[i + 1].file \in Merging(st, inc, i) /\ \A g \in Merging(st, inc, i) : g <= st[i + 1].file

\* The types of a stack.
LEMMA StackedFact ==
    ASSUME NEW inc \in [Files -> SUBSET Files], NEW root, NEW st, Stacked(st, inc, root)
    PROVE  /\ Len(st) \in Nat /\ Len(st) >= 1
           /\ \A i \in 1..Len(st) : /\ st[i] \in Frames /\ st[i].file \in Files
                                    /\ st[i].todo \in SUBSET Files /\ st[i].todo \in SUBSET Nat
                                    /\ inc[st[i].file] \in SUBSET Nat
<1>1. Files \subseteq Nat
    BY LoaderAssumption
<1>2. Len(st) \in Nat /\ Len(st) >= 1 /\ \A i \in 1..Len(st) : st[i] \in Frames
    BY DEF Stacked
<1>3. \A i \in 1..Len(st) : st[i].file \in Files /\ st[i].todo \in SUBSET Files
    BY <1>2 DEF Frames
<1>4. \A i \in 1..Len(st) : inc[st[i].file] \in SUBSET Files
    BY <1>3
<1>5. QED
    BY <1>1, <1>2, <1>3, <1>4

\* c is the chain of f, the next include of the innermost activation, the n-th.
NextIs(st, n, f, c) ==
    /\ n = Len(st) /\ f \in st[n].todo /\ \A g \in st[n].todo : f <= g
    /\ c \in Seq(Files) /\ Len(c) = n + 1 /\ c[n + 1] = f /\ \A i \in 1..n : c[i] = st[i].file

\* st2 is st with the activation of f on top of the n-th.
Pushed(st, st2, inc, n, f) ==
    /\ st2 \in Seq(Frames) /\ Len(st2) = n + 1
    /\ \A i \in 1..n : st2[i].file = st[i].file
    /\ \A i \in 1..(n - 1) : st2[i].todo = st[i].todo
    /\ st2[n].todo = st[n].todo \ {f} /\ st2[n + 1].file = f /\ st2[n + 1].todo = inc[f]

\* The chain of the next include: it is the first of those still to be met.
LEMMA NextChain ==
    ASSUME NEW inc \in [Files -> SUBSET Files], NEW root, NEW C, IsChains(C, inc, root),
           NEW st, Stacked(st, inc, root), NEW n, n < MaxDepth, NEW f, NEW c, NextIs(st, n, f, c)
    PROVE  /\ c \in C /\ Pending(st, c) /\ Under(st, c, n)
           /\ \A i \in 1..(n - 1) : c[i + 1] \notin st[i].todo
           /\ \A u \in C : Pending(st, u) => u = c \/ Before(c, u)
<1> USE DEF NextIs
<1>1. n \in Nat /\ n >= 1 /\ MaxDepth \in Nat
    BY StackedFact, LoaderAssumption
<1>2. Under(st, c, n) /\ n \in 1..Len(st) /\ n < Len(c)
    BY <1>1 DEF Under
<1>3. Pending(st, c)
    BY <1>2 DEF Pending
<1>4. \A i \in 1..(n - 1) : i \in 1..n /\ i + 1 \in 1..n /\ c[i + 1] = st[i + 1].file
    BY <1>1
<1>5. \A i \in 1..(n - 1) : c[i + 1] \in Merging(st, inc, i)
    BY <1>4 DEF Stacked
<1>6. c \in C
  <2>1. c[1] = root
    BY <1>1 DEF Stacked
  <2>2. ASSUME NEW i \in 1..(Len(c) - 1) PROVE c[i + 1] \in inc[c[i]]
    <3>1. i \in 1..n
        BY <1>1
    <3>2. CASE i = n
        BY <1>2, <3>2 DEF Stacked
    <3>3. CASE i # n
      <4>1. i \in 1..(n - 1)
        BY <3>1, <3>3, <1>1
      <4>2. QED
        BY <1>4, <1>5, <4>1 DEF Merging
    <3>4. QED
        BY <3>2, <3>3
  <2>3. c \in Seq(Files) /\ 1 <= Len(c) /\ Len(c) <= MaxDepth
    BY <1>1
  <2> HIDE DEF NextIs
  <2>4. QED
    BY <2>1, <2>2, <2>3 DEF IsChains
<1>7. ASSUME NEW u \in C, Pending(st, u) PROVE u = c \/ Before(c, u)
  <2>1. u \in Seq(Files) /\ Len(u) \in Nat
    BY DEF IsChains
  <2>2. PICK i \in 1..n : Under(st, u, i) /\ i < Len(u) /\ u[i + 1] \in st[i].todo
    BY <1>7 DEF Pending
  <2>3. \A j \in 1..i : u[j] = c[j]
    BY <1>1, <2>2 DEF Under
  <2>4. CASE i = n /\ u[n + 1] = f
    <3>1. \A j \in 1..(n + 1) : u[j] = c[j]
      <4>1. \A j \in 1..(n + 1) : j \in 1..n \/ j = n + 1
        BY <1>1
      <4>2. QED
        BY <2>3, <2>4, <4>1
    <3>2. CASE Len(u) = n + 1
        BY <2>1, <3>1, <3>2
    <3>3. CASE Len(u) # n + 1
      <4>1. Len(c) < Len(u)
        BY <1>1, <2>1, <2>2, <2>4, <3>3
      <4>2. QED
        BY <2>1, <3>1, <4>1, BeforePrefix
    <3>4. QED
        BY <3>2, <3>3
  <2>5. ASSUME c[i + 1] < u[i + 1] PROVE Before(c, u)
    <3>1. i + 1 \in 1..Len(c) /\ i + 1 <= Len(u)
        BY <1>1, <2>1, <2>2
    <3>2. \A j \in 1..((i + 1) - 1) : u[j] = c[j]
        BY <2>3
    <3>3. QED
        BY <2>1, <2>5, <3>1, <3>2, BeforeBranch
  <2>6. CASE i = n /\ u[n + 1] # f
    <3>1. f <= u[n + 1] /\ f \in Nat /\ u[n + 1] \in Nat
        BY <1>2, <2>2, <2>6, StackedFact
    <3>2. QED
        BY <2>5, <2>6, <3>1
  <2>7. CASE i # n
    <3>1. i \in 1..(n - 1)
        BY <1>1, <2>7
    <3>2. c[i + 1] < u[i + 1]
        BY <1>5, <2>2, <3>1 DEF Stacked
    <3>3. QED
        BY <2>5, <3>2
  <2>8. QED
    BY <2>4, <2>6, <2>7
<1>8. QED
    BY <1>2, <1>3, <1>5, <1>6, <1>7 DEF Merging

\* An activation is pushed: its chain is met, and nothing else is.
LEMMA PushPending ==
    ASSUME NEW inc \in [Files -> SUBSET Files], NEW root, NEW C, IsChains(C, inc, root),
           NEW st, Stacked(st, inc, root), NEW n, n < MaxDepth, NEW f, NEW c, NextIs(st, n, f, c),
           NEW st2, Pushed(st, st2, inc, n, f)
    PROVE  /\ \A u \in C : \A i \in 1..n : Under(st2, u, i) <=> Under(st, u, i)
           /\ \A u \in C : Under(st2, u, n + 1) <=> Under(st, u, n) /\ n < Len(u) /\ u[n + 1] = f
           /\ \A u \in C : Pending(st2, u) <=> Pending(st, u) /\ u # c
<1> USE DEF NextIs, Pushed
<1>1. n \in Nat /\ n >= 1 /\ f \in Files
  <2>1. n \in Nat /\ n >= 1
    BY StackedFact
  <2>2. n \in 1..Len(st)
    BY <2>1
  <2>3. QED
    BY <2>1, <2>2, StackedFact
<1>2. c \in C /\ Pending(st, c) /\ \A i \in 1..(n - 1) : c[i + 1] \notin st[i].todo
    BY NextChain
<1>3. \A u \in C : u \in Seq(Files) /\ Len(u) \in Nat
    BY DEF IsChains
<1>4. ASSUME NEW u \in C, NEW i \in 1..n PROVE Under(st2, u, i) <=> Under(st, u, i)
    BY <1>1 DEF Under
<1>5. ASSUME NEW u \in C PROVE Under(st2, u, n + 1) <=> Under(st, u, n) /\ n < Len(u) /\ u[n + 1] = f
  <2>1. \A j \in 1..(n + 1) : j \in 1..n \/ j = n + 1
    BY <1>1
  <2>2. QED
    BY <1>1, <1>3, <2>1 DEF Under
<1>6. ASSUME NEW u \in C, Pending(st2, u) PROVE Pending(st, u) /\ u # c
  <2>1. PICK i \in 1..(n + 1) : Under(st2, u, i) /\ i < Len(u) /\ u[i + 1] \in st2[i].todo
    BY <1>6 DEF Pending
  <2>2. CASE i \in 1..(n - 1)
    <3>1. i \in 1..n /\ i \in 1..Len(st) /\ u[i + 1] \in st[i].todo
        BY <1>1, <2>1, <2>2
    <3>2. QED
        BY <1>2, <1>4, <2>1, <2>2, <3>1 DEF Pending
  <2>3. CASE i = n
    <3>1. n \in 1..n /\ n \in 1..Len(st) /\ u[n + 1] \in st[n].todo /\ u[n + 1] # f
        BY <1>1, <2>1, <2>3
    <3>2. QED
        BY <1>4, <2>1, <2>3, <3>1 DEF Pending
  <2>4. CASE i = n + 1
    <3>1. Under(st, u, n) /\ n < Len(u) /\ u[n + 1] = f /\ n \in 1..Len(st)
        BY <1>1, <1>5, <2>1, <2>4
    <3>2. u # c
        BY <1>1, <2>1, <2>4
    <3>3. QED
        BY <3>1, <3>2 DEF Pending
  <2>5. i \in 1..(n - 1) \/ i = n \/ i = n + 1
    BY <1>1, <2>1
  <2>6. QED
    BY <2>2, <2>3, <2>4, <2>5
<1>7. ASSUME NEW u \in C, Pending(st, u), u # c PROVE Pending(st2, u)
  <2>1. PICK i \in 1..n : Under(st, u, i) /\ i < Len(u) /\ u[i + 1] \in st[i].todo
    BY <1>7 DEF Pending
  <2>2. Under(st2, u, i) /\ i \in 1..Len(st2)
    BY <1>1, <1>4, <2>1
  <2>3. CASE i \in 1..(n - 1)
    <3>1. u[i + 1] \in st2[i].todo
        BY <2>1, <2>3
    <3>2. QED
        BY <2>1, <2>2, <3>1 DEF Pending
  <2>4. CASE i = n /\ u[n + 1] # f
    <3>1. u[i + 1] \in st2[i].todo
        BY <2>1, <2>4
    <3>2. QED
        BY <2>1, <2>2, <3>1 DEF Pending
  <2>5. CASE i = n /\ u[n + 1] = f
    <3>1. \A j \in 1..(n + 1) : u[j] = c[j]
      <4>1. \A j \in 1..(n + 1) : j \in 1..n \/ j = n + 1
        BY <1>1
      <4>2. QED
        BY <1>1, <2>1, <2>5, <4>1 DEF Under
    <3>2. Len(u) # n + 1
      <4>1. SUFFICES ASSUME Len(u) = n + 1 PROVE FALSE
        OBVIOUS
      <4>2. u = c
        BY <1>3, <3>1, <4>1
      <4>3. QED
        BY <1>7, <4>2
    <3>3. n + 1 < Len(u)
        BY <1>1, <1>3, <2>1, <2>5, <3>2
    <3>4. n + 1 \in 1..(Len(u) - 1)
        BY <1>1, <1>3, <3>3
    <3>5. u[(n + 1) + 1] \in inc[u[n + 1]]
        BY <3>4 DEF IsChains
    <3>6. Under(st2, u, n + 1) /\ n + 1 \in 1..Len(st2)
        BY <1>1, <1>5, <2>1, <2>5
    <3>7. QED
        BY <2>5, <3>3, <3>5, <3>6 DEF Pending
  <2>6. i \in 1..(n - 1) \/ i = n
    BY <1>1, <2>1
  <2>7. QED
    BY <2>3, <2>4, <2>5, <2>6
<1>8. QED
    BY <1>4, <1>5, <1>6, <1>7

\* The stack with it is one,
LEMMA PushStacked ==
    ASSUME NEW inc \in [Files -> SUBSET Files], NEW root,
           NEW st, Stacked(st, inc, root), NEW n, NEW f, NEW c, NextIs(st, n, f, c),
           NEW st2, Pushed(st, st2, inc, n, f)
    PROVE  Stacked(st2, inc, root)
<1> USE DEF NextIs, Pushed
<1>1. n \in Nat /\ n >= 1 /\ n \in 1..Len(st)
    BY StackedFact
<1>2. f \in Nat /\ st[n].todo \in SUBSET Nat /\ f \in inc[st[n].file] /\ inc[st[n].file] \in SUBSET Nat
  <2>1. st[n].todo \in SUBSET Nat /\ inc[st[n].file] \in SUBSET Nat
    BY <1>1, StackedFact
  <2>2. f \in inc[st[n].file]
    BY <1>1 DEF Stacked
  <2>3. QED
    BY <2>1, <2>2
<1>3. \A i \in 1..(n - 1) : Merging(st2, inc, i) = Merging(st, inc, i) /\ i \in 1..Len(st) /\ i \in 1..n
    BY <1>1 DEF Merging
<1>4. \A g : g \in Merging(st2, inc, n) <=> g \in Merging(st, inc, n) \/ g = f
    BY <1>1, <1>2 DEF Merging
<1>5. \A g \in Merging(st, inc, n) : g < f /\ g \in Nat
    BY <1>1, <1>2 DEF Stacked, Merging
<1>6. \A i \in 1..(n + 1) : i \in 1..(n - 1) \/ i = n \/ i = n + 1
    BY <1>1
<1>7. ASSUME NEW i \in 1..(n + 1)
      PROVE  st2[i].todo \subseteq inc[st2[i].file] /\ \A g \in Merging(st2, inc, i) : \A h \in st2[i].todo : g < h
  <2>1. CASE i \in 1..(n - 1)
    <3>1. st2[i].todo = st[i].todo /\ st2[i].file = st[i].file
        BY <1>3, <2>1
    <3>2. QED
        BY <1>3, <2>1, <3>1 DEF Stacked
  <2>2. CASE i = n
    <3>1. st2[n].todo \subseteq inc[st2[n].file]
        BY <1>1 DEF Stacked
    <3>2. ASSUME NEW g \in Merging(st2, inc, n), NEW h \in st2[n].todo PROVE g < h
      <4>1. f <= h /\ h # f /\ h \in Nat
        BY <1>2
      <4>2. g = f \/ (g < f /\ g \in Nat)
        BY <1>4, <1>5
      <4>3. QED
        BY <1>2, <4>1, <4>2
    <3>3. QED
        BY <2>2, <3>1, <3>2
  <2>3. CASE i = n + 1
    BY <2>3 DEF Merging
  <2>4. QED
    BY <1>6, <2>1, <2>2, <2>3
<1>8. ASSUME NEW i \in 1..n
      PROVE  st2[i + 1].file \in Merging(st2, inc, i) /\ \A g \in Merging(st2, inc, i) : g <= st2[i + 1].file
  <2>1. CASE i \in 1..(n - 1)
    <3>1. i + 1 \in 1..n
        BY <1>1, <2>1
    <3>2. st2[i + 1].file = st[i + 1].file
        BY <3>1
    <3>3. QED
        BY <1>3, <2>1, <3>2 DEF Stacked
  <2>2. CASE i = n
    <3>1. st2[n + 1].file = f /\ \A g \in Merging(st, inc, n) : g <= f
        BY <1>2, <1>5
    <3>2. QED
        BY <1>2, <1>4, <2>2, <3>1
  <2>3. i \in 1..(n - 1) \/ i = n
    BY <1>1
  <2>4. QED
    BY <2>1, <2>2, <2>3
<1>9. st2 # <<>> /\ st2[1].file = root
    BY <1>1 DEF Stacked
<1>10. QED
    BY <1>1, <1>7, <1>8, <1>9 DEF Stacked

\* and its ret is the only one that the new chain is part of.
LEMMA PushFact ==
    ASSUME NEW inc \in [Files -> SUBSET Files], NEW root, NEW C, IsChains(C, inc, root),
           NEW st, Stacked(st, inc, root), NEW n, n < MaxDepth, NEW f, NEW c, NextIs(st, n, f, c),
           NEW st2, Pushed(st, st2, inc, n, f)
    PROVE  /\ Met(st2, C) = Met(st, C) \cup {c} /\ c \notin Met(st, C)
           /\ Own(st2, C, n + 1) = {c}
           /\ \A i \in 1..n : Own(st2, C, i) = Own(st, C, i)
<1>1. /\ n \in Nat /\ n >= 1 /\ n \in 1..n /\ n \in 1..Len(st)
      /\ n = Len(st) /\ Len(st2) = n + 1 /\ c[n + 1] = f /\ Len(c) = n + 1 /\ f \in st[n].todo
    BY StackedFact DEF NextIs, Pushed
<1>2. /\ \A u \in C : \A i \in 1..n : Under(st2, u, i) <=> Under(st, u, i)
      /\ \A u \in C : Under(st2, u, n + 1) <=> Under(st, u, n) /\ n < Len(u) /\ u[n + 1] = f
      /\ \A u \in C : Pending(st2, u) <=> Pending(st, u) /\ u # c
    BY PushPending
<1>3. c \in C /\ Pending(st, c) /\ Under(st, c, n)
    BY NextChain
<1>4. \A u \in Met(st2, C) : u \in Met(st, C) \/ u = c
    BY <1>2 DEF Met
<1>5. c \in Met(st2, C) /\ c \notin Met(st, C) /\ \A u \in Met(st, C) : u \in Met(st2, C) /\ u \in C
    BY <1>2, <1>3 DEF Met
<1>6. Under(st2, c, n + 1)
    BY <1>1, <1>2, <1>3
<1>7. \A u \in Met(st, C) : ~Under(st2, u, n + 1)
  <2>1. SUFFICES ASSUME NEW u \in Met(st, C), Under(st2, u, n + 1) PROVE FALSE
    OBVIOUS
  <2>2. u \in C /\ ~Pending(st, u)
    BY DEF Met
  <2>3. Under(st, u, n) /\ n < Len(u) /\ u[n + 1] = f
    BY <1>2, <2>1, <2>2
  <2>4. Pending(st, u)
    BY <1>1, <2>3 DEF Pending
  <2>5. QED
    BY <2>2, <2>4
<1>8. Own(st2, C, n + 1) = {c}
  <2>1. \A u : u \in Own(st2, C, n + 1) <=> u \in Met(st2, C) /\ Under(st2, u, n + 1)
    BY <1>1 DEF Own
  <2>2. \A u : u \in Own(st2, C, n + 1) <=> u = c
    BY <1>4, <1>5, <1>6, <1>7, <2>1
  <2>3. QED
    BY <2>2, Zenon
<1>9. ASSUME NEW i \in 1..n PROVE Own(st2, C, i) = Own(st, C, i)
  <2>1. \A u : u \in Own(st2, C, i) <=> u \in Met(st2, C) /\ Under(st2, u, i) /\ ~Under(st2, u, i + 1)
    BY <1>1 DEF Own
  <2>2. CASE i = n
    <3>1. \A u : u \in Own(st, C, i) <=> u \in Met(st, C) /\ Under(st, u, i)
        BY <1>1, <2>2 DEF Own
    <3>2. \A u : u \in Own(st2, C, i) <=> u \in Own(st, C, i)
        BY <1>1, <1>2, <1>4, <1>5, <1>6, <1>7, <2>1, <2>2, <3>1
    <3>3. QED
        BY <3>2, Zenon
  <2>3. CASE i # n
    <3>1. i + 1 \in 1..n /\ i < Len(st)
        BY <1>1, <2>3
    <3>2. \A u : u \in Own(st, C, i) <=> u \in Met(st, C) /\ Under(st, u, i) /\ ~Under(st, u, i + 1)
        BY <3>1 DEF Own
    <3>3. Under(st, c, i + 1)
        BY <1>1, <1>3, <3>1 DEF Under
    <3>4. \A u : u \in Own(st2, C, i) <=> u \in Own(st, C, i)
        BY <1>2, <1>3, <1>4, <1>5, <2>1, <3>1, <3>2, <3>3
    <3>5. QED
        BY <3>4, Zenon
  <2>4. QED
    BY <2>2, <2>3
<1>10. Met(st2, C) = Met(st, C) \cup {c}
    BY <1>4, <1>5
<1>11. QED
    BY <1>5, <1>8, <1>9, <1>10

\* st2 is st without the n-th activation, which has no includes left.
Popped(st, st2, n) ==
    /\ n = Len(st) /\ n > 1 /\ st[n].todo = {}
    /\ st2 \in Seq(Frames) /\ Len(st2) = n - 1
    /\ \A i \in 1..(n - 1) : st2[i].file = st[i].file /\ st2[i].todo = st[i].todo

\* st has the activation of the root alone.
Single(st, inc, root) ==
    st \in Seq(Frames) /\ Len(st) = 1 /\ st[1].file = root /\ st[1].todo = inc[root]

\* An activation without includes left returns to its caller: nothing is met by
\* it, the caller has what both had, and what the caller had was met before.
LEMMA PopFact ==
    ASSUME NEW inc \in [Files -> SUBSET Files], NEW root, NEW C, IsChains(C, inc, root),
           NEW st, Stacked(st, inc, root), NEW n, NEW st2, Popped(st, st2, n)
    PROVE  /\ Stacked(st2, inc, root)
           /\ Met(st2, C) = Met(st, C)
           /\ \A i \in 1..(n - 2) : Own(st2, C, i) = Own(st, C, i)
           /\ Own(st2, C, n - 1) = Own(st, C, n - 1) \cup Own(st, C, n)
           /\ \A u \in Own(st, C, n - 1) : \A v \in Own(st, C, n) : Before(u, v)
<1> USE DEF Popped
<1>1. n \in Nat /\ n - 1 \in 1..Len(st) /\ n \in 1..Len(st) /\ n - 1 \in 1..(n - 1)
    BY StackedFact
<1>2. \A u \in C : u \in Seq(Files) /\ Len(u) \in Nat
    BY DEF IsChains
<1>3. ASSUME NEW u \in C, NEW i \in 1..(n - 1) PROVE Under(st2, u, i) <=> Under(st, u, i)
    BY <1>1 DEF Under
<1>4. ASSUME NEW u \in C PROVE Pending(st2, u) <=> Pending(st, u)
  <2>1. ASSUME Pending(st2, u) PROVE Pending(st, u)
    <3>1. PICK i \in 1..(n - 1) : Under(st2, u, i) /\ i < Len(u) /\ u[i + 1] \in st2[i].todo
        BY <2>1 DEF Pending
    <3>2. i \in 1..Len(st) /\ Under(st, u, i) /\ u[i + 1] \in st[i].todo
        BY <1>1, <1>3, <3>1
    <3>3. QED
        BY <3>1, <3>2 DEF Pending
  <2>2. ASSUME Pending(st, u) PROVE Pending(st2, u)
    <3>1. PICK i \in 1..n : Under(st, u, i) /\ i < Len(u) /\ u[i + 1] \in st[i].todo
        BY <2>2 DEF Pending
    <3>2. i \in 1..(n - 1)
        BY <1>1, <3>1
    <3>3. i \in 1..Len(st2) /\ Under(st2, u, i) /\ u[i + 1] \in st2[i].todo
        BY <1>3, <3>1, <3>2
    <3>4. QED
        BY <3>1, <3>3 DEF Pending
  <2>3. QED
    BY <2>1, <2>2
<1>5. Met(st2, C) = Met(st, C)
    BY <1>4 DEF Met
<1>6. \A u \in Met(st, C) : u \in C /\ ~Pending(st, u)
    BY DEF Met
<1>7. ASSUME NEW i \in 1..(n - 2) PROVE Own(st2, C, i) = Own(st, C, i)
  <2>1. i \in 1..(n - 1) /\ i + 1 \in 1..(n - 1) /\ i < Len(st) /\ i < Len(st2)
    BY <1>1
  <2>2. \A u : u \in Own(st2, C, i) <=> u \in Met(st2, C) /\ Under(st2, u, i) /\ ~Under(st2, u, i + 1)
    BY <2>1 DEF Own
  <2>3. \A u : u \in Own(st, C, i) <=> u \in Met(st, C) /\ Under(st, u, i) /\ ~Under(st, u, i + 1)
    BY <2>1 DEF Own
  <2>4. \A u : u \in Own(st2, C, i) <=> u \in Own(st, C, i)
    BY <1>3, <1>5, <1>6, <2>1, <2>2, <2>3
  <2>5. QED
    BY <2>4, Zenon
<1>8. \A u : u \in Own(st, C, n) <=> u \in Met(st, C) /\ Under(st, u, n)
    BY <1>1 DEF Own
<1>9. \A u : u \in Own(st, C, n - 1) <=> u \in Met(st, C) /\ Under(st, u, n - 1) /\ ~Under(st, u, n)
    BY <1>1 DEF Own
<1>10. \A u \in C : Under(st, u, n) => Under(st, u, n - 1)
    BY <1>1, <1>2 DEF Under
<1>11. Own(st2, C, n - 1) = Own(st, C, n - 1) \cup Own(st, C, n)
  <2>1. \A u : u \in Own(st2, C, n - 1) <=> u \in Met(st2, C) /\ Under(st2, u, n - 1)
    BY <1>1 DEF Own
  <2>2. \A u \in Met(st, C) : Under(st2, u, n - 1) <=> Under(st, u, n - 1)
    BY <1>1, <1>3, <1>6
  <2>3. \A u : u \in Own(st2, C, n - 1) <=> u \in Own(st, C, n - 1) \/ u \in Own(st, C, n)
    BY <1>5, <1>6, <1>8, <1>9, <1>10, <2>1, <2>2
  <2>4. QED
    BY <2>3
<1>12. ASSUME NEW u \in Own(st, C, n - 1), NEW v \in Own(st, C, n) PROVE Before(u, v)
  <2>1. /\ u \in C /\ ~Pending(st, u) /\ Under(st, u, n - 1) /\ ~Under(st, u, n)
        /\ v \in C /\ Under(st, v, n)
    BY <1>6, <1>8, <1>9
  <2>2. /\ u \in Seq(Files) /\ v \in Seq(Files) /\ Len(u) >= n - 1 /\ Len(v) >= n
        /\ Len(u) \in Nat /\ Len(v) \in Nat
        /\ \A j \in 1..(n - 1) : v[j] = u[j]
    BY <1>1, <1>2, <2>1 DEF Under
  <2>3. CASE Len(u) = n - 1
    BY <1>1, <2>2, <2>3, BeforePrefix
  <2>4. CASE Len(u) # n - 1
    <3>1. n \in 1..Len(u) /\ n <= Len(v) /\ n - 1 < Len(u) /\ n - 1 \in 1..(Len(u) - 1)
        BY <1>1, <2>2, <2>4
    <3>2. u[n] # st[n].file
      <4>1. SUFFICES ASSUME u[n] = st[n].file PROVE FALSE
        OBVIOUS
      <4>2. \A j \in 1..n : j \in 1..(n - 1) \/ j = n
        BY <1>1
      <4>3. Under(st, u, n)
        BY <2>1, <3>1, <4>1, <4>2 DEF Under
      <4>4. QED
        BY <2>1, <4>3
    <3>3. u[n] \in inc[u[n - 1]]
      <4>1. u[(n - 1) + 1] \in inc[u[n - 1]]
        BY <2>1, <3>1 DEF IsChains
      <4>2. QED
        BY <1>1, <4>1
    <3>4. u[n - 1] = st[n - 1].file
        BY <1>1, <2>1 DEF Under
    <3>5. u[n] \notin st[n - 1].todo
      <4>1. u[(n - 1) + 1] \notin st[n - 1].todo
        BY <1>1, <2>1, <3>1 DEF Pending
      <4>2. QED
        BY <1>1, <4>1
    <3>6. u[n] \in Merging(st, inc, n - 1)
        BY <3>3, <3>4, <3>5 DEF Merging
    <3>7. u[n] <= st[(n - 1) + 1].file
        BY <1>1, <3>6 DEF Stacked
    <3>8. v[n] = st[n].file
        BY <1>1, <2>1 DEF Under
    <3>9. u[n] \in Nat /\ st[n].file \in Nat
      <4>1. u[n] \in Files /\ st[n].file \in Files
        BY <1>1, <2>2, <3>1, StackedFact
      <4>2. QED
        BY <4>1, LoaderAssumption
    <3>10. u[n] < v[n]
        BY <1>1, <3>2, <3>7, <3>8, <3>9
    <3>11. QED
        BY <2>2, <3>1, <3>10, BeforeBranch
  <2>5. QED
    BY <2>3, <2>4
<1>13. Stacked(st2, inc, root)
  <2>1. \A i \in 1..(n - 1) : i \in 1..Len(st) /\ Merging(st2, inc, i) = Merging(st, inc, i)
    BY <1>1 DEF Merging
  <2>2. st2 # <<>> /\ st2[1].file = root
    BY <1>1 DEF Stacked
  <2>3. \A i \in 1..(n - 1) : st2[i].todo \subseteq inc[st2[i].file]
                              /\ \A g \in Merging(st2, inc, i) : \A h \in st2[i].todo : g < h
    BY <2>1 DEF Stacked
  <2>4. ASSUME NEW i \in 1..((n - 1) - 1)
        PROVE  st2[i + 1].file \in Merging(st2, inc, i) /\ \A g \in Merging(st2, inc, i) : g <= st2[i + 1].file
    <3>1. i \in 1..(n - 1) /\ i + 1 \in 1..(n - 1)
        BY <1>1
    <3>2. st2[i + 1].file = st[i + 1].file
        BY <3>1
    <3>3. QED
        BY <2>1, <3>1, <3>2 DEF Stacked
  <2>5. QED
    BY <2>2, <2>3, <2>4 DEF Stacked
<1>14. QED
    BY <1>5, <1>7, <1>11, <1>12, <1>13

\* The root is met first.
LEMMA RootChain ==
    ASSUME NEW inc \in [Files -> SUBSET Files], NEW root \in Files, NEW C, IsChains(C, inc, root)
    PROVE  <<root>> \in C /\ \A u \in C : u = <<root>> \/ (Len(u) > 1 /\ Before(<<root>>, u))
<1> DEFINE r == <<root>>
<1>1. r \in Seq(Files) /\ Len(r) = 1 /\ r[1] = root
    OBVIOUS
<1>2. \A i \in 1..(Len(r) - 1) : r[i + 1] \in inc[r[i]]
    OBVIOUS
<1> HIDE DEF r
<1>3. MaxDepth \in Nat /\ 1 <= MaxDepth
    BY LoaderAssumption
<1>4. r \in C
  <2>1. 1 <= Len(r) /\ Len(r) <= MaxDepth
    BY <1>1, <1>3
  <2>2. QED
    BY <1>1, <1>2, <2>1 DEF IsChains
<1>5. ASSUME NEW u \in C PROVE u = r \/ (Len(u) > 1 /\ Before(r, u))
  <2>1. u \in Seq(Files) /\ Len(u) \in Nat /\ Len(u) >= 1 /\ u[1] = root
    BY DEF IsChains
  <2>2. CASE Len(u) = 1
    BY <1>1, <2>1, <2>2
  <2>3. CASE Len(u) > 1
    <3>1. Len(r) < Len(u) /\ \A j \in 1..Len(r) : u[j] = r[j]
        BY <1>1, <2>1, <2>3
    <3>2. QED
        BY <1>1, <2>1, <2>3, <3>1, BeforePrefix
  <2>4. QED
    BY <2>1, <2>2, <2>3
<1>6. QED
    BY <1>4, <1>5 DEF r

\* A sequence with an element is not empty.
LEMMA SingleFact == ASSUME NEW S, NEW s \in Seq(S), Len(s) = 1 PROVE s # <<>>
OBVIOUS

\* Nothing else is met while its activation is the only one.
LEMMA RootFact ==
    ASSUME NEW inc \in [Files -> SUBSET Files], NEW root \in Files, NEW C, IsChains(C, inc, root),
           NEW st, Single(st, inc, root)
    PROVE  /\ Stacked(st, inc, root)
           /\ Met(st, C) = {<<root>>} /\ Own(st, C, 1) = {<<root>>}
<1> USE DEF Single
<1>1. Stacked(st, inc, root)
  <2> DEFINE n == Len(st)
  <2>0. n = 1 /\ st # <<>>
    BY SingleFact
  <2> HIDE DEF n
  <2>1. (\A i \in 1..n : i = 1) /\ (\A i \in 1..(n - 1) : FALSE)
    BY <2>0
  <2>2. Merging(st, inc, 1) = {} /\ st[1].todo \subseteq inc[st[1].file]
    BY DEF Merging
  <2>3. QED
    BY <2>0, <2>1, <2>2 DEF Stacked, n
<1>2. \A u \in C : Under(st, u, 1)
  <2>1. \A u \in C : u \in Seq(Files) /\ Len(u) >= 1 /\ u[1] = root
    BY DEF IsChains
  <2>2. \A j \in 1..1 : j = 1
    OBVIOUS
  <2>3. QED
    BY <2>1, <2>2 DEF Under
<1>3. <<root>> \in C /\ \A u \in C : u = <<root>> \/ (Len(u) > 1 /\ Before(<<root>>, u))
    BY RootChain
<1>4. Len(<<root>>) = 1
    OBVIOUS
<1>5. ASSUME NEW u \in C PROVE Pending(st, u) <=> u # <<root>>
  <2>1. CASE u = <<root>>
    BY <1>4, <2>1 DEF Pending
  <2>2. CASE u # <<root>>
    <3>1. Len(u) > 1 /\ Len(u) \in Nat /\ u[1] = root
        BY <1>3, <2>2 DEF IsChains
    <3>2. 1 \in 1..(Len(u) - 1) /\ 1 < Len(u)
        BY <3>1
    <3>3. u[1 + 1] \in inc[u[1]]
        BY <3>2 DEF IsChains
    <3>4. Under(st, u, 1) /\ 1 \in 1..Len(st) /\ u[1 + 1] \in st[1].todo
        BY <1>2, <3>1, <3>3
    <3>5. QED
        BY <2>2, <3>2, <3>4 DEF Pending
  <2>3. QED
    BY <2>1, <2>2
<1>6. \A u : u \in Met(st, C) <=> u = <<root>>
    BY <1>3, <1>5 DEF Met
<1>7. \A u : u \in Own(st, C, 1) <=> u = <<root>>
    BY <1>2, <1>3, <1>6 DEF Own
<1>8. QED
    BY <1>1, <1>6, <1>7, Zenon

\* When the root has no includes left, everything is met and it has it all.
LEMMA DoneFact ==
    ASSUME NEW inc \in [Files -> SUBSET Files], NEW root, NEW C, IsChains(C, inc, root),
           NEW st, Stacked(st, inc, root), Len(st) = 1, st[1].todo = {}
    PROVE  Met(st, C) = C /\ Own(st, C, 1) = C
<1>1. \A u \in C : ~Pending(st, u)
    BY DEF Pending
<1>2. \A u \in C : Under(st, u, 1)
    BY DEF IsChains, Stacked, Under
<1>3. \A u : u \in Met(st, C) <=> u \in C
    BY <1>1 DEF Met
<1>4. \A u : u \in Own(st, C, 1) <=> u \in C
    BY <1>2, <1>3 DEF Own
<1>5. QED
    BY <1>3, <1>4, Zenon

\* m holds of every key the value of the last chain of U whose file has it in G.
Given(k, m, U, G) ==
    \E s \in U : /\ k \in DOMAIN G[Last(s)] /\ m[k] = G[Last(s)][k]
                 /\ \A u \in U : k \in DOMAIN G[Last(u)] => u = s \/ Before(u, s)

Wins(m, U, G) ==
    /\ \A k : k \in DOMAIN m <=> \E u \in U : k \in DOMAIN G[Last(u)]
    /\ \A k \in DOMAIN m : Given(k, m, U, G)

\* One chain's own.
LEMMA WinsOne ==
    ASSUME NEW c, NEW G, NEW m, m = G[Last(c)]
    PROVE  Wins(m, {c}, G)
BY DEF Wins, Given

\* mergeSyver keeps the order, when what is merged was met after all of the rest.
LEMMA WinsMerge ==
    ASSUME NEW m1, NEW U1, NEW m2, NEW U2, NEW G, Wins(m1, U1, G), Wins(m2, U2, G),
           \A u \in U1 : \A v \in U2 : Before(u, v)
    PROVE  Wins(Override(m1, m2), U1 \cup U2, G)
<1> DEFINE m == Override(m1, m2)
<1>1. /\ DOMAIN m = DOMAIN m1 \cup DOMAIN m2
      /\ \A k \in DOMAIN m : m[k] = IF k \in DOMAIN m2 THEN m2[k] ELSE m1[k]
    BY DEF Override
<1> HIDE DEF m
<1>2. /\ \A k : k \in DOMAIN m1 <=> \E u \in U1 : k \in DOMAIN G[Last(u)]
      /\ \A k : k \in DOMAIN m2 <=> \E u \in U2 : k \in DOMAIN G[Last(u)]
      /\ \A k \in DOMAIN m1 : Given(k, m1, U1, G)
      /\ \A k \in DOMAIN m2 : Given(k, m2, U2, G)
    BY DEF Wins
<1>3. \A k : k \in DOMAIN m <=> \E u \in U1 \cup U2 : k \in DOMAIN G[Last(u)]
    BY <1>1, <1>2
<1>4. ASSUME NEW k \in DOMAIN m PROVE Given(k, m, U1 \cup U2, G)
  <2>1. CASE k \in DOMAIN m2
    <3>1. PICK s \in U2 : /\ k \in DOMAIN G[Last(s)] /\ m2[k] = G[Last(s)][k]
                          /\ \A u \in U2 : k \in DOMAIN G[Last(u)] => u = s \/ Before(u, s)
        BY <1>2, <2>1 DEF Given
    <3>2. QED
        BY <1>1, <2>1, <3>1 DEF Given
  <2>2. CASE k \notin DOMAIN m2
    <3>1. k \in DOMAIN m1 /\ m[k] = m1[k]
        BY <1>1, <2>2
    <3>2. PICK s \in U1 : /\ k \in DOMAIN G[Last(s)] /\ m1[k] = G[Last(s)][k]
                          /\ \A u \in U1 : k \in DOMAIN G[Last(u)] => u = s \/ Before(u, s)
        BY <1>2, <3>1 DEF Given
    <3>3. \A u \in U2 : k \notin DOMAIN G[Last(u)]
        BY <1>2, <2>2
    <3>4. QED
        BY <3>1, <3>2, <3>3 DEF Given
  <2>3. QED
    BY <2>1, <2>2
<1>5. Wins(m, U1 \cup U2, G)
    BY <1>3, <1>4 DEF Wins
<1>6. QED
    BY <1>5 DEF m

-----------------------------------------------------------------------------
(* What a load has merged *)

AllChains == Chains(Root, template)

\* While a load merges: every activation has in its ret what the chains it owns
\* give, and no chain that was met has a fault.
Meeting(st, fmt) ==
    /\ Stacked(st, Inc(template), Root)
    /\ fmt = disk[Root].fmt
    /\ \A i \in 1..Len(st) : /\ Wins(st[i].ret.res, Own(st, AllChains, i), ResOf(template))
                             /\ Wins(st[i].ret.section, Own(st, AllChains, i), SectionOf)
    /\ \A u \in Met(st, AllChains) : disk[Last(u)] # Absent /\ (pass = "load" => Fault(u, template) = "none")

MergeInv == lpc = "merge" /\ stack # <<>> => Meeting(stack, outStoreFormat)

\* The includes of a file are files.
LEMMA IncFact ==
    ASSUME LoaderTypeOK
    PROVE  Root \in Files /\ Inc(template) \in [Files -> SUBSET Files] /\ IsChains(AllChains, Inc(template), Root)
<1>1. Root \in Files
    BY LoaderAssumption DEF Root, Spec1, DiscoverSpec
<1>2. ASSUME NEW f \in Files PROVE Includes(f, template) \in SUBSET Files
  <2>1. disk[f] \in Documents \cup {Absent}
    BY DEF LoaderTypeOK
  <2>2. QED
    BY <2>1 DEF Includes, Documents
<1>3. Inc(template) \in [Files -> SUBSET Files]
    BY <1>2 DEF Inc
<1>4. IsChains(AllChains, Inc(template), Root)
    BY <1>1, ChainsFact DEF AllChains
<1>5. QED
    BY <1>1, <1>3, <1>4

\* The activation of a document holds what it gives, and is to merge what it includes.
LEMMA FrameGives ==
    ASSUME NEW f \in Files, disk[f] # Absent
    PROVE  /\ Frame(f, disk[f]).file = f /\ Frame(f, disk[f]).todo = Inc(template)[f]
           /\ Frame(f, disk[f]).ret.res = ResOf(template)[f] /\ Frame(f, disk[f]).ret.section = SectionOf[f]
BY DEF Frame, Config, Inc, Includes, ResOf, SectionOf

\* st2 is st with f, which can be used, entered as its next include.
Pushing(st, st2, n, f, c) ==
    /\ n < MaxDepth /\ NextIs(st, n, f, c) /\ Pushed(st, st2, Inc(template), n, f)
    /\ disk[f] # Absent /\ (pass = "load" => Fault(c, template) = "none")
    /\ \A i \in 1..n : st2[i].ret = st[i].ret
    /\ st2[n + 1].ret.res = ResOf(template)[f] /\ st2[n + 1].ret.section = SectionOf[f]

\* An include is entered.
LEMMA MeetingPush ==
    ASSUME LoaderTypeOK, NEW st, NEW fmt, Meeting(st, fmt),
           NEW n, NEW f \in Files, NEW c, NEW st2, Pushing(st, st2, n, f, c)
    PROVE  /\ Meeting(st2, fmt) /\ c \in Seq(Files) /\ Last(c) = f
           /\ Met(st2, AllChains) = Met(st, AllChains) \cup {c} /\ c \notin Met(st, AllChains)
<1> DEFINE C == AllChains
           inc == Inc(template)
<1>1. inc \in [Files -> SUBSET Files] /\ IsChains(C, inc, Root) /\ Stacked(st, inc, Root)
    BY IncFact DEF Meeting
<1> HIDE DEF C, inc
<1>2. n < MaxDepth /\ NextIs(st, n, f, c) /\ Pushed(st, st2, inc, n, f)
    BY DEF inc, Pushing
<1>3. Stacked(st2, inc, Root)
    BY <1>1, <1>2, PushStacked
<1>4. /\ Met(st2, C) = Met(st, C) \cup {c} /\ c \notin Met(st, C)
      /\ Own(st2, C, n + 1) = {c}
      /\ \A i \in 1..n : Own(st2, C, i) = Own(st, C, i)
    BY <1>1, <1>2, PushFact
<1>5. /\ n \in Nat /\ Len(st) = n /\ Len(st2) = n + 1 /\ c \in Seq(Files) /\ Last(c) = f
    BY <1>1, <1>2, StackedFact DEF NextIs, Pushed, Last
<1>6. ASSUME NEW i \in 1..Len(st2)
      PROVE  Wins(st2[i].ret.res, Own(st2, C, i), ResOf(template)) /\ Wins(st2[i].ret.section, Own(st2, C, i), SectionOf)
  <2>1. CASE i \in 1..n
    BY <1>4, <1>5, <2>1 DEF Meeting, C, Pushing
  <2>2. CASE i = n + 1
    BY <1>4, <1>5, <2>2, WinsOne DEF Pushing
  <2>3. QED
    BY <1>5, <2>1, <2>2
<1>7. ASSUME NEW u \in Met(st2, C)
      PROVE  disk[Last(u)] # Absent /\ (pass = "load" => Fault(u, template) = "none")
  <2>1. CASE u \in Met(st, C)
    BY <2>1 DEF Meeting, C
  <2>2. CASE u = c
    BY <1>5, <2>2 DEF Pushing
  <2>3. QED
    BY <1>4, <2>1, <2>2
<1>8. fmt = disk[Root].fmt
    BY DEF Meeting
<1>9. Meeting(st2, fmt)
    BY <1>3, <1>6, <1>7, <1>8 DEF Meeting, C, inc
<1>10. QED
    BY <1>4, <1>5, <1>9 DEF C

\* mergeSyver, into the caller's.
LEMMA MeetingPop ==
    ASSUME LoaderTypeOK, NEW st, NEW fmt, Meeting(st, fmt),
           NEW n, NEW st2, Popped(st, st2, n),
           \A i \in 1..(n - 2) : st2[i].ret = st[i].ret,
           st2[n - 1].ret = mergeSyver(st[n - 1].ret, st[n].ret)
    PROVE  Meeting(st2, fmt) /\ Met(st2, AllChains) = Met(st, AllChains)
<1> DEFINE C == AllChains
           inc == Inc(template)
<1>1. inc \in [Files -> SUBSET Files] /\ IsChains(C, inc, Root) /\ Stacked(st, inc, Root)
    BY IncFact DEF Meeting
<1> HIDE DEF C, inc
<1>2. /\ Stacked(st2, inc, Root)
      /\ Met(st2, C) = Met(st, C)
      /\ \A i \in 1..(n - 2) : Own(st2, C, i) = Own(st, C, i)
      /\ Own(st2, C, n - 1) = Own(st, C, n - 1) \cup Own(st, C, n)
      /\ \A u \in Own(st, C, n - 1) : \A v \in Own(st, C, n) : Before(u, v)
    BY <1>1, PopFact
<1>3. n \in Nat /\ n \in 1..Len(st) /\ n - 1 \in 1..Len(st) /\ Len(st2) = n - 1
    BY <1>1, StackedFact DEF Popped
<1>4. \A i \in 1..Len(st) : /\ Wins(st[i].ret.res, Own(st, C, i), ResOf(template))
                            /\ Wins(st[i].ret.section, Own(st, C, i), SectionOf)
    BY DEF Meeting, C
<1>5. /\ st2[n - 1].ret.res = Override(st[n - 1].ret.res, st[n].ret.res)
      /\ st2[n - 1].ret.section = Override(st[n - 1].ret.section, st[n].ret.section)
    BY DEF mergeSyver, Config
<1>6. Wins(st2[n - 1].ret.res, Own(st2, C, n - 1), ResOf(template))
  <2>1. Wins(st[n - 1].ret.res, Own(st, C, n - 1), ResOf(template)) /\ Wins(st[n].ret.res, Own(st, C, n), ResOf(template))
    BY <1>3, <1>4
  <2>2. Wins(Override(st[n - 1].ret.res, st[n].ret.res), Own(st, C, n - 1) \cup Own(st, C, n), ResOf(template))
    BY <1>2, <2>1, WinsMerge
  <2>3. QED
    BY <1>2, <1>5, <2>2
<1>7. Wins(st2[n - 1].ret.section, Own(st2, C, n - 1), SectionOf)
  <2>1. Wins(st[n - 1].ret.section, Own(st, C, n - 1), SectionOf) /\ Wins(st[n].ret.section, Own(st, C, n), SectionOf)
    BY <1>3, <1>4
  <2>2. Wins(Override(st[n - 1].ret.section, st[n].ret.section), Own(st, C, n - 1) \cup Own(st, C, n), SectionOf)
    BY <1>2, <2>1, WinsMerge
  <2>3. QED
    BY <1>2, <1>5, <2>2
<1>8. ASSUME NEW i \in 1..Len(st2)
      PROVE  Wins(st2[i].ret.res, Own(st2, C, i), ResOf(template)) /\ Wins(st2[i].ret.section, Own(st2, C, i), SectionOf)
  <2>1. i \in 1..(n - 2) \/ i = n - 1
    BY <1>3
  <2>2. CASE i \in 1..(n - 2)
    <3>1. i \in 1..Len(st)
        BY <1>3, <2>2
    <3>2. QED
        BY <1>2, <1>4, <2>2, <3>1
  <2>3. QED
    BY <1>6, <1>7, <2>1, <2>2
<1>9. \A u \in Met(st2, C) : disk[Last(u)] # Absent /\ (pass = "load" => Fault(u, template) = "none")
    BY <1>2 DEF Meeting, C
<1>10. fmt = disk[Root].fmt
    BY DEF Meeting
<1>11. QED
    BY <1>2, <1>8, <1>9, <1>10 DEF Meeting, C, inc

\* The root, entered.
LEMMA MeetingRoot ==
    ASSUME LoaderTypeOK, NEW fmt, fmt = disk[Root].fmt, disk[Root] # Absent,
           pass = "load" => Fault(<<Root>>, template) = "none",
           NEW st, st = <<Frame(Root, disk[Root])>>
    PROVE  Meeting(st, fmt) /\ Met(st, AllChains) = {<<Root>>}
<1> DEFINE C == AllChains
           inc == Inc(template)
           root == Root
<1>1. root \in Files /\ inc \in [Files -> SUBSET Files] /\ IsChains(C, inc, root)
    BY IncFact
<1>2. disk[root] \in Documents
    BY <1>1 DEF LoaderTypeOK
<1>3. /\ st \in Seq(Frames) /\ Len(st) = 1 /\ st[1] = Frame(root, disk[root])
    BY <1>1, <1>2, FrameFact
<1>4. /\ st[1].file = root /\ st[1].todo = inc[root]
      /\ st[1].ret.res = ResOf(template)[root] /\ st[1].ret.section = SectionOf[root]
    BY <1>1, <1>3, FrameGives
<1>11. Single(st, inc, root)
    BY <1>3, <1>4 DEF Single
<1> HIDE DEF C, inc, root
<1>5. /\ Stacked(st, inc, root)
      /\ Met(st, C) = {<<root>>} /\ Own(st, C, 1) = {<<root>>}
    BY <1>1, <1>11, RootFact
<1>6. Last(<<root>>) = root
    BY DEF Last
<1>7. /\ Wins(st[1].ret.res, Own(st, C, 1), ResOf(template))
      /\ Wins(st[1].ret.section, Own(st, C, 1), SectionOf)
    BY <1>4, <1>5, <1>6, WinsOne
<1>8. \A i \in 1..Len(st) : i = 1
    BY <1>3
<1>9. \A u \in Met(st, C) : disk[Last(u)] # Absent /\ (pass = "load" => Fault(u, template) = "none")
    BY <1>5, <1>6 DEF root
<1>10. QED
    BY <1>5, <1>7, <1>8, <1>9 DEF Meeting, C, inc, root

-----------------------------------------------------------------------------
(* The reference *)

\* There is one first chain and one last.
LEMMA FirstChain ==
    ASSUME NEW B \in SUBSET Seq(Files), NEW c \in B, \A u \in B : u = c \/ Before(c, u)
    PROVE  (CHOOSE s \in B : \A u \in B : u = s \/ Before(s, u)) = c
<1> DEFINE x == CHOOSE s \in B : \A u \in B : u = s \/ Before(s, u)
<1>1. x \in B /\ \A u \in B : u = x \/ Before(x, u)
    OBVIOUS
<1> HIDE DEF x
<1>2. x \in Seq(Files) /\ c \in Seq(Files)
    BY <1>1
<1>3. x = c
    BY <1>1, <1>2, BeforeStrict
<1>4. QED
    BY <1>3 DEF x

\* The last one is the one all others are before.
LEMMA LastChain ==
    ASSUME NEW B \in SUBSET Seq(Files), NEW c \in B, \A u \in B : u = c \/ Before(u, c)
    PROVE  LastOf(B) = c
<1> DEFINE x == LastOf(B)
<1>1. x \in B /\ \A u \in B : u = x \/ Before(u, x)
    BY DEF LastOf
<1> HIDE DEF x
<1>2. x \in Seq(Files) /\ c \in Seq(Files)
    BY <1>1
<1>3. x = c
    BY <1>1, <1>2, BeforeStrict
<1>4. QED
    BY <1>3 DEF x

\* A ret that holds every key's last value is the reference's.
LEMMA WinnerFact ==
    ASSUME NEW C \in SUBSET Seq(Files), NEW G, NEW m, Wins(m, C, G), m = [k \in DOMAIN m |-> m[k]]
    PROVE  m = Winner(C, G)
<1>1. DOMAIN m = UNION {DOMAIN G[Last(s)] : s \in C}
    BY DEF Wins
<1>2. ASSUME NEW k \in DOMAIN m PROVE m[k] = G[Last(LastOf(Giving(C, G, k)))][k]
  <2>1. PICK s \in C : /\ k \in DOMAIN G[Last(s)] /\ m[k] = G[Last(s)][k]
                       /\ \A u \in C : k \in DOMAIN G[Last(u)] => u = s \/ Before(u, s)
    BY DEF Wins, Given
  <2> DEFINE B == Giving(C, G, k)
  <2>2. B \in SUBSET Seq(Files) /\ s \in B /\ \A u \in B : u = s \/ Before(u, s)
    BY <2>1 DEF Giving
  <2> HIDE DEF B
  <2>3. LastOf(B) = s
    BY <2>2, LastChain
  <2>4. QED
    BY <2>1, <2>3 DEF B
<1>3. QED
    BY <1>1, <1>2 DEF Winner

\* The error of a load is that of the first chain with a fault.
LEMMA ReferenceBad ==
    ASSUME opt.vars # BadVars, NEW t, NEW c \in Chains(Spec1, t), Fault(c, t) # "none",
           \A u \in Chains(Spec1, t) : Fault(u, t) = "none" \/ u = c \/ Before(c, u)
    PROVE  Reference(t) = Err(Fault(c, t))
<1> DEFINE bad == {s \in Chains(Spec1, t) : Fault(s, t) # "none"}
<1>1. Spec1 \in Files
    BY LoaderAssumption DEF Spec1
<1>2. Chains(Spec1, t) \subseteq Seq(Files)
    BY <1>1, ChainsFact DEF IsChains
<1>3. bad \in SUBSET Seq(Files) /\ c \in bad /\ \A u \in bad : u = c \/ Before(c, u)
    BY <1>2
<1>4. Reference(t) = Err(Fault(CHOOSE s \in bad : \A u \in bad : u = s \/ Before(s, u), t))
    BY <1>3 DEF Reference
<1> HIDE DEF bad
<1>5. (CHOOSE s \in bad : \A u \in bad : u = s \/ Before(s, u)) = c
    BY <1>3, FirstChain
<1>6. QED
    BY <1>4, <1>5

\* Without one it is what the chains give.
LEMMA ReferenceGood ==
    ASSUME LoaderTypeOK, opt.vars # BadVars, NEW t, NEW cfg \in Configs,
           \A u \in Chains(Spec1, t) : Fault(u, t) = "none",
           Wins(cfg.res, Chains(Spec1, t), ResOf(t)), Wins(cfg.section, Chains(Spec1, t), SectionOf)
    PROVE  Reference(t) = IF cfg = NoConfig /\ opt.mode # "render" THEN Err("notests") ELSE Ok(cfg)
<1> DEFINE C == Chains(Spec1, t)
<1>1. C \in SUBSET Seq(Files)
  <2>1. Spec1 \in Files
    BY LoaderAssumption DEF Spec1
  <2>2. QED
    BY <2>1, ChainsFact DEF IsChains
<1>2. /\ cfg.res = [k \in DOMAIN cfg.res |-> cfg.res[k]]
      /\ cfg.section = [k \in DOMAIN cfg.section |-> cfg.section[k]]
      /\ cfg = Config(cfg.res, cfg.section)
    BY DEF Configs, Sections, Partial, Config
<1>3. {s \in C : Fault(s, t) # "none"} = {}
    OBVIOUS
<1>4. Reference(t) = LET c == Config(Winner(C, ResOf(t)), Winner(C, SectionOf))
                     IN  IF c = NoConfig /\ opt.mode # "render" THEN Err("notests") ELSE Ok(c)
    BY <1>3 DEF Reference
<1> HIDE DEF C
<1>5. Wins(cfg.res, C, ResOf(t)) /\ Wins(cfg.section, C, SectionOf)
    BY DEF C
<1>6. cfg.res = Winner(C, ResOf(t)) /\ cfg.section = Winner(C, SectionOf)
    BY <1>1, <1>2, <1>5, WinnerFact
<1>7. QED
    BY <1>2, <1>4, <1>6

-----------------------------------------------------------------------------
(* One step of a load *)

\* The chains met so far.
Reached == IF stack = <<>> THEN {} ELSE Met(stack, AllChains)

\* st2 is st with what the file of c gives on top.
Grown(st, st2, c) ==
    /\ Len(st2) = Len(st) + 1 /\ \A i \in 1..Len(st) : st2[i].ret = st[i].ret
    /\ st2[Len(st) + 1].ret.res = ResOf(template)[Last(c)] /\ st2[Len(st) + 1].ret.section = SectionOf[Last(c)]

\* st2 is st with the n-th ret merged into the one below.
Shrunk(st, st2, n) ==
    /\ n = Len(st) /\ n > 1 /\ Len(st2) = n - 1 /\ \A i \in 1..(n - 2) : st2[i].ret = st[i].ret
    /\ st2[n - 1].ret = mergeSyver(st[n - 1].ret, st[n].ret)

\* A step of a load enters the file of the next chain,
Entered(c) ==
    /\ lpc' = "merge" /\ stack' # <<>> /\ Meeting(stack', outStoreFormat')
    /\ c \notin Reached /\ Met(stack', AllChains) = Reached \cup {c}
    /\ c \in Seq(Files) /\ Last(c) \in Files /\ disk[Last(c)] # Absent /\ disk[c[1]] # Absent
    /\ warned' = Warnings(Last(c), disk[Last(c)], disk[c[1]].fmt, TRUE)
    /\ dups' = dups /\ Grown(stack, stack', c)

\* fails with the fault of that chain,
Failed ==
    /\ lpc' = "return" /\ answer'.err # "none" /\ dups' = dups
    /\ pass = "load" => answer' = Reference(template)
    /\ quietDecode => warned' = warned

\* returns from an include,
Returned ==
    /\ lpc' = "merge" /\ stack' # <<>> /\ Meeting(stack', outStoreFormat')
    /\ Met(stack', AllChains) = Reached /\ warned' = warned
    /\ Shrunk(stack, stack', Len(stack)) /\ dups' = mergeType(stack[Len(stack) - 1].ret, stack[Len(stack)].ret)

\* or from the load.
LoadEnded ==
    /\ lpc' = "return" /\ Reached = AllChains /\ warned' = warned /\ dups' = dups
    /\ Len(stack) = 1
    /\ Wins(stack[1].ret.res, AllChains, ResOf(template)) /\ Wins(stack[1].ret.section, AllChains, SectionOf)
    /\ pass = "load" => answer' = Reference(template)

\* What is wrong with an included file.
LEMMA FaultNext ==
    ASSUME NEW c, NEW t, Len(c) # 1
    PROVE  /\ disk[Last(c)] = Absent => Fault(c, t) = "nomatch"
           /\ disk[Last(c)] # Absent =>
                Fault(c, t) = IF Unreadable(disk[Last(c)], disk[c[1]].fmt, t) # "none"
                              THEN Unreadable(disk[Last(c)], disk[c[1]].fmt, t)
                              ELSE IF Len(c) >= MaxDepth THEN "depth" ELSE "none"
<1>1. disk[Last(c)] = Absent => Fault(c, t) = "nomatch"
    BY DEF Fault
<1>2. disk[Last(c)] # Absent =>
                Fault(c, t) = IF Unreadable(disk[Last(c)], disk[c[1]].fmt, t) # "none"
                              THEN Unreadable(disk[Last(c)], disk[c[1]].fmt, t)
                              ELSE IF Len(c) >= MaxDepth THEN "depth" ELSE "none"
    BY DEF Fault
<1>3. QED
    BY <1>1, <1>2

\* What is wrong with the root, when the spec is loaded.
LEMMA FaultRoot ==
    ASSUME NEW t, NEW c, c = <<Spec1>>
    PROVE  /\ opt.stdin /\ opt.mode = "render" => Fault(c, t) = "format"
           /\ ~(opt.stdin /\ opt.mode = "render") /\ disk[Spec1] = Absent =>
                Fault(c, t) = IF opt.stdin THEN "notests" ELSE "file"
           /\ ~(opt.stdin /\ opt.mode = "render") /\ disk[Spec1] # Absent /\ disk[Spec1].fmt = "other" =>
                Fault(c, t) = "format"
           /\ ~(opt.stdin /\ opt.mode = "render") /\ disk[Spec1] # Absent /\ disk[Spec1].fmt # "other" =>
                Fault(c, t) = IF Unreadable(disk[Spec1], disk[Spec1].fmt, t) # "none"
                              THEN Unreadable(disk[Spec1], disk[Spec1].fmt, t)
                              ELSE IF 1 >= MaxDepth THEN "depth" ELSE "none"
<1>1. Len(c) = 1 /\ Last(c) = Spec1 /\ c[1] = Spec1
    BY DEF Last
<1>2. opt.stdin /\ opt.mode = "render" => Fault(c, t) = "format"
    BY <1>1 DEF Fault
<1>3. ~(opt.stdin /\ opt.mode = "render") /\ disk[Spec1] = Absent =>
                Fault(c, t) = IF opt.stdin THEN "notests" ELSE "file"
    BY <1>1 DEF Fault
<1>4. ~(opt.stdin /\ opt.mode = "render") /\ disk[Spec1] # Absent /\ disk[Spec1].fmt = "other" =>
                Fault(c, t) = "format"
    BY <1>1 DEF Fault
<1>5. ~(opt.stdin /\ opt.mode = "render") /\ disk[Spec1] # Absent /\ disk[Spec1].fmt # "other" =>
                Fault(c, t) = IF Unreadable(disk[Spec1], disk[Spec1].fmt, t) # "none"
                              THEN Unreadable(disk[Spec1], disk[Spec1].fmt, t)
                              ELSE IF 1 >= MaxDepth THEN "depth" ELSE "none"
    BY <1>1 DEF Fault
<1>6. QED
    BY <1>2, <1>3, <1>4, <1>5

\* Failing on the next chain is failing on the first that has a fault.
LEMMA FailedFact ==
    ASSUME LoaderTypeOK, lpc = "merge", NEW c \in AllChains, NEW e, e # "none", Fail(e),
           pass = "load" => Fault(c, template) = e,
           pass = "load" => \A u \in AllChains : Fault(u, template) = "none" \/ u = c \/ Before(c, u),
           quietDecode => warned' = warned, dups' = dups
    PROVE  Failed
<1>1. answer' = Err(e) /\ lpc' = "return" /\ answer'.err = e
    BY DEF Fail, Err
<1>2. ASSUME pass = "load" PROVE answer' = Reference(template)
  <2>1. AllChains = Chains(Spec1, template)
    BY <1>2 DEF AllChains, Root
  <2>2. Reference(template) = Err(Fault(c, template))
    BY <1>2, <2>1, ReferenceBad DEF LoaderTypeOK
  <2>3. QED
    BY <1>1, <1>2, <2>2
<1>3. QED
    BY <1>1, <1>2 DEF Failed

\* The spec is entered, or cannot be.
LEMMA ReadRootFact ==
    ASSUME LoaderTypeOK, ReadRoot
    PROVE  Failed \/ Entered(<<Root>>)
<1> DEFINE doc == disk[Root]
           stdin == opt.stdin /\ Root = Spec1
           c == <<Root>>
           e == Unreadable(doc, doc.fmt, template)
<1>1. Root \in Files /\ IsChains(AllChains, Inc(template), Root) /\ Inc(template) \in [Files -> SUBSET Files]
    BY IncFact
<1>2. c \in AllChains /\ \A u \in AllChains : u = c \/ Before(c, u)
    BY <1>1, RootChain
<1>3. /\ lpc = "merge" /\ stack = <<>>
      /\ (IF stdin THEN readStdinOnce ELSE disk[Root]) = doc
    BY StdinFact DEF ReadRoot
<1>4. IF stdin /\ opt.mode = "render" THEN Fail("format") /\ warned' = warned
      ELSE IF doc = Absent THEN Fail(IF stdin THEN "notests" ELSE "file") /\ warned' = warned
      ELSE IF doc.fmt = "other" THEN Fail("format") /\ warned' = warned
      ELSE outStoreFormat' = doc.fmt /\ Enter(<<>>, Root, doc, doc.fmt)
  <2> HIDE DEF doc
  <2>1. QED
    BY <1>3 DEF ReadRoot
<1>5. pass = "load" => Root = Spec1
    BY DEF Root
<1>12. dups' = dups
    BY DEF ReadRoot
<1>6. ASSUME NEW x, x # "none", Fail(x), pass = "load" => Fault(c, template) = x, quietDecode => warned' = warned
      PROVE  Failed
    BY <1>2, <1>3, <1>6, <1>12, FailedFact
<1>7. CASE stdin /\ opt.mode = "render"
    BY <1>4, <1>5, <1>6, <1>7, FaultRoot
<1>8. CASE ~(stdin /\ opt.mode = "render") /\ doc = Absent
    BY <1>4, <1>5, <1>6, <1>8, FaultRoot
<1>9. CASE ~(stdin /\ opt.mode = "render") /\ doc # Absent /\ doc.fmt = "other"
    BY <1>4, <1>5, <1>6, <1>9, FaultRoot
<1>10. CASE ~(stdin /\ opt.mode = "render") /\ doc # Absent /\ doc.fmt # "other"
  <2>1. outStoreFormat' = doc.fmt /\ Enter(<<>>, Root, doc, doc.fmt)
    BY <1>4, <1>10
  <2>2. pass = "load" => Fault(c, template) = IF e # "none" THEN e ELSE IF 1 >= MaxDepth THEN "depth" ELSE "none"
    BY <1>5, <1>10, FaultRoot
  <2>3. Len(<<>>) + 1 = 1
    OBVIOUS
  <2>4. /\ warned' = IF e = "template" THEN warned ELSE Warnings(Root, doc, doc.fmt, e = "none")
        /\ IF e # "none" THEN Fail(e)
           ELSE IF 1 >= MaxDepth THEN Fail("depth")
           ELSE stack' = Append(<<>>, Frame(Root, doc)) /\ UNCHANGED <<lpc, answer>>
    BY <2>1, <2>3 DEF Enter
  <2>5. quietDecode /\ (e # "none" \/ 1 >= MaxDepth) => warned' = warned
    BY <2>4 DEF Warnings, warnGlobNoMatch, checkTopLevelKeys
  <2>6. CASE e # "none" \/ 1 >= MaxDepth
    <3> HIDE DEF e, c
    <3>1. QED
        BY <1>6, <2>2, <2>4, <2>5, <2>6
  <2>7. CASE e = "none" /\ ~(1 >= MaxDepth)
    <3>1. stack' = <<Frame(Root, doc)>> /\ lpc' = "merge" /\ warned' = Warnings(Root, doc, doc.fmt, TRUE)
      <4> DEFINE x == Frame(Root, doc)
      <4> HIDE DEF x
      <4>1. Append(<<>>, x) = <<x>>
        OBVIOUS
      <4>2. stack' = Append(<<>>, x) /\ lpc' = lpc
        BY <2>4, <2>7 DEF x
      <4>3. warned' = Warnings(Root, doc, doc.fmt, TRUE)
        <5>1. (e = "none") = TRUE /\ e # "template"
            BY <2>7
        <5> HIDE DEF e
        <5>2. QED
            BY <2>4, <5>1
      <4>4. QED
        BY <1>3, <4>1, <4>2, <4>3 DEF x
    <3>2. pass = "load" => Fault(c, template) = "none"
        BY <2>2, <2>7
    <3>3. Meeting(stack', outStoreFormat') /\ Met(stack', AllChains) = {c}
        BY <1>10, <2>1, <3>1, <3>2, MeetingRoot
    <3>4. Reached = {} /\ stack' # <<>> /\ c \in Seq(Files) /\ Last(c) = Root /\ c[1] = Root
        BY <1>1, <1>3, <3>1 DEF Reached, Last
    <3>5. dups' = dups /\ Grown(stack, stack', c)
      <4>1. Len(stack) = 0 /\ Len(stack') = 1 /\ stack'[1] = Frame(Root, doc) /\ Len(stack) + 1 = 1
        BY <1>3, <3>1
      <4>2. \A i \in 1..Len(stack) : FALSE
        BY <4>1
      <4>3. QED
        BY <1>1, <1>10, <3>4, <4>1, <4>2, FrameGives DEF Grown, ReadRoot
    <3>6. QED
        BY <1>1, <1>10, <3>1, <3>3, <3>4, <3>5 DEF Entered
  <2>8. QED
    BY <2>6, <2>7
<1>11. QED
    BY <1>7, <1>8, <1>9, <1>10

\* The next include, its chain, and the stack that waits for it.
NextFile == Least(Top.todo)
NextPath == [i \in 1..(Len(stack) + 1) |-> IF i = Len(stack) + 1 THEN NextFile ELSE stack[i].file]
Waiting == [stack EXCEPT ![Len(stack)].todo = @ \ {NextFile}]

\* The next include is that of a stack.
LEMMA PathFact ==
    ASSUME LoaderTypeOK, stack # <<>>, Stacked(stack, Inc(template), Root), Top.todo # {}
    PROVE  /\ Len(stack) \in Nat /\ Len(stack) >= 1 /\ NextFile \in Files
           /\ NextIs(stack, Len(stack), NextFile, NextPath) /\ NextPath[1] = Root /\ Last(NextPath) = NextFile
           /\ Waiting \in Seq(Frames) /\ Len(Waiting) = Len(stack)
           /\ \A i \in 1..Len(stack) : Waiting[i].file = stack[i].file /\ Waiting[i].ret = stack[i].ret
           /\ \A i \in 1..(Len(stack) - 1) : Waiting[i].todo = stack[i].todo
           /\ Waiting[Len(stack)].todo = stack[Len(stack)].todo \ {NextFile}
<1> DEFINE n == Len(stack)
           f == NextFile
           c == NextPath
           below == Waiting
<1>0. /\ f = Least(Top.todo) /\ below = [stack EXCEPT ![n].todo = @ \ {f}]
      /\ c = [i \in 1..(n + 1) |-> IF i = n + 1 THEN f ELSE stack[i].file]
    BY DEF NextFile, NextPath, Waiting
<1> HIDE DEF f, c, below
<1>1. n \in Nat /\ n >= 1 /\ n \in 1..Len(stack) /\ Top = stack[n] /\ Top \in Frames /\ stack \in Seq(Frames)
    BY TopFact DEF Top, LoaderTypeOK
<1>2. Top.todo \in SUBSET Files
    BY <1>1 DEF Frames
<1>3. f \in Files /\ f \in stack[n].todo /\ \A g \in stack[n].todo : f <= g
    BY <1>0, <1>1, <1>2, LeastFact
<1>4. \A i \in 1..n : stack[i] \in Frames /\ stack[i].file \in Files
  <2>1. \A i \in 1..n : stack[i] \in Frames
    BY <1>1
  <2>2. QED
    BY <2>1 DEF Frames
<1>5. /\ Len(c) = n + 1 /\ c[n + 1] = f /\ \A i \in 1..n : c[i] = stack[i].file
    BY <1>0, <1>1
<1>6. c \in Seq(Files)
  <2>1. c \in [1..(n + 1) -> Files]
    <3>1. ASSUME NEW i \in 1..(n + 1) PROVE (IF i = n + 1 THEN f ELSE stack[i].file) \in Files
      <4>1. i = n + 1 \/ i \in 1..n
        BY <1>1
      <4>2. QED
        BY <1>3, <1>4, <4>1
    <3>2. QED
        BY <1>0, <3>1
  <2>2. n + 1 \in Nat
    BY <1>1
  <2>3. QED
    BY <2>1, <2>2
<1>7. NextIs(stack, n, f, c) /\ Last(c) = f
    BY <1>3, <1>5, <1>6 DEF NextIs, Last
<1>8. c[1] = Root
    BY <1>1, <1>5 DEF Stacked
<1>9. [stack[n] EXCEPT !.todo = @ \ {f}] \in Frames
    BY <1>1 DEF Frames
<1>10. below = [stack EXCEPT ![n] = [stack[n] EXCEPT !.todo = @ \ {f}]]
    BY <1>0
<1>11. below \in Seq(Frames) /\ Len(below) = n
    BY <1>1, <1>9, <1>10, ReplaceFact
<1>12. \A i \in 1..n : below[i] = IF i = n THEN [stack[n] EXCEPT !.todo = @ \ {f}] ELSE stack[i]
    BY <1>1, <1>10
<1>13. /\ \A i \in 1..(n - 1) : below[i] = stack[i]
       /\ below[n].file = stack[n].file /\ below[n].ret = stack[n].ret /\ below[n].todo = stack[n].todo \ {f}
  <2>1. below[n] = [stack[n] EXCEPT !.todo = @ \ {f}]
    BY <1>1, <1>12
  <2>2. stack[n] \in Frames
    BY <1>1
  <2>3. \A i \in 1..(n - 1) : i \in 1..n /\ i # n
    BY <1>1
  <2>4. QED
    BY <1>12, <2>1, <2>2, <2>3 DEF Frames
<1>14. \A i \in 1..n : i \in 1..(n - 1) \/ i = n
    BY <1>1
<1>15. QED
    BY <1>1, <1>3, <1>7, <1>8, <1>11, <1>13, <1>14 DEF f, c, below

\* The next include is entered, or cannot be.
LEMMA IncludeFact ==
    ASSUME LoaderTypeOK, MergeInv, Include
    PROVE  Failed \/ \E c : Entered(c)
<1> DEFINE n == Len(stack)
           f == NextFile
           c == NextPath
           below == Waiting
           e == Unreadable(disk[f], outStoreFormat, template)
           C == AllChains
<1>1. /\ lpc = "merge" /\ stack # <<>> /\ Top.todo # {} /\ UNCHANGED <<loadSettings, outStoreFormat, dups>>
      /\ IF disk[f] = Absent THEN Fail("nomatch") /\ UNCHANGED warned ELSE Enter(below, f, disk[f], outStoreFormat)
    BY DEF Include, NextFile, Waiting
<1>2. Meeting(stack, outStoreFormat)
    BY <1>1 DEF MergeInv
<1>3. Stacked(stack, Inc(template), Root) /\ outStoreFormat = disk[Root].fmt
    BY <1>2 DEF Meeting
<1>4. /\ n \in Nat /\ n >= 1 /\ f \in Files /\ NextIs(stack, n, f, c) /\ c[1] = Root /\ Last(c) = f
      /\ below \in Seq(Frames) /\ Len(below) = n
      /\ \A i \in 1..n : below[i].file = stack[i].file /\ below[i].ret = stack[i].ret
      /\ \A i \in 1..(n - 1) : below[i].todo = stack[i].todo
      /\ below[n].todo = stack[n].todo \ {f}
    BY <1>1, <1>3, PathFact
<1>5. n < MaxDepth /\ MaxDepth \in Nat
    BY LoaderAssumption DEF LoaderTypeOK
<1>6. disk[f] \in Documents \cup {Absent}
    BY <1>4 DEF LoaderTypeOK
<1>7. Len(c) = n + 1
    BY <1>4 DEF NextIs
<1>8. disk[f] # Absent => /\ warned' = IF e = "template" THEN warned ELSE Warnings(f, disk[f], outStoreFormat, e = "none")
                          /\ IF e # "none" THEN Fail(e)
                             ELSE IF n + 1 >= MaxDepth THEN Fail("depth")
                             ELSE stack' = Append(below, Frame(f, disk[f])) /\ UNCHANGED <<lpc, answer>>
    BY <1>1, <1>4 DEF Enter
<1> HIDE DEF n, f, c, below, C
<1>9. c \in C /\ \A u \in C : Pending(stack, u) => u = c \/ Before(c, u)
  <2>1. Inc(template) \in [Files -> SUBSET Files] /\ IsChains(C, Inc(template), Root)
    BY IncFact DEF C
  <2>2. QED
    BY <1>3, <1>4, <1>5, <2>1, NextChain
<1>10. pass = "load" => \A u \in C : Fault(u, template) = "none" \/ u = c \/ Before(c, u)
    BY <1>2, <1>9 DEF Meeting, Met, C
<1>11. ASSUME NEW x, x # "none", Fail(x), pass = "load" => Fault(c, template) = x, quietDecode => warned' = warned
       PROVE  Failed
    BY <1>1, <1>9, <1>10, <1>11, FailedFact DEF C
<1>12. Len(c) # 1
    BY <1>4, <1>7
<1>13. CASE disk[f] = Absent
  <2>1. Fault(c, template) = "nomatch"
    BY <1>4, <1>12, <1>13, FaultNext
  <2>2. Fail("nomatch") /\ warned' = warned
    BY <1>1, <1>13 DEF f
  <2>3. QED
    BY <1>11, <2>1, <2>2
<1>14. CASE disk[f] # Absent
  <2>1. Fault(c, template) = IF e # "none" THEN e ELSE IF n + 1 >= MaxDepth THEN "depth" ELSE "none"
    BY <1>3, <1>4, <1>7, <1>12, <1>14, FaultNext
  <2>2. quietDecode /\ (e # "none" \/ n + 1 >= MaxDepth) => warned' = warned
    BY <1>8, <1>14 DEF Warnings, warnGlobNoMatch, checkTopLevelKeys
  <2>3. CASE e # "none" \/ n + 1 >= MaxDepth
    <3> HIDE DEF e
    <3>1. QED
        BY <1>8, <1>11, <1>14, <2>1, <2>2, <2>3
  <2>4. CASE e = "none" /\ ~(n + 1 >= MaxDepth)
    <3>1. /\ stack' = Append(below, Frame(f, disk[f])) /\ lpc' = "merge"
          /\ warned' = Warnings(f, disk[f], disk[Root].fmt, TRUE) /\ outStoreFormat' = outStoreFormat
      <4>1. (e = "none") = TRUE /\ e # "template"
        BY <2>4
      <4> HIDE DEF e
      <4>2. QED
        BY <1>1, <1>3, <1>8, <1>14, <2>4, <4>1
    <3>2. Frame(f, disk[f]) \in Frames
        BY <1>4, <1>6, <1>14, FrameFact
    <3>3. /\ stack' \in Seq(Frames) /\ Len(stack') = n + 1 /\ stack'[n + 1] = Frame(f, disk[f])
          /\ \A i \in 1..n : stack'[i] = below[i]
        BY <1>4, <3>1, <3>2
    <3>4. /\ stack'[n + 1].file = f /\ stack'[n + 1].todo = Inc(template)[f]
          /\ stack'[n + 1].ret.res = ResOf(template)[f] /\ stack'[n + 1].ret.section = SectionOf[f]
        BY <1>4, <1>14, <3>3, FrameGives
    <3>5. Pushed(stack, stack', Inc(template), n, f)
      <4>1. \A i \in 1..(n - 1) : i \in 1..n
        BY <1>4
      <4>2. n \in 1..n
        BY <1>4
      <4>3. QED
        BY <1>4, <3>3, <3>4, <4>1, <4>2 DEF Pushed
    <3>7. pass = "load" => Fault(c, template) = "none"
        BY <2>1, <2>4
    <3>6. Pushing(stack, stack', n, f, c)
      <4>1. \A i \in 1..n : stack'[i].ret = stack[i].ret
        BY <1>4, <3>3
      <4>2. QED
        BY <1>4, <1>5, <1>14, <3>4, <3>5, <3>7, <4>1 DEF Pushing
    <3>8. /\ Meeting(stack', outStoreFormat) /\ c \in Seq(Files)
          /\ Met(stack', AllChains) = Met(stack, AllChains) \cup {c} /\ c \notin Met(stack, AllChains)
        BY <1>2, <1>4, <3>6, MeetingPush
    <3>9. stack' # <<>> /\ Reached = Met(stack, AllChains)
        BY <1>1, <1>4, <3>3 DEF Reached
    <3>12. disk[Root] # Absent
      <4>1. <<Root>> \in Met(stack, AllChains)
        <5>1. Inc(template) \in [Files -> SUBSET Files] /\ IsChains(AllChains, Inc(template), Root) /\ Root \in Files
            BY IncFact
        <5>2. <<Root>> \in AllChains /\ Len(<<Root>>) = 1
            BY <5>1, RootChain
        <5>3. ~Pending(stack, <<Root>>)
            BY <5>2 DEF Pending
        <5>4. QED
            BY <5>2, <5>3 DEF Met
      <4>2. Last(<<Root>>) = Root
        BY DEF Last
      <4>3. QED
        BY <1>2, <4>1, <4>2 DEF Meeting
    <3>13. Grown(stack, stack', c)
        BY <1>4, <3>3, <3>4 DEF Grown, n
    <3>10. Entered(c)
        BY <1>1, <1>4, <1>14, <3>1, <3>8, <3>9, <3>12, <3>13 DEF Entered
    <3>11. QED
        BY <3>10
  <2>5. QED
    BY <2>3, <2>4
<1>15. QED
    BY <1>13, <1>14

\* An include is merged into its includer's, or the load is over.
LEMMA MergedFact ==
    ASSUME LoaderTypeOK, MergeInv, Merged
    PROVE  Returned \/ LoadEnded
<1> DEFINE n == Len(stack)
<1>1. /\ lpc = "merge" /\ stack # <<>> /\ Top.todo = {}
      /\ UNCHANGED <<loadSettings, outStoreFormat, warned>>
    BY DEF Merged
<1>2. Meeting(stack, outStoreFormat)
    BY <1>1 DEF MergeInv
<1>3. n \in Nat /\ n >= 1 /\ n \in 1..Len(stack) /\ Top = stack[n] /\ Top \in Frames /\ stack \in Seq(Frames)
    BY <1>1, TopFact DEF Top, LoaderTypeOK
<1>4. Reached = Met(stack, AllChains)
    BY <1>1 DEF Reached
<1>5. CASE n > 1
  <2> DEFINE up == n - 1
             rest == SubSeq(stack, 1, up)
             x == [rest[up] EXCEPT !.ret = mergeSyver(rest[up].ret, Top.ret)]
  <2>1. /\ stack' = [rest EXCEPT ![up].ret = mergeSyver(@, Top.ret)] /\ lpc' = lpc
        /\ dups' = mergeType(stack[up].ret, Top.ret)
    BY <1>5 DEF Merged
  <2>2. stack' = [rest EXCEPT ![up] = x]
    BY <2>1
  <2>3. up \in 1..Len(stack) /\ rest \in Seq(Frames) /\ Len(rest) = up /\ \A i \in 1..up : rest[i] = stack[i]
    BY <1>3, <1>5
  <2>4. rest[up] = stack[n - 1] /\ stack[n - 1] \in Frames /\ stack[n] \in Frames /\ up \in 1..up /\ up \in Nat
    BY <1>3, <1>5, <2>3
  <2>5. mergeSyver(rest[up].ret, Top.ret) \in Configs
    <3>1. rest[up].ret \in Configs /\ Top.ret \in Configs
        BY <1>3, <2>4 DEF Frames
    <3>2. QED
        BY <3>1, MergeFact
  <2>6. /\ x \in Frames /\ x.file = stack[n - 1].file /\ x.todo = stack[n - 1].todo
        /\ x.ret = mergeSyver(stack[n - 1].ret, stack[n].ret)
    BY <1>3, <2>4, <2>5 DEF Frames
  <2> HIDE DEF x, rest
  <2>7. stack' \in Seq(Frames) /\ Len(stack') = up /\ \A i \in 1..up : stack'[i] = IF i = up THEN x ELSE rest[i]
    BY <2>2, <2>3, <2>4, <2>6, ReplaceFact
  <2>8. /\ \A i \in 1..(n - 2) : stack'[i] = stack[i]
        /\ stack'[n - 1] = x
    <3>1. \A i \in 1..(n - 2) : i \in 1..up /\ i # up
        BY <1>3
    <3>2. QED
        BY <2>3, <2>4, <2>7, <3>1
  <2>9. Popped(stack, stack', n)
    <3>1. \A i \in 1..(n - 1) : i \in 1..(n - 2) \/ i = n - 1
        BY <1>3
    <3>2. \A i \in 1..(n - 1) : stack'[i].file = stack[i].file /\ stack'[i].todo = stack[i].todo
        BY <2>6, <2>8, <3>1
    <3>3. QED
        BY <1>1, <1>3, <1>5, <2>7, <3>2 DEF Popped
  <2>10. stack'[n - 1].ret = mergeSyver(stack[n - 1].ret, stack[n].ret) /\ \A i \in 1..(n - 2) : stack'[i].ret = stack[i].ret
    BY <2>6, <2>8
  <2>14. Shrunk(stack, stack', Len(stack)) /\ dups' = mergeType(stack[Len(stack) - 1].ret, stack[Len(stack)].ret)
    BY <1>3, <1>5, <2>1, <2>7, <2>10 DEF Shrunk
  <2> HIDE DEF n, up
  <2>11. Meeting(stack', outStoreFormat) /\ Met(stack', AllChains) = Met(stack, AllChains)
    BY <1>2, <2>9, <2>10, MeetingPop
  <2>12. stack' # <<>>
    BY <2>4, <2>7
  <2>13. QED
    BY <1>1, <1>4, <2>1, <2>11, <2>12, <2>14 DEF Returned
<1>6. CASE n = 1
  <2>1. Inc(template) \in [Files -> SUBSET Files] /\ IsChains(AllChains, Inc(template), Root)
    BY IncFact
  <2>2. Stacked(stack, Inc(template), Root) /\ stack[1].todo = {} /\ Len(stack) = 1 /\ stack[1] = Top
    BY <1>1, <1>2, <1>3, <1>6 DEF Meeting
  <2>3. Met(stack, AllChains) = AllChains /\ Own(stack, AllChains, 1) = AllChains
    BY <2>1, <2>2, DoneFact
  <2>4. IF opt.mode # "render" /\ Top.ret = NoConfig THEN Fail("notests")
        ELSE answer' = Ok(Top.ret) /\ lpc' = "return"
    BY <1>6 DEF Merged
  <2>9. dups' = dups
    BY <1>6 DEF Merged
  <2>10. Wins(Top.ret.res, AllChains, ResOf(template)) /\ Wins(Top.ret.section, AllChains, SectionOf)
    BY <1>2, <1>3, <1>6, <2>3 DEF Meeting
  <2>5. ASSUME pass = "load"
        PROVE  Reference(template) = IF Top.ret = NoConfig /\ opt.mode # "render" THEN Err("notests") ELSE Ok(Top.ret)
    <3>1. AllChains = Chains(Spec1, template)
        BY <2>5 DEF AllChains, Root
    <3>2. \A u \in AllChains : Fault(u, template) = "none"
        BY <1>2, <1>3, <1>6, <2>3, <2>5 DEF Meeting
    <3>3. Top.ret \in Configs /\ opt.vars # BadVars
        BY <1>1, <1>3 DEF Frames, LoaderTypeOK
    <3>4. QED
        BY <2>10, <3>1, <3>2, <3>3, ReferenceGood
  <2>6. lpc' = "return" /\ answer' = IF Top.ret = NoConfig /\ opt.mode # "render" THEN Err("notests") ELSE Ok(Top.ret)
    BY <2>4 DEF Fail
  <2>7. LoadEnded
    BY <1>1, <1>4, <2>2, <2>3, <2>5, <2>6, <2>9, <2>10 DEF LoadEnded
  <2>8. QED
    BY <2>7
<1> HIDE DEF n
<1>9. n \in Nat /\ n >= 1
    BY <1>3
<1>7. n > 1 \/ n = 1
    BY <1>9
<1>8. QED
    BY <1>5, <1>6, <1>7

\* What one step of a load does.
LEMMA LoadStepFact ==
    ASSUME LoaderTypeOK, MergeInv, LoadSteps
    PROVE  Failed \/ Returned \/ LoadEnded \/ \E c : Entered(c)
BY ReadRootFact, IncludeFact, MergedFact DEF LoadSteps

\* The files and the filter do not change while a load merges.
LEMMA SameLoad ==
    ASSUME UNCHANGED <<disk, opt, pass, template>>
    PROVE  /\ AllChains' = AllChains /\ Reference(template)' = Reference(template)
           /\ ResOf(template)' = ResOf(template) /\ SectionOf' = SectionOf
           /\ Meeting(stack, outStoreFormat)' <=> Meeting(stack', outStoreFormat')
<1>1. Root' = Root
    BY DEF Root
<1>2. Inc(template)' = Inc(template)
    BY DEF Inc, Includes, Opens, Gate
<1>3. AllChains' = AllChains
    BY <1>1 DEF AllChains, Chains, Includes, Opens, Gate
<1>4. ResOf(template)' = ResOf(template) /\ SectionOf' = SectionOf
    BY DEF ResOf, SectionOf, Opens, Gate
<1>5. \A u : Fault(u, template)' = Fault(u, template)
    BY DEF Fault, Unreadable, Gate
<1>6. Meeting(stack, outStoreFormat)' <=> Meeting(stack', outStoreFormat')
    BY <1>1, <1>2, <1>3, <1>4, <1>5 DEF Meeting
<1>7. Chains(Spec1, template)' = Chains(Spec1, template)
    BY DEF Chains, Includes, Opens, Gate
<1>8. Reference(template)' = Reference(template)
  <2>1. {s \in Chains(Spec1, template)' : Fault(s, template)' # "none"} =
          {s \in Chains(Spec1, template) : Fault(s, template) # "none"}
    BY <1>5, <1>7
  <2>2. QED
    BY <1>4, <1>7, <2>1 DEF Reference, Fault, Unreadable, Gate
<1>9. QED
    BY <1>3, <1>4, <1>6, <1>8

\* The answer of the real load.
AnswerInv == pass = "load" /\ lpc \in {"return", "done"} => answer = Reference(template)

\* Every step of a load keeps what it has merged, and ends with the reference's answer.
LEMMA AnswerNext ==
    LoaderTypeOK /\ MergeInv /\ AnswerInv /\ [LoaderNext]_<<loaderVars, discoveryVars>> => MergeInv' /\ AnswerInv'
<1> SUFFICES ASSUME LoaderTypeOK, MergeInv, AnswerInv, [LoaderNext]_<<loaderVars, discoveryVars>>
             PROVE  MergeInv' /\ AnswerInv'
    OBVIOUS
<1>1. CASE Peek \/ LoadDiscoverSpec \/ Load
  <2>1. stack' = <<>> /\ opt' = opt
    BY <1>1 DEF Peek, LoadDiscoverSpec, Load, StartLoad
  <2>2. \/ lpc' = "merge"
        \/ opt.vars = BadVars /\ answer' = Err("vars")
    BY <1>1, FilterFact DEF Peek, LoadDiscoverSpec, Load, StartLoad
  <2>3. opt.vars = BadVars => Reference(template)' = Err("vars")
    BY <2>1 DEF Reference
  <2>4. QED
    BY <2>1, <2>2, <2>3 DEF MergeInv, AnswerInv
<1>2. CASE LoadSteps
  <2>1. UNCHANGED <<disk, opt, pass, template>>
    BY <1>2, LoadStepsFact DEF LoadSteps, ReadRoot, Include, Merged, loadSettings
  <2>2. /\ Reference(template)' = Reference(template)
        /\ Meeting(stack, outStoreFormat)' <=> Meeting(stack', outStoreFormat')
    BY <2>1, SameLoad
  <2>3. CASE Failed \/ LoadEnded
    BY <2>1, <2>2, <2>3 DEF Failed, LoadEnded, MergeInv, AnswerInv
  <2>4. CASE Returned \/ \E c : Entered(c)
    BY <2>1, <2>2, <2>4 DEF Returned, Entered, MergeInv, AnswerInv
  <2>5. QED
    BY <1>2, <2>3, <2>4, LoadStepFact
<1>3. CASE Return
  <2>1. /\ lpc = "return" /\ lpc' # "merge" /\ UNCHANGED <<disk, opt, pass, template>>
        /\ pass = "load" => answer' = answer
    BY <1>3 DEF Return, Finished, IsResult
  <2>2. Reference(template)' = Reference(template)
    BY <2>1, SameLoad
  <2>3. QED
    BY <2>1, <2>2 DEF MergeInv, AnswerInv
<1>4. CASE Discovered
  <2>1. lpc' \in {"peek", "load"}
    BY <1>4 DEF Discovered, afterDiscovery
  <2>2. QED
    BY <2>1 DEF MergeInv, AnswerInv
<1>5. CASE UNCHANGED loaderVars
  <2>1. UNCHANGED <<disk, opt, lpc, pass, template, stack, outStoreFormat, answer>>
    BY <1>5 DEF loaderVars, loadVars
  <2>2. /\ Reference(template)' = Reference(template)
        /\ Meeting(stack, outStoreFormat)' <=> Meeting(stack', outStoreFormat')
    BY <2>1, SameLoad
  <2>3. QED
    BY <2>1, <2>2 DEF MergeInv, AnswerInv
<1>6. QED
    BY <1>1, <1>2, <1>3, <1>4, <1>5 DEF LoaderNext, LoaderStep

\* In every load, at every step of mergeJSONData's recursion, each activation has
\* merged just what the chains it owns give, and the real load's answer is the
\* reference's.
THEOREM AnswerInvCorrect == AnyLoadSpec => [](MergeInv /\ AnswerInv)
<1>1. AnyLoad => MergeInv /\ AnswerInv
    BY DEF AnyLoad, LoaderInit, MergeInv, AnswerInv
<1>2. QED
    BY <1>1, AnswerNext, LoaderTypeCorrect, PTL DEF AnyLoadSpec

\* Any files, any include graph and any depth limit: the recursion of
\* mergeJSONData gives of every key the value of the last chain that defines
\* it, or the error of the first chain that cannot be used.
THEOREM LastIncludedCorrect == AnyLoadSpec => []LastIncludedWins
<1>1. RenderInv /\ MergeInv /\ AnswerInv => LastIncludedWins
  <2> SUFFICES ASSUME RenderInv, AnswerInv, lpc = "done", pass = "load"
               PROVE  answer = Reference(TrueTemplate)
    BY DEF LastIncludedWins
  <2>1. answer = Reference(template)
    BY DEF AnswerInv
  <2>2. CASE opt.vars # BadVars
    <3>1. template = TrueTemplate
        BY <2>2 DEF RenderInv, RendersTruly
    <3>2. QED
        BY <2>1, <3>1
  <2>3. CASE opt.vars = BadVars
    <3>1. Reference(template) = Err("vars") /\ Reference(TrueTemplate) = Err("vars")
        BY <2>3 DEF Reference
    <3>2. QED
        BY <2>1, <3>1
  <2>4. QED
    BY <2>2, <2>3
<1>2. QED
    BY <1>1, RenderInvCorrect, AnswerInvCorrect, PTL

-----------------------------------------------------------------------------
(* The warnings of a load *)

\* The discover spec's own load.
FirstTemplate == [disc |-> IF opt.inline # Unread THEN opt.inline ELSE opt.vars, missingkey |-> "error"]
First == IF opt.mode = "discover" THEN Chains(DiscoverSpec, FirstTemplate) ELSE {}

\* w counts the chains of first, rendered with t0, and those of used, rendered with t.
Counted(w, first, used, t0, t) ==
    /\ IsFiniteSet(first) /\ IsFiniteSet(used)
    /\ w.odd \in [Files -> Nat] /\ w.alias \in [Files -> Nat] /\ w.glob \in [Files -> Nat]
    /\ \A f \in Files : disk[f] # Absent =>
          /\ w.odd[f] = IF disk[f].odd THEN Cardinality(Ending(InYaml(used), f))
                                         + Cardinality(Ending(InYaml(first), f)) ELSE 0
          /\ w.alias[f] = IF disk[f].alias THEN Cardinality(Ending(used, f)) + Cardinality(Ending(first, f)) ELSE 0
          /\ w.glob[f] = IF disk[f].glob /\ (\/ Opens(disk[f], t) /\ Ending(used, f) # {}
                                             \/ Opens(disk[f], t0) /\ Ending(first, f) # {})
                         THEN 1 ELSE 0

\* The chains whose files were warned about: of the discover spec, and of the spec.
FirstMet == IF pass = "none" THEN {} ELSE IF pass = "discover" /\ lpc = "merge" THEN Reached ELSE First
UsedMet == IF pass # "load" THEN {} ELSE IF lpc = "merge" THEN Reached ELSE AllChains

\* Which load follows which.
FlowInv ==
    /\ pass = "none" => lpc \in {"discover", "peek", "load"} /\ (opt.mode = "discover" => lpc = "discover")
    /\ lpc = "discover" => pass = "none" /\ opt.mode = "discover"
    /\ opt.vars = BadVars => pass = "none" \/ (lpc \in {"return", "done"} /\ answer.err = "vars" /\ phase = "off")
    /\ opt.vars = BadVars /\ opt.mode = "discover" => pass \in {"none", "discover"}
    /\ pass = "discover" => /\ opt.mode = "discover" /\ (opt.vars # BadVars => template = FirstTemplate)
                            /\ lpc \in {"merge", "return", "peek", "done"}
    /\ lpc = "merge" => (quietDecode <=> pass = "peek")
    /\ phase # "off" => answer.err = "none"

\* A load that failed may have warned about files it met, all others have
\* warned about those alone.
WarnInv ==
    (pass \in {"load", "discover"} /\ lpc \in {"return", "done"} => answer.err = "none") =>
        Counted(warned, FirstMet, UsedMet, FirstTemplate, template)

\* One chain more is one more for its file, and none for the others.
LEMMA EndingFact ==
    ASSUME NEW U, IsFiniteSet(U), NEW c, c \notin U
    PROVE  /\ IsFiniteSet(U \cup {c}) /\ Cardinality(Ending(U, Last(c))) \in Nat
           /\ Ending(U \cup {c}, Last(c)) = Ending(U, Last(c)) \cup {c}
           /\ Cardinality(Ending(U \cup {c}, Last(c))) = Cardinality(Ending(U, Last(c))) + 1
           /\ \A f : f # Last(c) => Ending(U \cup {c}, f) = Ending(U, f)
<1> DEFINE E == Ending(U, Last(c))
<1>1. E \subseteq U /\ c \notin E
    BY DEF Ending
<1>2. Ending(U \cup {c}, Last(c)) = E \cup {c} /\ \A f : f # Last(c) => Ending(U \cup {c}, f) = Ending(U, f)
    BY DEF Ending
<1> HIDE DEF E
<1>3. IsFiniteSet(E)
    BY <1>1, FS_Subset
<1>4. IsFiniteSet(U \cup {c}) /\ Cardinality(E) \in Nat /\ Cardinality(E \cup {c}) = Cardinality(E) + 1
    BY <1>1, <1>3, FS_AddElement, FS_CardinalityType
<1>5. QED
    BY <1>2, <1>4 DEF E

\* A count of chains is a number.
LEMMA EndingNat ==
    ASSUME NEW U, IsFiniteSet(U), NEW f
    PROVE  /\ Cardinality(Ending(U, f)) \in Nat
           /\ IsFiniteSet(InYaml(U)) /\ Cardinality(Ending(InYaml(U), f)) \in Nat
<1>1. ASSUME NEW V, IsFiniteSet(V) PROVE Cardinality(Ending(V, f)) \in Nat
  <2>1. Ending(V, f) \subseteq V
    BY DEF Ending
  <2>2. QED
    BY <1>1, <2>1, FS_Subset, FS_CardinalityType
<1>2. InYaml(U) \subseteq U
    BY DEF InYaml
<1>3. IsFiniteSet(InYaml(U))
    BY <1>2, FS_Subset
<1>4. QED
    BY <1>1, <1>3

\* One chain more counts for the keys of its file if its root is YAML.
LEMMA YamlFact ==
    ASSUME NEW U, IsFiniteSet(U), NEW c, c \notin U, disk[c[1]] # Absent
    PROVE  /\ disk[c[1]].fmt = "yaml" =>
                Cardinality(Ending(InYaml(U \cup {c}), Last(c))) = Cardinality(Ending(InYaml(U), Last(c))) + 1
           /\ disk[c[1]].fmt # "yaml" => InYaml(U \cup {c}) = InYaml(U)
           /\ \A f : f # Last(c) => Ending(InYaml(U \cup {c}), f) = Ending(InYaml(U), f)
<1>1. CASE disk[c[1]].fmt = "yaml"
  <2>1. InYaml(U \cup {c}) = InYaml(U) \cup {c} /\ c \notin InYaml(U)
    BY <1>1 DEF InYaml
  <2>2. IsFiniteSet(InYaml(U))
    BY EndingNat
  <2> DEFINE V == InYaml(U)
  <2> HIDE DEF V
  <2>3. IsFiniteSet(V) /\ c \notin V /\ InYaml(U \cup {c}) = V \cup {c}
    BY <2>1, <2>2 DEF V
  <2>4. /\ Cardinality(Ending(V \cup {c}, Last(c))) = Cardinality(Ending(V, Last(c))) + 1
        /\ \A f : f # Last(c) => Ending(V \cup {c}, f) = Ending(V, f)
    BY <2>3, EndingFact
  <2>5. QED
    BY <1>1, <2>3, <2>4, Zenon DEF V
<1>2. CASE disk[c[1]].fmt # "yaml"
    BY <1>2 DEF InYaml
<1>3. QED
    BY <1>1, <1>2

\* A file of the spec is entered loudly.
LEMMA CountedMore ==
    ASSUME LoaderTypeOK, NEW w, NEW first, NEW used, NEW t0, NEW t, Counted(w, first, used, t0, t),
           NEW c, c \notin used, Last(c) \in Files, disk[Last(c)] # Absent, disk[c[1]] # Absent, NEW w2,
           w2 = [glob |-> [w.glob EXCEPT ![Last(c)] = IF disk[Last(c)].glob /\ Opens(disk[Last(c)], t) THEN 1 ELSE @],
                 odd |-> [w.odd EXCEPT ![Last(c)] = IF disk[Last(c)].odd /\ disk[c[1]].fmt = "yaml" THEN @ + 1 ELSE @],
                 alias |-> [w.alias EXCEPT ![Last(c)] = IF disk[Last(c)].alias THEN @ + 1 ELSE @]]
    PROVE  Counted(w2, first, used \cup {c}, t0, t)
<1> DEFINE g == Last(c)
           yaml == disk[c[1]].fmt = "yaml"
           OddOf(f, U) == IF disk[f].odd THEN Cardinality(Ending(InYaml(U), f)) + Cardinality(Ending(InYaml(first), f)) ELSE 0
           AliasOf(f, U) == IF disk[f].alias THEN Cardinality(Ending(U, f)) + Cardinality(Ending(first, f)) ELSE 0
           GlobOf(f, U) == IF disk[f].glob /\ (\/ Opens(disk[f], t) /\ Ending(U, f) # {}
                                               \/ Opens(disk[f], t0) /\ Ending(first, f) # {})
                           THEN 1 ELSE 0
<1>1. /\ IsFiniteSet(first) /\ IsFiniteSet(used)
      /\ w.odd \in [Files -> Nat] /\ w.alias \in [Files -> Nat] /\ w.glob \in [Files -> Nat]
    BY DEF Counted
<1>2. /\ w2.odd = [w.odd EXCEPT ![g] = IF disk[g].odd /\ yaml THEN w.odd[g] + 1 ELSE w.odd[g]]
      /\ w2.alias = [w.alias EXCEPT ![g] = IF disk[g].alias THEN w.alias[g] + 1 ELSE w.alias[g]]
      /\ w2.glob = [w.glob EXCEPT ![g] = IF disk[g].glob /\ Opens(disk[g], t) THEN 1 ELSE w.glob[g]]
    OBVIOUS
<1>3. g \in Files /\ w.odd[g] \in Nat /\ w.alias[g] \in Nat /\ w.glob[g] \in Nat
    BY <1>1
<1>10. \A f \in Files : disk[f] # Absent =>
          w.odd[f] = OddOf(f, used) /\ w.alias[f] = AliasOf(f, used) /\ w.glob[f] = GlobOf(f, used)
    BY DEF Counted
<1>11. /\ Cardinality(Ending(used, g)) \in Nat /\ Cardinality(Ending(first, g)) \in Nat
       /\ Cardinality(Ending(InYaml(used), g)) \in Nat /\ Cardinality(Ending(InYaml(first), g)) \in Nat
    BY <1>1, EndingNat
<1>12. /\ IsFiniteSet(used \cup {c}) /\ Ending(used \cup {c}, g) = Ending(used, g) \cup {c}
       /\ Cardinality(Ending(used \cup {c}, g)) = Cardinality(Ending(used, g)) + 1
       /\ \A f : f # g => Ending(used \cup {c}, f) = Ending(used, f)
    BY <1>1, EndingFact
<1>13. /\ yaml => Cardinality(Ending(InYaml(used \cup {c}), g)) = Cardinality(Ending(InYaml(used), g)) + 1
       /\ ~yaml => InYaml(used \cup {c}) = InYaml(used)
       /\ \A f : f # g => Ending(InYaml(used \cup {c}), f) = Ending(InYaml(used), f)
    BY <1>1, YamlFact
<1> HIDE DEF g, yaml
<1>4. w2.odd \in [Files -> Nat] /\ w2.alias \in [Files -> Nat] /\ w2.glob \in [Files -> Nat]
    BY <1>1, <1>2, <1>3
<1>5. ASSUME NEW f \in Files, disk[f] # Absent
      PROVE  /\ w2.odd[f] = OddOf(f, used \cup {c}) /\ w2.alias[f] = AliasOf(f, used \cup {c})
             /\ w2.glob[f] = GlobOf(f, used \cup {c})
  <2>1. w.odd[f] = OddOf(f, used) /\ w.alias[f] = AliasOf(f, used) /\ w.glob[f] = GlobOf(f, used)
    BY <1>5, <1>10
  <2>2. CASE f # g
    <3>1. w2.odd[f] = w.odd[f] /\ w2.alias[f] = w.alias[f] /\ w2.glob[f] = w.glob[f]
        BY <1>1, <1>2, <1>3, <2>2
    <3>2. QED
        BY <1>12, <1>13, <2>1, <2>2, <3>1
  <2>3. CASE f = g
    <3>1. /\ w2.odd[f] = IF disk[f].odd /\ yaml THEN w.odd[f] + 1 ELSE w.odd[f]
          /\ w2.alias[f] = IF disk[f].alias THEN w.alias[f] + 1 ELSE w.alias[f]
          /\ w2.glob[f] = IF disk[f].glob /\ Opens(disk[f], t) THEN 1 ELSE w.glob[f]
        BY <1>1, <1>2, <1>3, <2>3
    <3>2. w2.odd[f] = OddOf(f, used \cup {c})
      <4>1. CASE yaml
        BY <1>11, <1>13, <2>1, <2>3, <3>1, <4>1
      <4>2. CASE ~yaml
        BY <1>13, <2>1, <3>1, <4>2
      <4>3. QED
        BY <4>1, <4>2
    <3>3. w2.alias[f] = AliasOf(f, used \cup {c})
      <4> DEFINE a == Cardinality(Ending(used, g))
                 b == Cardinality(Ending(first, g))
      <4>1. a \in Nat /\ b \in Nat /\ Cardinality(Ending(used \cup {c}, g)) = a + 1
        BY <1>11, <1>12
      <4>2. AliasOf(f, used \cup {c}) = IF disk[f].alias THEN Cardinality(Ending(used \cup {c}, g)) + b ELSE 0
        BY <2>3
      <4>3. w.alias[f] = IF disk[f].alias THEN a + b ELSE 0
        BY <2>1, <2>3
      <4> HIDE DEF a, b, AliasOf
      <4>4. QED
        BY <3>1, <4>1, <4>2, <4>3
    <3>4. w2.glob[f] = GlobOf(f, used \cup {c})
        BY <1>12, <2>1, <2>3, <3>1
    <3>5. QED
        BY <3>2, <3>3, <3>4
  <2>4. QED
    BY <2>2, <2>3
<1>6. QED
    BY <1>1, <1>4, <1>5, <1>12 DEF Counted

\* The two loads are counted alike.
LEMMA CountedSwap ==
    ASSUME NEW w, NEW first, NEW used, NEW t0, NEW t, Counted(w, first, used, t0, t)
    PROVE  Counted(w, used, first, t, t0)
<1>1. \A f : /\ Cardinality(Ending(first, f)) \in Nat /\ Cardinality(Ending(used, f)) \in Nat
             /\ Cardinality(Ending(InYaml(first), f)) \in Nat /\ Cardinality(Ending(InYaml(used), f)) \in Nat
    BY EndingNat DEF Counted
<1>2. \A f : /\ Cardinality(Ending(first, f)) + Cardinality(Ending(used, f)) =
                  Cardinality(Ending(used, f)) + Cardinality(Ending(first, f))
             /\ Cardinality(Ending(InYaml(first), f)) + Cardinality(Ending(InYaml(used), f)) =
                  Cardinality(Ending(InYaml(used), f)) + Cardinality(Ending(InYaml(first), f))
    BY <1>1
<1>3. QED
    BY <1>2 DEF Counted

\* The template of a load that met nothing does not matter.
LEMMA CountedNone ==
    ASSUME NEW w, NEW first, NEW t0, NEW t, NEW t2, Counted(w, first, {}, t0, t)
    PROVE  Counted(w, first, {}, t0, t2)
<1>1. \A f : Ending({}, f) = {} /\ InYaml({}) = {}
    BY DEF Ending, InYaml
<1>2. QED
    BY <1>1 DEF Counted

\* Nothing of this depends on what a step of a load or of discovery changes.
LEMMA SameCounts ==
    ASSUME UNCHANGED <<disk, opt>>
    PROVE  /\ First' = First /\ FirstTemplate' = FirstTemplate
           /\ Counted(warned, FirstMet, UsedMet, FirstTemplate, template)'
                <=> Counted(warned', FirstMet', UsedMet', FirstTemplate, template')
<1>1. FirstTemplate' = FirstTemplate
    BY DEF FirstTemplate
<1>2. First' = First
    BY <1>1 DEF First, Chains, Includes, Opens, Gate
<1>3. \A U : InYaml(U)' = InYaml(U)
    BY DEF InYaml
<1>4. \A U, f : Ending(U, f)' = Ending(U, f)
    BY DEF Ending, Last
<1>5. QED
    BY <1>1, <1>2, <1>3, <1>4 DEF Counted, Opens, Gate, Ending, InYaml, Last

\* A load follows another.
LEMMA FlowNext ==
    LoaderTypeOK /\ DiscoveryInv /\ RenderInv /\ FlowInv /\ [LoaderNext]_<<loaderVars, discoveryVars>> => FlowInv'
<1> SUFFICES ASSUME LoaderTypeOK, DiscoveryInv, RenderInv, FlowInv, [LoaderNext]_<<loaderVars, discoveryVars>>
             PROVE  FlowInv'
    OBVIOUS
<1>1. CASE Peek \/ Load
  <2>1. /\ pass' \in {"peek", "load"} /\ (quietDecode' <=> pass' = "peek")
        /\ phase' = phase /\ lpc \in {"peek", "load"} /\ opt' = opt
    BY <1>1 DEF Peek, Load, StartLoad, quietFor, discoveryVars
  <2>2. phase = "off"
    BY <2>1 DEF RenderInv
  <2>3. /\ opt.vars = BadVars => lpc' = "return" /\ answer'.err = "vars"
        /\ opt.vars # BadVars => lpc' = "merge"
    BY <1>1, FilterFact DEF Peek, Load, StartLoad, Err
  <2>4. opt.vars = BadVars => pass = "none" /\ opt.mode # "discover"
    BY <2>1 DEF FlowInv
  <2>5. QED
    BY <2>1, <2>2, <2>3, <2>4 DEF FlowInv
<1>2. CASE LoadDiscoverSpec
  <2>1. /\ pass' = "discover" /\ (quietDecode' <=> pass' = "peek")
        /\ phase' = phase /\ lpc = "discover" /\ opt' = opt /\ NewFilter(FALSE, Empty)
    BY <1>2 DEF LoadDiscoverSpec, StartLoad, quietFor, discoveryVars
  <2>2. phase = "off" /\ opt.mode = "discover"
    BY <2>1 DEF RenderInv, FlowInv
  <2>5. /\ opt.vars = BadVars => lpc' = "return" /\ answer'.err = "vars"
        /\ opt.vars # BadVars =>
             lpc' = "merge" /\ template' = [disc |-> loadVarsForTemplates(opt.vars, Empty), missingkey |-> "error"]
    <3>1. /\ opt.vars = BadVars => lpc' = "return" /\ answer' = Err("vars")
          /\ opt.vars # BadVars =>
               lpc' = "merge" /\ template' = [disc |-> loadVarsForTemplates(opt.vars, Empty),
                                            missingkey |-> IF FALSE THEN "zero" ELSE "error"]
        BY <2>1, FilterFact, Zenon
    <3>2. QED
        BY <3>1 DEF Err
  <2>3. (opt.vars # BadVars => template' = FirstTemplate) /\ FirstTemplate' = FirstTemplate
    BY <2>1, <2>5 DEF FirstTemplate, loadVarsForTemplates, Empty
  <2>4. QED
    BY <2>1, <2>2, <2>3, <2>5 DEF FlowInv
<1>3. CASE LoadSteps /\ UNCHANGED discoveryVars
  <2>1. /\ lpc = "merge" /\ lpc' \in {"merge", "return"} /\ UNCHANGED <<opt, pass, quietDecode, template, phase>>
    BY <1>3, LoadStepsFact DEF discoveryVars
  <2>2. phase = "off" /\ FirstTemplate' = FirstTemplate
    BY <2>1 DEF RenderInv, FirstTemplate
  <2>3. QED
    BY <2>1, <2>2 DEF FlowInv
<1>4. CASE Return
  <2>1. /\ lpc = "return" /\ UNCHANGED <<opt, pass, template>> /\ phase = "off"
    BY <1>4 DEF Return
  <2>2. \/ lpc' = "done" /\ phase' = phase
        \/ lpc' = "load" /\ phase' = phase /\ pass = "peek"
        \/ lpc' = "return" /\ answer' = answer /\ answer.err = "none"
    BY <1>4 DEF Return, Finished, NoSection, discoveryVars
  <2>3. FirstTemplate' = FirstTemplate
    BY <2>1 DEF FirstTemplate
  <2>5. opt.vars = BadVars => lpc' = "done" /\ answer' = answer /\ phase' = phase /\ answer.err = "vars"
    <3>1. SUFFICES ASSUME opt.vars = BadVars
                   PROVE  lpc' = "done" /\ answer' = answer /\ phase' = phase /\ answer.err = "vars"
        OBVIOUS
    <3>2. answer.err = "vars" /\ ~(pass = "peek" /\ opt.mode = "discover")
        BY <2>1, <3>1 DEF FlowInv
    <3>3. IsResult
        BY <3>2 DEF IsResult
    <3>4. QED
        BY <1>4, <3>2, <3>3 DEF Return, Finished, discoveryVars
  <2>4. QED
    BY <2>1, <2>2, <2>3, <2>5 DEF FlowInv
<1>5. CASE Discovered
  <2>1. /\ lpc = "return" /\ phase = "over" /\ phase' = "off" /\ UNCHANGED <<opt, pass, template>>
        /\ lpc' = IF opt.mode = "discover" THEN "peek" ELSE "load"
    BY <1>5 DEF Discovered, loadVars, afterDiscovery
  <2>2. FirstTemplate' = FirstTemplate
    BY <2>1 DEF FirstTemplate
  <2>3. QED
    BY <2>1, <2>2 DEF FlowInv
<1>6. CASE UNCHANGED loaderVars /\ (DiscoveryNext \/ UNCHANGED discoveryVars)
  <2>1. UNCHANGED <<lpc, pass, template, opt, quietDecode, answer>>
    BY <1>6 DEF loaderVars, loadVars
  <2>2. phase' # "off" => phase # "off"
    BY <1>6, DiscoveryMoves DEF discoveryVars
  <2>3. FirstTemplate' = FirstTemplate
    BY <2>1 DEF FirstTemplate
  <2>4. QED
    BY <2>1, <2>2, <2>3 DEF FlowInv
<1>7. QED
    BY <1>1, <1>2, <1>3, <1>4, <1>5, <1>6 DEF LoaderNext, LoaderStep

\* A load that starts has warned of nothing yet.
LEMMA WarnStart ==
    ASSUME LoaderTypeOK, RenderInv, FlowInv, WarnInv, Peek \/ LoadDiscoverSpec \/ Load
    PROVE  WarnInv'
<1>1. /\ pass' \in {"peek", "discover", "load"} /\ stack' = <<>>
      /\ UNCHANGED <<disk, opt, warned>> /\ lpc \in {"peek", "discover", "load"}
      /\ pass' = "discover" => lpc = "discover"
      /\ pass' = "load" => lpc = "load"
      /\ pass' = "peek" => lpc = "peek"
    BY DEF Peek, LoadDiscoverSpec, Load, StartLoad
<1>7. /\ opt.vars = BadVars => lpc' = "return" /\ answer'.err = "vars"
      /\ opt.vars # BadVars => lpc' = "merge"
    BY FilterFact DEF Peek, LoadDiscoverSpec, Load, StartLoad, Err
<1>8. SUFFICES ASSUME lpc' = "merge" \/ pass' = "peek" PROVE WarnInv'
    BY <1>1, <1>7 DEF WarnInv
<1>2. pass # "load"
    BY <1>1 DEF RenderInv
<1>3. Counted(warned, FirstMet, {}, FirstTemplate, template)
    BY <1>1, <1>2 DEF WarnInv, UsedMet
<1>4. UsedMet' = {} /\ FirstMet' = FirstMet
  <2>1. Reached' = {}
    BY <1>1 DEF Reached
  <2>2. UsedMet' = {}
    BY <1>1, <1>8, <2>1 DEF UsedMet
  <2>3. CASE pass' = "discover"
    <3>1. pass = "none"
        BY <1>1, <2>3 DEF FlowInv
    <3>2. QED
        BY <1>1, <1>8, <2>1, <2>2, <2>3, <3>1 DEF FirstMet
  <2>4. CASE pass' # "discover"
    <3>1. FirstMet' = First
        BY <1>1, <2>4, SameCounts DEF FirstMet
    <3>2. FirstMet = First
        BY <1>1, <2>4 DEF FirstMet, FlowInv, First
    <3>3. QED
        BY <2>2, <3>1, <3>2
  <2>5. QED
    BY <2>3, <2>4
<1>5. Counted(warned', FirstMet', UsedMet', FirstTemplate, template')
    BY <1>1, <1>3, <1>4, CountedNone
<1>6. QED
    BY <1>1, <1>5, SameCounts DEF WarnInv

\* A step of a load warns of the file it enters, unless it only peeks.
LEMMA WarnLoad ==
    ASSUME LoaderTypeOK, MergeInv, FlowInv, WarnInv, LoadSteps
    PROVE  WarnInv'
<1>1. /\ lpc = "merge" /\ UNCHANGED <<disk, opt, pass, quietDecode, template>>
    BY LoadStepsFact DEF LoadSteps, ReadRoot, Include, Merged, loadSettings
<1>2. pass \in {"peek", "load", "discover"} /\ (quietDecode <=> pass = "peek")
    BY <1>1 DEF FlowInv, LoaderTypeOK
<1>3. Counted(warned, FirstMet, UsedMet, FirstTemplate, template)
    BY <1>1 DEF WarnInv
<1>4. AllChains' = AllChains /\ First' = First
    BY <1>1, SameLoad, SameCounts
<1>5. pass = "discover" => First = AllChains /\ template = FirstTemplate
  <2>1. SUFFICES ASSUME pass = "discover" PROVE First = AllChains /\ template = FirstTemplate
    OBVIOUS
  <2>2. opt.mode = "discover" /\ template = FirstTemplate
    BY <1>1, <2>1 DEF FlowInv, LoaderTypeOK
  <2>3. QED
    BY <2>1, <2>2 DEF First, AllChains, Root
<1>6. SUFFICES (pass \in {"load", "discover"} /\ lpc' = "return" => answer'.err = "none") =>
                  Counted(warned', FirstMet', UsedMet', FirstTemplate, template)
  <2>1. lpc' \in {"merge", "return"}
    BY LoadStepsFact
  <2>2. QED
    BY <1>1, <2>1, SameCounts DEF WarnInv
<1>7. CASE Failed
    BY <1>1, <1>2, <1>3, <1>4, <1>7 DEF Failed, FirstMet, UsedMet
<1>8. CASE LoadEnded
    BY <1>1, <1>2, <1>3, <1>4, <1>5, <1>8 DEF LoadEnded, FirstMet, UsedMet
<1>9. CASE Returned
  <2>1. lpc' = "merge" /\ Reached' = Reached /\ warned' = warned
    BY <1>4, <1>9 DEF Returned, Reached
  <2>2. FirstMet' = FirstMet /\ UsedMet' = UsedMet
    BY <1>1, <1>4, <2>1 DEF FirstMet, UsedMet
  <2>3. QED
    BY <1>3, <2>1, <2>2
<1>10. CASE \E c : Entered(c)
  <2>1. PICK c : Entered(c)
    BY <1>10
  <2>2. /\ lpc' = "merge" /\ Reached' = Reached \cup {c} /\ c \notin Reached
        /\ Last(c) \in Files /\ disk[Last(c)] # Absent /\ disk[c[1]] # Absent
        /\ warned' = Warnings(Last(c), disk[Last(c)], disk[c[1]].fmt, TRUE)
    BY <1>4, <2>1 DEF Entered, Reached
  <2>3. CASE pass = "peek"
    BY <1>1, <1>2, <1>3, <1>4, <2>2, <2>3 DEF FirstMet, UsedMet, Warnings, warnGlobNoMatch, checkTopLevelKeys
  <2>4. ASSUME pass # "peek"
        PROVE  warned' = [glob |-> [warned.glob EXCEPT ![Last(c)] = IF disk[Last(c)].glob /\ Opens(disk[Last(c)], template) THEN 1 ELSE @],
                          odd |-> [warned.odd EXCEPT ![Last(c)] = IF disk[Last(c)].odd /\ disk[c[1]].fmt = "yaml" THEN @ + 1 ELSE @],
                          alias |-> [warned.alias EXCEPT ![Last(c)] = IF disk[Last(c)].alias THEN @ + 1 ELSE @]]
    <3> DEFINE f == Last(c)
               yaml == disk[c[1]].fmt = "yaml"
    <3>1. warned' = [glob |-> warnGlobNoMatch(f, disk[f]),
                     odd |-> IF yaml THEN checkTopLevelKeys(f, disk[f]) ELSE warned.odd,
                     alias |-> [warned.alias EXCEPT ![f] = IF disk[f].alias THEN @ + 1 ELSE @]]
        BY <1>2, <2>2, <2>4 DEF Warnings
    <3>2. warned.odd \in [Files -> Nat]
        BY <1>3 DEF Counted
    <3>3. (IF yaml THEN checkTopLevelKeys(f, disk[f]) ELSE warned.odd)
            = [warned.odd EXCEPT ![f] = IF disk[f].odd /\ yaml THEN @ + 1 ELSE @]
      <4> HIDE DEF yaml, f
      <4>1. CASE yaml
        BY <4>1 DEF checkTopLevelKeys
      <4>2. CASE ~yaml
        BY <3>2, <4>2
      <4>3. QED
        BY <4>1, <4>2
    <3>4. QED
        BY <3>1, <3>3 DEF warnGlobNoMatch
  <2>5. CASE pass = "load"
    <3>1. FirstMet' = FirstMet /\ UsedMet' = UsedMet \cup {c} /\ UsedMet = Reached
        BY <1>1, <1>4, <2>2, <2>5 DEF FirstMet, UsedMet
    <3>2. Counted(warned', FirstMet, UsedMet \cup {c}, FirstTemplate, template)
        BY <1>3, <2>2, <2>4, <2>5, <3>1, CountedMore
    <3>3. QED
        BY <3>1, <3>2
  <2>6. CASE pass = "discover"
    <3>1. UsedMet' = UsedMet /\ FirstMet' = FirstMet \cup {c} /\ FirstMet = Reached
        BY <1>1, <1>4, <2>2, <2>6 DEF FirstMet, UsedMet
    <3>2. Counted(warned, UsedMet, FirstMet, template, FirstTemplate)
        BY <1>3, CountedSwap
    <3>3. template = FirstTemplate
        BY <1>5, <2>6
    <3>4. Counted(warned, UsedMet, FirstMet, template, template)
        BY <3>2, <3>3
    <3>5. Counted(warned', UsedMet, FirstMet \cup {c}, template, template)
        BY <2>2, <2>4, <2>6, <3>1, <3>4, CountedMore
    <3>6. Counted(warned', FirstMet \cup {c}, UsedMet, template, template)
        BY <3>5, CountedSwap
    <3>7. QED
        BY <3>1, <3>3, <3>6
  <2>7. QED
    BY <1>2, <2>3, <2>5, <2>6
<1>11. QED
    BY <1>7, <1>8, <1>9, <1>10, LoadStepFact

\* Every step keeps the count.
LEMMA WarnNext ==
    LoaderTypeOK /\ RenderInv /\ MergeInv /\ FlowInv /\ WarnInv /\ [LoaderNext]_<<loaderVars, discoveryVars>> => WarnInv'
<1> SUFFICES ASSUME LoaderTypeOK, RenderInv, MergeInv, FlowInv, WarnInv, [LoaderNext]_<<loaderVars, discoveryVars>>
             PROVE  WarnInv'
    OBVIOUS
<1>1. CASE Return \/ Discovered
  <2>1. /\ lpc = "return" /\ lpc' # "merge" /\ UNCHANGED <<disk, opt, pass, template, stack, warned>>
    BY <1>1 DEF Return, Finished, Discovered, afterDiscovery, loadVars
  <2>2. \/ pass \in {"load", "discover"} /\ ~(lpc' \in {"return", "done"} => answer'.err = "none")
        \/ answer.err = "none" \/ pass = "peek"
    BY <1>1 DEF Return, Finished, Discovered, FlowInv, IsResult, Err, LoaderTypeOK
  <2>3. First' = First /\ AllChains' = AllChains
    BY <2>1, SameLoad, SameCounts
  <2>4. pass # "none"
    BY <2>1 DEF FlowInv
  <2>5. FirstMet' = FirstMet /\ UsedMet' = UsedMet
    BY <2>1, <2>3, <2>4 DEF FirstMet, UsedMet
  <2>6. QED
    BY <2>1, <2>2, <2>5, SameCounts DEF WarnInv
<1>2. CASE UNCHANGED loaderVars
  <2>1. UNCHANGED <<disk, opt, lpc, pass, template, stack, answer, warned>>
    BY <1>2 DEF loaderVars, loadVars
  <2>2. First' = First /\ AllChains' = AllChains /\ Reached' = Reached
    BY <2>1, SameLoad, SameCounts DEF Reached
  <2>3. FirstMet' = FirstMet /\ UsedMet' = UsedMet
    BY <2>1, <2>2 DEF FirstMet, UsedMet
  <2>4. QED
    BY <2>1, <2>3, SameCounts DEF WarnInv
<1>3. QED
    BY <1>1, <1>2, WarnStart, WarnLoad DEF LoaderNext, LoaderStep

\* In every load, the warnings printed so far are those of the chains met so far
\* by the loads that are used.
THEOREM WarnInvCorrect == AnyLoadSpec => [](FlowInv /\ WarnInv)
<1>1. AnyLoad => FlowInv
  <2> SUFFICES ASSUME AnyLoad PROVE FlowInv
    OBVIOUS
  <2>1. opt.mode \in {"plain", "discover", "format", "render"}
    BY DEF AnyLoad, CommandLines
  <2>2. /\ pass = "none" /\ phase = "off" /\ lpc \in {"discover", "peek", "load"}
        /\ (opt.mode = "discover" <=> lpc = "discover")
    BY <2>1 DEF AnyLoad, LoaderInit, DiscoveryOff
  <2>3. QED
    BY <2>2 DEF FlowInv
<1>2. AnyLoad => WarnInv
  <2> SUFFICES ASSUME AnyLoad PROVE WarnInv
    OBVIOUS
  <2>1. /\ pass = "none"
        /\ warned = [odd |-> [f \in Files |-> 0], alias |-> [f \in Files |-> 0], glob |-> [f \in Files |-> 0]]
    BY DEF AnyLoad, LoaderInit
  <2>2. FirstMet = {} /\ UsedMet = {}
    BY <2>1 DEF FirstMet, UsedMet
  <2>3. \A f : Ending({}, f) = {} /\ InYaml({}) = {}
    BY DEF Ending, InYaml
  <2>4. IsFiniteSet({}) /\ Cardinality({}) = 0
    BY FS_EmptySet
  <2>5. Counted(warned, {}, {}, FirstTemplate, template)
    BY <2>1, <2>3, <2>4 DEF Counted
  <2>6. QED
    BY <2>2, <2>5 DEF WarnInv
<1>3. AnyLoadSpec => []DiscoveryInv
    BY LoadsRunDiscovery, DiscoveryInvCorrect, PTL
<1>4. AnyLoadSpec => []FlowInv
    BY <1>1, <1>3, FlowNext, LoaderTypeCorrect, RenderInvCorrect, PTL DEF AnyLoadSpec
<1>5. QED
    BY <1>2, <1>4, WarnNext, LoaderTypeCorrect, RenderInvCorrect, AnswerInvCorrect, PTL DEF AnyLoadSpec

-----------------------------------------------------------------------------
(* Duplicate keys *)

\* The activations that hold k, m being what each one holds.
Holders(m, k) == {i \in DOMAIN m : k \in DOMAIN m[i]}

\* Of the chains met that give k, all but those an activation still holds were
\* overwritten, and reported.
Balanced(d, m, U, G) ==
    \A k \in DOMAIN d : d[k] + Cardinality(Holders(m, k)) = Cardinality(Giving(U, G, k))

Resources(st) == [i \in 1..Len(st) |-> st[i].ret.res]
SectionsOf(st) == [i \in 1..Len(st) |-> st[i].ret.section]

DupInv ==
    /\ dups.res \in [Keys -> Nat] /\ dups.section \in [DKeys -> Nat]
    /\ lpc = "merge" =>
          /\ IsFiniteSet(Reached)
          /\ Balanced(dups.res, Resources(stack), Reached, ResOf(template))
          /\ Balanced(dups.section, SectionsOf(stack), Reached, SectionOf)
    /\ lpc \in {"return", "done"} /\ answer.err = "none" =>
          Overwritten(dups.res, ResOf(template)) /\ Overwritten(dups.section, SectionOf)

\* Both sides are counts.
LEMMA HoldersFact ==
    ASSUME NEW n \in Nat, NEW m, DOMAIN m = 1..n, NEW k, NEW U, IsFiniteSet(U), NEW G
    PROVE  /\ IsFiniteSet(Holders(m, k)) /\ Cardinality(Holders(m, k)) \in Nat
           /\ IsFiniteSet(Giving(U, G, k)) /\ Cardinality(Giving(U, G, k)) \in Nat
<1>1. IsFiniteSet(1..n)
    BY FS_Interval
<1>2. Holders(m, k) \subseteq 1..n /\ Giving(U, G, k) \subseteq U
    BY DEF Holders, Giving
<1>3. QED
    BY <1>1, <1>2, FS_Subset, FS_CardinalityType

\* A file is entered: one chain more gives its keys, one activation more holds them.
LEMMA BalancedPush ==
    ASSUME NEW n \in Nat, NEW m, DOMAIN m = 1..n, NEW m2, DOMAIN m2 = 1..(n + 1),
           \A i \in 1..n : m2[i] = m[i],
           NEW U, IsFiniteSet(U), NEW c, c \notin U, NEW G, m2[n + 1] = G[Last(c)],
           NEW K, NEW d \in [K -> Nat], Balanced(d, m, U, G)
    PROVE  Balanced(d, m2, U \cup {c}, G)
<1> SUFFICES ASSUME NEW k \in K
             PROVE  d[k] + Cardinality(Holders(m2, k)) = Cardinality(Giving(U \cup {c}, G, k))
    BY DEF Balanced
<1> DEFINE H == Holders(m, k)
           V == Giving(U, G, k)
<1>1. d[k] \in Nat /\ d[k] + Cardinality(H) = Cardinality(V)
    BY DEF Balanced
<1>2. /\ IsFiniteSet(H) /\ Cardinality(H) \in Nat /\ IsFiniteSet(V) /\ Cardinality(V) \in Nat
    BY HoldersFact
<1>3. n + 1 \notin H /\ c \notin V
    BY DEF Holders, Giving
<1>4. CASE k \in DOMAIN G[Last(c)]
  <2>1. Holders(m2, k) = H \cup {n + 1} /\ Giving(U \cup {c}, G, k) = V \cup {c}
    <3>1. \A i : i \in Holders(m2, k) <=> i \in H \cup {n + 1}
        BY <1>4 DEF Holders
    <3>2. \A s : s \in Giving(U \cup {c}, G, k) <=> s \in V \cup {c}
        BY <1>4 DEF Giving
    <3>3. QED
        BY <3>1, <3>2, Zenon
  <2> HIDE DEF H, V
  <2>2. Cardinality(H \cup {n + 1}) = Cardinality(H) + 1 /\ Cardinality(V \cup {c}) = Cardinality(V) + 1
    BY <1>2, <1>3, FS_AddElement
  <2>3. /\ Cardinality(Holders(m2, k)) = Cardinality(H) + 1
        /\ Cardinality(Giving(U \cup {c}, G, k)) = Cardinality(V) + 1
    BY <2>1, <2>2, Zenon
  <2>4. QED
    BY <1>1, <1>2, <2>3
<1>5. CASE k \notin DOMAIN G[Last(c)]
  <2>1. \A i : i \in Holders(m2, k) <=> i \in H
    BY <1>5 DEF Holders
  <2>2. \A s : s \in Giving(U \cup {c}, G, k) <=> s \in V
    BY <1>5 DEF Giving
  <2>3. Holders(m2, k) = H /\ Giving(U \cup {c}, G, k) = V
    BY <2>1, <2>2, Zenon
  <2>4. QED
    BY <1>1, <2>3
<1>6. QED
    BY <1>4, <1>5

\* An activation is merged into its caller's: a key both hold is reported.
LEMMA BalancedPop ==
    ASSUME NEW n \in Nat, n > 1, NEW m, DOMAIN m = 1..n, NEW m2, DOMAIN m2 = 1..(n - 1),
           \A i \in 1..(n - 2) : m2[i] = m[i], m2[n - 1] = Override(m[n - 1], m[n]),
           NEW U, IsFiniteSet(U), NEW G,
           NEW K, NEW d \in [K -> Nat], Balanced(d, m, U, G)
    PROVE  Balanced(OneMore(d, m[n - 1], m[n]), m2, U, G)
<1> DEFINE d2 == OneMore(d, m[n - 1], m[n])
<1>1. /\ DOMAIN d2 = K
      /\ \A k \in K : d2[k] = IF k \in DOMAIN m[n - 1] /\ k \in DOMAIN m[n] THEN d[k] + 1 ELSE d[k]
    BY DEF OneMore
<1>2. DOMAIN m2[n - 1] = DOMAIN m[n - 1] \cup DOMAIN m[n]
    BY DEF Override
<1> HIDE DEF d2
<1>3. ASSUME NEW k \in K
      PROVE  d2[k] + Cardinality(Holders(m2, k)) = Cardinality(Giving(U, G, k))
  <2> DEFINE H == Holders(m, k)
             H2 == Holders(m2, k)
             R == {i \in 1..(n - 2) : k \in DOMAIN m[i]}
  <2>1. d[k] \in Nat /\ d[k] + Cardinality(H) = Cardinality(Giving(U, G, k))
    BY DEF Balanced
  <2>2. R \subseteq 1..(n - 2) /\ n - 1 \notin R /\ n \notin R /\ n - 1 # n
    OBVIOUS
  <2>3. IsFiniteSet(R) /\ Cardinality(R) \in Nat
    <3>1. n - 2 \in Int
        OBVIOUS
    <3>2. IsFiniteSet(1..(n - 2))
        BY <3>1, FS_Interval
    <3>3. QED
        BY <2>2, <3>2, FS_Subset, FS_CardinalityType
  <2>4. \A i : i \in 1..n <=> i \in 1..(n - 2) \/ i = n - 1 \/ i = n
    OBVIOUS
  <2>5. \A i : i \in 1..(n - 1) <=> i \in 1..(n - 2) \/ i = n - 1
    OBVIOUS
  <2>6. \A i : i \in H <=> i \in R \/ (i = n - 1 /\ k \in DOMAIN m[n - 1]) \/ (i = n /\ k \in DOMAIN m[n])
    BY <2>4 DEF Holders
  <2>7. \A i : i \in H2 <=> i \in R \/ (i = n - 1 /\ (k \in DOMAIN m[n - 1] \/ k \in DOMAIN m[n]))
    BY <1>2, <2>5 DEF Holders
  <2> HIDE DEF H, H2, R
  <2>8. \A x : x \notin R => Cardinality(R \cup {x}) = Cardinality(R) + 1 /\ IsFiniteSet(R \cup {x})
    BY <2>3, FS_AddElement
  <2>9. CASE k \in DOMAIN m[n - 1] /\ k \in DOMAIN m[n]
    <3>1. H = (R \cup {n - 1}) \cup {n} /\ H2 = R \cup {n - 1}
        BY <2>6, <2>7, <2>9
    <3>2. Cardinality(H) = Cardinality(H2) + 1 /\ Cardinality(H2) \in Nat
      <4>1. IsFiniteSet(H2) /\ n \notin H2 /\ H = H2 \cup {n}
        BY <2>2, <2>8, <3>1
      <4>2. QED
        BY <4>1, FS_AddElement, FS_CardinalityType
    <3>3. d2[k] = d[k] + 1
        BY <1>1, <2>9
    <3>4. QED
        BY <2>1, <3>2, <3>3 DEF H2
  <2>10. CASE ~(k \in DOMAIN m[n - 1] /\ k \in DOMAIN m[n])
    <3>1. d2[k] = d[k]
        BY <1>1, <2>10
    <3>2. CASE k \in DOMAIN m[n]
      <4>1. H = R \cup {n} /\ H2 = R \cup {n - 1}
        BY <2>6, <2>7, <2>10, <3>2
      <4>2. Cardinality(H) = Cardinality(H2)
        BY <2>2, <2>8, <4>1
      <4>3. QED
        BY <2>1, <3>1, <4>2 DEF H2
    <3>3. CASE k \notin DOMAIN m[n]
      <4>1. \A i : i \in H <=> i \in H2
        BY <2>6, <2>7, <3>3
      <4>2. H = H2
        BY <4>1, Zenon
      <4>3. QED
        BY <2>1, <3>1, <4>2 DEF H2
    <3>4. QED
        BY <3>2, <3>3
  <2>11. QED
    BY <2>9, <2>10 DEF H2
<1>4. QED
    BY <1>1, <1>3 DEF Balanced, d2

\* When the root alone is left, it holds one of the definitions of each key.
LEMMA BalancedEnd ==
    ASSUME NEW m, DOMAIN m = 1..1, NEW U, IsFiniteSet(U), NEW G, Wins(m[1], U, G),
           NEW K, NEW d \in [K -> Nat], Balanced(d, m, U, G)
    PROVE  \A k \in DOMAIN d : d[k] = IF Cardinality(Giving(U, G, k)) = 0 THEN 0 ELSE Cardinality(Giving(U, G, k)) - 1
<1> SUFFICES ASSUME NEW k \in K
             PROVE  d[k] = IF Cardinality(Giving(U, G, k)) = 0 THEN 0 ELSE Cardinality(Giving(U, G, k)) - 1
    OBVIOUS
<1> DEFINE H == Holders(m, k)
           V == Giving(U, G, k)
<1>1. d[k] \in Nat /\ d[k] + Cardinality(H) = Cardinality(V)
    BY DEF Balanced
<1>2. IsFiniteSet(V) /\ Cardinality(V) \in Nat
    BY HoldersFact
<1>3. k \in DOMAIN m[1] <=> V # {}
    BY DEF Wins, Giving
<1>4. \A i : i \in H <=> i = 1 /\ k \in DOMAIN m[1]
    BY DEF Holders
<1> HIDE DEF H, V
<1>5. CASE V = {}
  <2>1. H = {}
    BY <1>3, <1>4, <1>5
  <2>2. Cardinality(V) = 0 /\ Cardinality(H) = 0
    BY <1>5, <2>1, FS_EmptySet
  <2>3. QED
    BY <1>1, <2>2 DEF V
<1>6. CASE V # {}
  <2>1. H = {1}
    BY <1>3, <1>4, <1>6
  <2>2. Cardinality(H) = 1
    BY <2>1, FS_Singleton
  <2>3. QED
    BY <1>1, <1>2, <2>2 DEF V
<1>7. QED
    BY <1>5, <1>6

\* Neither count reads anything but its arguments.
LEMMA SameBalance ==
    /\ Balanced(dups.res, Resources(stack), Reached, ResOf(template))'
         <=> Balanced(dups'.res, Resources(stack)', Reached', ResOf(template)')
    /\ Balanced(dups.section, SectionsOf(stack), Reached, SectionOf)'
         <=> Balanced(dups'.section, SectionsOf(stack)', Reached', SectionOf')
BY DEF Balanced, Holders, Giving, Last

\* What was overwritten depends on the files and the filter alone.
LEMMA SameOverwritten ==
    ASSUME UNCHANGED <<disk, opt, pass, template, dups>>
    PROVE  /\ Overwritten(dups.res, ResOf(template))' <=> Overwritten(dups.res, ResOf(template))
           /\ Overwritten(dups.section, SectionOf)' <=> Overwritten(dups.section, SectionOf)
<1>1. AllChains' = AllChains /\ ResOf(template)' = ResOf(template) /\ SectionOf' = SectionOf
    BY SameLoad
<1>2. Chains(Root, template)' = Chains(Root, template)
    BY <1>1 DEF AllChains
<1>3. QED
    BY <1>1, <1>2 DEF Overwritten, Giving, Last

\* Nothing is overwritten before anything is met.
LEMMA DupStart ==
    ASSUME LoaderTypeOK, Peek \/ LoadDiscoverSpec \/ Load
    PROVE  DupInv'
<1>1. stack' = <<>> /\ dups' = NoDups
    BY DEF Peek, LoadDiscoverSpec, Load, StartLoad
<1>2. lpc' = "merge" \/ (lpc' = "return" /\ answer'.err # "none")
    BY FilterFact DEF Peek, LoadDiscoverSpec, Load, StartLoad, Err
<1>3. dups'.res = [k \in Keys |-> 0] /\ dups'.section = [k \in DKeys |-> 0]
    BY <1>1 DEF NoDups
<1>4. Reached' = {} /\ IsFiniteSet({}) /\ Cardinality({}) = 0
    BY <1>1, FS_EmptySet DEF Reached
<1>5. ASSUME NEW G, NEW m, DOMAIN m = {}, NEW K PROVE Balanced([k \in K |-> 0], m, {}, G)
  <2>1. \A k : Holders(m, k) = {} /\ Giving({}, G, k) = {}
    BY <1>5 DEF Holders, Giving
  <2>2. QED
    BY <1>4, <2>1 DEF Balanced
<1>6. DOMAIN Resources(stack)' = {} /\ DOMAIN SectionsOf(stack)' = {}
    BY <1>1 DEF Resources, SectionsOf
<1>7. /\ Balanced([k \in Keys |-> 0], Resources(stack)', {}, ResOf(template)')
      /\ Balanced([k \in DKeys |-> 0], SectionsOf(stack)', {}, SectionOf')
    BY <1>5, <1>6
<1>8. /\ Balanced(dups.res, Resources(stack), Reached, ResOf(template))'
      /\ Balanced(dups.section, SectionsOf(stack), Reached, SectionOf)'
    BY <1>3, <1>4, <1>7 DEF Balanced, Holders, Giving, Last
<1>9. QED
    BY <1>2, <1>3, <1>4, <1>8 DEF DupInv

\* A step of a load reports what it overwrites.
LEMMA DupLoad ==
    ASSUME LoaderTypeOK, MergeInv, DupInv, LoadSteps
    PROVE  DupInv'
<1>1. lpc = "merge" /\ UNCHANGED <<disk, opt, pass, template>>
    BY LoadStepsFact DEF LoadSteps, ReadRoot, Include, Merged, loadSettings
<1>2. /\ dups.res \in [Keys -> Nat] /\ dups.section \in [DKeys -> Nat] /\ IsFiniteSet(Reached)
      /\ Balanced(dups.res, Resources(stack), Reached, ResOf(template))
      /\ Balanced(dups.section, SectionsOf(stack), Reached, SectionOf)
    BY <1>1 DEF DupInv
<1>3. AllChains' = AllChains /\ ResOf(template)' = ResOf(template) /\ SectionOf' = SectionOf
    BY <1>1, SameLoad
<1> DEFINE n == Len(stack)
<1>4. n \in Nat
    BY DEF LoaderTypeOK
<1> HIDE DEF n
<1>5. /\ Resources(stack)' = Resources(stack') /\ SectionsOf(stack)' = SectionsOf(stack')
      /\ DOMAIN Resources(stack) = 1..n /\ DOMAIN SectionsOf(stack) = 1..n
      /\ \A i \in 1..n : Resources(stack)[i] = stack[i].ret.res /\ SectionsOf(stack)[i] = stack[i].ret.section
    BY DEF Resources, SectionsOf, n
<1>6. CASE Failed
    BY <1>2, <1>6 DEF Failed, DupInv
<1>7. CASE \E c : Entered(c)
  <2>1. PICK c : Entered(c)
    BY <1>7
  <2>2. /\ lpc' = "merge" /\ dups' = dups /\ c \notin Reached /\ Reached' = Reached \cup {c}
        /\ Grown(stack, stack', c)
    BY <1>3, <2>1 DEF Entered, Reached
  <2>3. /\ DOMAIN Resources(stack') = 1..(n + 1) /\ DOMAIN SectionsOf(stack') = 1..(n + 1)
        /\ \A i \in 1..n : /\ Resources(stack')[i] = Resources(stack)[i]
                           /\ SectionsOf(stack')[i] = SectionsOf(stack)[i]
        /\ Resources(stack')[n + 1] = ResOf(template)[Last(c)]
        /\ SectionsOf(stack')[n + 1] = SectionOf[Last(c)]
    <3>1. /\ Len(stack') = n + 1 /\ \A i \in 1..n : stack'[i].ret = stack[i].ret
          /\ stack'[n + 1].ret.res = ResOf(template)[Last(c)] /\ stack'[n + 1].ret.section = SectionOf[Last(c)]
        BY <2>2 DEF Grown, n
    <3>2. /\ DOMAIN Resources(stack') = 1..(n + 1) /\ DOMAIN SectionsOf(stack') = 1..(n + 1)
          /\ \A i \in 1..(n + 1) : Resources(stack')[i] = stack'[i].ret.res /\ SectionsOf(stack')[i] = stack'[i].ret.section
        BY <3>1 DEF Resources, SectionsOf
    <3>3. n + 1 \in 1..(n + 1) /\ \A i \in 1..n : i \in 1..(n + 1)
        BY <1>4
    <3>4. QED
        BY <1>5, <3>1, <3>2, <3>3
  <2>4. Balanced(dups.res, Resources(stack'), Reached \cup {c}, ResOf(template))
    BY <1>2, <1>4, <1>5, <2>2, <2>3, BalancedPush
  <2>5. Balanced(dups.section, SectionsOf(stack'), Reached \cup {c}, SectionOf)
    BY <1>2, <1>4, <1>5, <2>2, <2>3, BalancedPush
  <2>6. IsFiniteSet(Reached \cup {c})
    BY <1>2, FS_AddElement
  <2>7. QED
    BY <1>2, <1>3, <1>5, <2>2, <2>4, <2>5, <2>6, SameBalance DEF DupInv
<1>8. CASE Returned
  <2> DEFINE r1 == stack[n - 1].ret
             r2 == stack[n].ret
  <2>1. /\ lpc' = "merge" /\ Reached' = Reached /\ Shrunk(stack, stack', n) /\ dups' = mergeType(r1, r2)
    BY <1>3, <1>8 DEF Returned, Reached, n
  <2>2. /\ n > 1 /\ Len(stack') = n - 1 /\ \A i \in 1..(n - 2) : stack'[i].ret = stack[i].ret
        /\ stack'[n - 1].ret.res = Override(r1.res, r2.res)
        /\ stack'[n - 1].ret.section = Override(r1.section, r2.section)
    BY <2>1 DEF Shrunk, mergeSyver, Config
  <2>3. /\ dups'.res = OneMore(dups.res, r1.res, r2.res)
        /\ dups'.section = OneMore(dups.section, r1.section, r2.section)
    BY <2>1 DEF mergeType
  <2>4. dups'.res \in [Keys -> Nat] /\ dups'.section \in [DKeys -> Nat]
    BY <1>2, <2>3 DEF OneMore
  <2>5. /\ Resources(stack)[n - 1] = r1.res /\ Resources(stack)[n] = r2.res
        /\ SectionsOf(stack)[n - 1] = r1.section /\ SectionsOf(stack)[n] = r2.section
    <3>1. n - 1 \in 1..n /\ n \in 1..n
        BY <1>4, <2>2
    <3>2. QED
        BY <1>5, <3>1
  <2>6. /\ DOMAIN Resources(stack') = 1..(n - 1) /\ DOMAIN SectionsOf(stack') = 1..(n - 1)
        /\ \A i \in 1..(n - 2) : /\ Resources(stack')[i] = Resources(stack)[i]
                                 /\ SectionsOf(stack')[i] = SectionsOf(stack)[i]
        /\ Resources(stack')[n - 1] = Override(r1.res, r2.res)
        /\ SectionsOf(stack')[n - 1] = Override(r1.section, r2.section)
    <3>2. /\ DOMAIN Resources(stack') = 1..(n - 1) /\ DOMAIN SectionsOf(stack') = 1..(n - 1)
          /\ \A i \in 1..(n - 1) : Resources(stack')[i] = stack'[i].ret.res /\ SectionsOf(stack')[i] = stack'[i].ret.section
        BY <2>2 DEF Resources, SectionsOf
    <3>3. n - 1 \in 1..(n - 1) /\ \A i \in 1..(n - 2) : i \in 1..(n - 1) /\ i \in 1..n
        BY <1>4, <2>2
    <3> HIDE DEF r1, r2
    <3>4. QED
        BY <1>5, <2>2, <3>2, <3>3
  <2> HIDE DEF r1, r2
  <2>7. Balanced(dups'.res, Resources(stack'), Reached, ResOf(template))
    BY <1>2, <1>4, <1>5, <2>2, <2>3, <2>5, <2>6, BalancedPop
  <2>8. Balanced(dups'.section, SectionsOf(stack'), Reached, SectionOf)
    BY <1>2, <1>4, <1>5, <2>2, <2>3, <2>5, <2>6, BalancedPop
  <2>9. QED
    BY <1>2, <1>3, <1>5, <2>1, <2>4, <2>7, <2>8, SameBalance DEF DupInv
<1>9. CASE LoadEnded
  <2>1. /\ lpc' = "return" /\ dups' = dups /\ Reached = AllChains /\ n = 1
        /\ Wins(stack[1].ret.res, AllChains, ResOf(template)) /\ Wins(stack[1].ret.section, AllChains, SectionOf)
    BY <1>9 DEF LoadEnded, n
  <2>2. /\ DOMAIN Resources(stack) = 1..1 /\ Resources(stack)[1] = stack[1].ret.res
        /\ DOMAIN SectionsOf(stack) = 1..1 /\ SectionsOf(stack)[1] = stack[1].ret.section
    BY <1>5, <2>1
  <2>3. Overwritten(dups.res, ResOf(template))
    <3>1. \A k \in DOMAIN dups.res : dups.res[k] =
            IF Cardinality(Giving(AllChains, ResOf(template), k)) = 0 THEN 0
            ELSE Cardinality(Giving(AllChains, ResOf(template), k)) - 1
        BY <1>2, <2>1, <2>2, BalancedEnd
    <3>2. QED
        BY <3>1 DEF Overwritten, AllChains
  <2>4. Overwritten(dups.section, SectionOf)
    <3>1. \A k \in DOMAIN dups.section : dups.section[k] =
            IF Cardinality(Giving(AllChains, SectionOf, k)) = 0 THEN 0
            ELSE Cardinality(Giving(AllChains, SectionOf, k)) - 1
        BY <1>2, <2>1, <2>2, BalancedEnd
    <3>2. QED
        BY <3>1 DEF Overwritten, AllChains
  <2>5. QED
    BY <1>1, <1>2, <2>1, <2>3, <2>4, SameOverwritten DEF DupInv
<1>10. QED
    BY <1>6, <1>7, <1>8, <1>9, LoadStepFact

\* Every step keeps the balance.
LEMMA DupNext ==
    LoaderTypeOK /\ MergeInv /\ FlowInv /\ DupInv /\ [LoaderNext]_<<loaderVars, discoveryVars>> => DupInv'
<1> SUFFICES ASSUME LoaderTypeOK, MergeInv, FlowInv, DupInv, [LoaderNext]_<<loaderVars, discoveryVars>>
             PROVE  DupInv'
    OBVIOUS
<1>1. CASE Return \/ Discovered
  <2>1. /\ lpc = "return" /\ lpc' # "merge" /\ UNCHANGED <<disk, opt, pass, template, dups>>
        /\ answer'.err = "none" => answer.err = "none"
    BY <1>1 DEF Return, Finished, Discovered, afterDiscovery, loadVars, Err
  <2>2. QED
    BY <2>1, SameOverwritten DEF DupInv
<1>2. CASE UNCHANGED loaderVars
  <2>1. UNCHANGED <<disk, opt, lpc, pass, template, stack, answer, dups>>
    BY <1>2 DEF loaderVars, loadVars
  <2>2. AllChains' = AllChains /\ ResOf(template)' = ResOf(template) /\ SectionOf' = SectionOf
    BY <2>1, SameLoad
  <2>3. Reached' = Reached /\ Resources(stack)' = Resources(stack) /\ SectionsOf(stack)' = SectionsOf(stack)
    BY <2>1, <2>2 DEF Reached, Resources, SectionsOf
  <2>4. QED
    BY <2>1, <2>2, <2>3, SameOverwritten, SameBalance DEF DupInv
<1>3. QED
    BY <1>1, <1>2, DupStart, DupLoad DEF LoaderNext, LoaderStep

\* In every load, the peek too, at every step of the recursion: what was reported
\* as overwritten and what is still held make up what was met.
THEOREM DupInvCorrect == AnyLoadSpec => []DupInv
<1>1. AnyLoad => DupInv
  <2> SUFFICES ASSUME AnyLoad PROVE DupInv
    OBVIOUS
  <2>1. opt.mode \in {"plain", "discover", "format", "render"}
    BY DEF AnyLoad, CommandLines
  <2>2. lpc \in {"discover", "peek", "load"} /\ dups = NoDups
    BY <2>1 DEF AnyLoad, LoaderInit
  <2>3. QED
    BY <2>2 DEF DupInv, NoDups
<1>2. QED
    BY <1>1, DupNext, LoaderTypeCorrect, AnswerInvCorrect, WarnInvCorrect, PTL DEF AnyLoadSpec

\* However often the same file is included, and whatever was peeked at before:
\* a load that succeeds has warned about each file as often as it was loaded
\* for use, and every load of every definition that it overwrote.
THEOREM WarnsCorrect == AnyLoadSpec => []WarningsExact
<1>1. LoaderTypeOK /\ RenderInv /\ AnswerInv /\ WarnInv /\ DupInv => WarningsExact
  <2> SUFFICES ASSUME LoaderTypeOK, RenderInv, AnswerInv, WarnInv, DupInv,
                      lpc = "done", pass = "load", answer.err = "none"
               PROVE  ToldOnUse
    BY DEF WarningsExact, DupInv
  <2>5. opt.vars # BadVars
    BY DEF AnswerInv, Reference, Err
  <2>1. FirstMet = First /\ UsedMet = Chains(Spec1, TrueTemplate) /\ template = TrueTemplate
    BY <2>5 DEF FirstMet, UsedMet, AllChains, Root, RenderInv, RendersTruly
  <2>2. Counted(warned, First, Chains(Spec1, TrueTemplate), FirstTemplate, TrueTemplate)
    BY <2>1 DEF WarnInv
  <2>4. QED
    BY <2>2 DEF Counted, ToldOnUse, First, FirstTemplate
<1>2. QED
    BY <1>1, LoaderTypeCorrect, RenderInvCorrect, AnswerInvCorrect, WarnInvCorrect, DupInvCorrect, PTL

=============================================================================
