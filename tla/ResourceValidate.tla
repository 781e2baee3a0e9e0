-------------------------- MODULE ResourceValidate --------------------------
(***************************************************************************)
(* Validating one resource (resource/*.go): its attributes are judged in a *)
(* fixed order, each by ValidateValue, and the first may decide that the   *)
(* others are skipped.  What the worker sends is the group of results that *)
(* ValidateSafe returns, skip reasons filled in and a panic turned into a  *)
(* failure.                                                                *)
(*                                                                         *)
(* The types differ in what they do with the first attribute:              *)
(*   promotes   it always reports, and if it did not pass, or found false, *)
(*              the others are skipped                                     *)
(*   reports    it always reports, and the others run whatever it says     *)
(*   optional   it is an attribute like the others                         *)
(***************************************************************************)
EXTENDS Matchers

-----------------------------------------------------------------------------
(* Validate of each type: the attributes in the order they are judged, and *)
(* those whose expectation is first converted by deprecateAtoI             *)

Type(first, props, atoi) == [first |-> first, props |-> props, atoi |-> atoi]

File ==
    Type("promotes",
         <<"exists", "mode", "owner", "uid", "group", "gid", "acl", "acl-sid", "linkedto",
           "filetype", "contains", "contents", "size", "md5", "sha256", "sha512">>, {})
Mount == Type("promotes", <<"exists", "opts", "vfs-opts", "source", "filesystem", "usage">>, {})
HTTP == Type("promotes", <<"status", "Headers", "Body">>, {})
User == Type("promotes", <<"exists", "uid", "gid", "home", "groups", "shell">>, {"uid", "gid"})
Registry == Type("promotes", <<"exists", "value", "type">>, {})
DNS == Type("promotes", <<"resolvable", "addrs">>, {})
Interface == Type("promotes", <<"exists", "addrs", "mtu">>, {})
Port == Type("promotes", <<"listening", "ip", "pid">>, {})
Process == Type("promotes", <<"running", "status", "user">>, {})
Package == Type("promotes", <<"installed", "version">>, {})
Group == Type("promotes", <<"exists", "gid">>, {"gid"})
Service ==
    Type("optional",
         <<"enabled", "running", "runlevels", "masked", "start-type", "delayed-start",
           "run-as", "dependencies", "display-name", "pid">>, {})
Command == Type("reports", <<"exit-status", "stdout", "stderr">>, {"exit-status"})
Addr == Type("reports", <<"reachable">>, {})
KernelParam == Type("reports", <<"value">>, {})
Matching == Type("reports", <<"matches">>, {})

Types ==
    {File, Mount, HTTP, User, Registry, DNS, Interface, Port, Process, Package, Group,
     Service, Command, Addr, KernelParam, Matching}

-----------------------------------------------------------------------------
\* An attribute: the expectation, whether it is a string that is no number,
\* which deprecateAtoI panics on, what the getter does, and whether the
\* value it finds is the boolean false or one JSON cannot represent.
Attribute(want, atoi, get, isFalse, json) ==
    [want |-> want, atoi |-> atoi, get |-> get, isFalse |-> isFalse, json |-> json]

\* isSet: an absent attribute and an empty list expect nothing.
isSet(a) == a.want.k \notin {"missing", "emptylist"}

-----------------------------------------------------------------------------
NoReason == ""      \* the reason is not filled in

Result(prop, a, result, err) ==
    [prop |-> prop, result |-> result, err |-> err, reason |-> NoReason,
     actualFalse |-> a.isFalse /\ result = "SUCCESS", json |-> a.json]

skipResult(prop, a) == [Result(prop, a, "SKIP", FALSE) EXCEPT !.json = "plain"]

\* ValidateValue and ValidateGomegaValue: the getter runs, then the matcher is
\* built, then it judges; an error of any of the three fails the check.
ValidateValue(prop, a, skip) ==
    IF skip THEN skipResult(prop, a)
    ELSE IF a.get = "err" \/ ~Built(a.want)
         THEN [Result(prop, a, "FAIL", TRUE) EXCEPT !.json = "plain"]
    ELSE LET m == Match(a.want)
         IN  Result(prop, a, IF m.ok THEN "SUCCESS" ELSE "FAIL", m.err)

shouldSkip(first) ==
    first.err \/ first.result # "SUCCESS" \/ first.actualFalse

\* The attributes that report: the mandatory first one, and those that are set.
Reporting(r) ==
    {i \in DOMAIN r.attrs : isSet(r.attrs[i]) \/ (i = 1 /\ r.type.first # "optional")}

Skipped(r, i) ==
    \/ r.skip
    \/ /\ r.type.first = "promotes" /\ i > 1
       /\ shouldSkip(ValidateValue(1, r.attrs[1], r.skip))

\* deprecateAtoI converts the expectation before ValidateValue is called, so
\* it panics for a skipped check too.
Panics(r) ==
    \E i \in Reporting(r) :
        \/ r.attrs[i].atoi /\ r.type.props[i] \in r.type.atoi
        \/ (r.attrs[i].get = "panic" /\ ~Skipped(r, i))

\* The k-th of the reporting attributes.
Reports(r, k) ==
    CHOOSE i \in Reporting(r) : Cardinality({j \in Reporting(r) : j < i}) = k - 1

\* Validate: the results of the reporting attributes, in order.
Validated(r) ==
    [k \in 1..Cardinality(Reporting(r)) |->
        ValidateValue(Reports(r, k), r.attrs[Reports(r, k)], Skipped(r, Reports(r, k)))]

-----------------------------------------------------------------------------
promotedSkipReasonFailed(first) ==
    IF first.err \/ first.result # "SUCCESS" THEN "did not pass" ELSE NoReason

promotedSkipReason(first) ==
    IF first.err \/ first.result # "SUCCESS" THEN "did not pass"
    ELSE IF first.actualFalse THEN "is false" ELSE NoReason

annotateSkipReasons(r, results) ==
    IF results = <<>> THEN results
    ELSE LET reason == IF results[1].result = "SKIP" THEN r.skipReason
                       ELSE promotedSkipReason(results[1])
         IN  [k \in DOMAIN results |->
                 IF results[k].result = "SKIP" THEN [results[k] EXCEPT !.reason = reason]
                 ELSE results[k]]

\* ValidateSafe recovers a panic into one failing result.
panicResults ==
    <<[prop |-> 0, result |-> "FAIL", err |-> TRUE, reason |-> NoReason,
       actualFalse |-> FALSE, json |-> "plain"]>>

ValidateSafe(r) ==
    IF Panics(r) THEN panicResults ELSE annotateSkipReasons(r, Validated(r))

=============================================================================
