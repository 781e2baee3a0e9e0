CONSTANTS
    Timeout = 2
    HelperTimeout = 2
    HelperIOGrace = 1
    Horizon = 6
    ServiceBackends = {"init", "systemd", "systemdlegacy", "upstart", "windows"}
    PackageBackends = {"dpkg", "apk", "rpm", "pacman", "null"}
    Tables = {"user", "group", "interface", "registry", "file", "kernelparam", "addr"}
    Getters = {"Exists", "Enabled", "Running", "Masked", "RunLevels", "Attribute", "Installed", "Versions", "Owner"}
    LookupTimeout = 3
    MaxAttempts = 3
    MaxCalls = 2
    LookupHorizon = 8
    ProcessChecks = {p1, p2}
    PortChecks = {s1, s2}
    Executables = {sshd}
    Sockets = {tcp22}
    UnknownNetwork = tpc22
SPECIFICATION Spec
INVARIANTS
    KillsExactly
    RepliesAreLearned
    BoundedReturn
    CleanIsReal
    HandleClosedOnce
    WithinBudget
    SettledByAnAnswer
    OneSnapshot
    PortPassIsReal
PROPERTIES
    EveryLookupReturns
