SPECIFICATION SnapSpec
CONSTANTS
    ProcessChecks = {p1, p2}
    PortChecks = {s1}
    Executables = {sshd}
    Sockets = {tcp22}
    UnknownNetwork = tpc22
INVARIANTS
    ProcessPassIsReal
