CONSTANTS
    AutoAddable = {"file", "package", "port", "process"}
    Paths = {"/b"}
    Names = {"c"}
    PortKeys = {"80"}
SPECIFICATION AddSpec
INVARIANT AutoAddKeepsGoing
