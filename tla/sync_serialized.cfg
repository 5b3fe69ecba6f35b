SPECIFICATION Spec
CONSTANTS
    Threads = {t1, t2, t3}
    Backends = {b1, b2, b3}
    Configs = {c1, c2}
    Ops = {"enable", "disable", "unregister", "trigger", "stage", "network", "resolve", "status", "conflicts", "creds", "getcfg", "edit", "update"}
    Serialized <- AllSerialized
    MaxCalls = 5
    None = None
SYMMETRY Symmetry
INVARIANTS  RegisteredTogether EditsStayDirty TokenReachesPhase
