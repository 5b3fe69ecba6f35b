SPECIFICATION FairSpec
CONSTANTS
    Threads = {t1, t2}
    Backends = {b1, b2, b3, b4}
    Configs = {c1}
    Ops = {"enable", "disable", "unregister", "trigger", "stage", "network", "resolve", "status", "conflicts", "creds", "getcfg", "edit", "update", "invalidate", "cleardirty"}
    Serialized = {"enable", "trigger"}
    MaxCalls = 3
    None = None
INVARIANTS OpOnLiveBackend NoLockCycle
PROPERTY CallsReturn
