SPECIFICATION Spec
CONSTANTS
    Devices = {d1}
    Users = {u1}
    Threads = {t1, t2}
    Ops = {"register", "login", "active", "bind", "cancel", "update"}
    NewStatuses = {"approve"}
    MaxRequests = 5
    MaxFaults = 1
INVARIANTS TypeOK BindingsNamed ToldTokensStored
