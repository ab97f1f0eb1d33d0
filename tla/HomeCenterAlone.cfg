SPECIFICATION Spec
CONSTANTS
    Devices = {d1, d2}
    Users = {u1}
    Threads = {t1}
    Ops = {"register", "active", "bind", "cancel", "update"}
    NewStatuses = {"approve"}
    MaxRequests = 6
    MaxFaults = 1
INVARIANTS BindingsUnique
