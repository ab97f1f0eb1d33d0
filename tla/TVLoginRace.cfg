SPECIFICATION BoxSpec
CONSTANTS
    Devices = {d1}
    Users = {u1}
    Threads = {t1, t2}
    Activities = {a1, a2}
    Ops = {"register", "login", "active"}
    NewStatuses = {"approve"}
    MaxRequests = 5
    MaxFaults = 1
    MaxOpens = 3
INVARIANTS BoxTypeOK SavedTokenRegistered
PROPERTIES TokenOpens
