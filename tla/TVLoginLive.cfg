SPECIFICATION BoxFairSpec
CONSTANTS
    Devices = {d1, d2}
    Users = {u1}
    Threads = {t1, t2}
    Activities = {a1}
    Ops = {"register", "login"}
    NewStatuses = {"approve"}
    MaxRequests = 6
    MaxFaults = 1
    MaxOpens = 3
INVARIANTS DevicesUnique TokenKept
PROPERTIES LoginsEnd
