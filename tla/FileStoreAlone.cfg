SPECIFICATION Spec
CONSTANTS
    u1 = u1
    u2 = u2
    n1 = n1
    n2 = n2
    t1 = t1
    t2 = t2
    Users = {u1}
    NoUser = NoUser
    Threads = {t1}
    Names = {n1, n2}
    Ops = {"create_folder", "upload", "delete", "recover", "rename"}
    RemoveSource = {"true", "false", "other"}
    MaxRequests = 3
    MaxList = 1
    MaxFaults = 0
    Seed <- SmallTree
INVARIANTS
    RootNamesUnique
PROPERTIES
    SubtreeDeleted
    OnlyRecoverRevives
