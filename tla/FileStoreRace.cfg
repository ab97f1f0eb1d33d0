SPECIFICATION FairSpec
CONSTANTS
    u1 = u1
    u2 = u2
    n1 = n1
    n2 = n2
    t1 = t1
    t2 = t2
    Users = {u1, u2}
    NoUser = NoUser
    Threads = {t1, t2}
    Names = {n1}
    Ops = {"create_folder", "upload", "delete", "recover", "rename", "move"}
    RemoveSource = {"true", "false"}
    MaxRequests = 2
    MaxList = 2
    MaxFaults = 1
    Seed <- SharedTree
INVARIANTS
    TypeOK
    CopiesAgree
    FilesHaveBlobs
    OrphansOnlyFromFaults
PROPERTIES
    OnlyOwnRows
    TablePromise
    RequestsEnd
