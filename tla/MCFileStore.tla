----------------------------- MODULE MCFileStore -----------------------------
(* Instances of FileStore for TLC.                                          *)
EXTENDS FileStore

CONSTANTS u1, u2, n1, n2, t1, t2

Dir(u, parent, n) == [user |-> u, folder |-> parent, name |-> <<n>>, type |-> "folder",
                      status |-> "normal", blob |-> 0]
Doc(u, parent, n, b) == [user |-> u, folder |-> parent, name |-> <<n>>, type |-> "file",
                         status |-> "normal", blob |-> b]

\* A folder of u1 holding a file and a folder that holds a file
SmallTree == << Dir(u1, 0, n1), Doc(u1, 1, n1, 2), Dir(u1, 1, n2), Doc(u1, 3, n1, 4) >>

\* A folder of u1 holding a file of its own and one that u2 put there
SharedTree == << Dir(u1, 0, n1), Doc(u1, 1, n1, 2), Doc(u2, 1, n1, 3) >>
=============================================================================
