----------------------------- MODULE DriveTable -----------------------------
(***************************************************************************)
(* What the file table promises whatever requests race on it: rows are     *)
(* only ever added, one at a time, beneath a row that is already there and *)
(* after their content is on the disk; where a row hangs, whose it is and  *)
(* which content it names never change, only its name and its status do.   *)
(***************************************************************************)
EXTENDS Naturals, Sequences

CONSTANTS Users, Seed

VARIABLES
    files,  \* rows, in the order they were added
    blobs   \* contents on the disk, numbered in the order they were written

vars == <<files, blobs>>

Init == files = Seed /\ blobs = Len(Seed)

StoreContent == blobs' = blobs + 1 /\ UNCHANGED files

AddRow ==
    /\ Len(files') = Len(files) + 1
    /\ \A f \in DOMAIN files : files'[f] = files[f]
    /\ LET row == files'[Len(files')]
       IN  /\ row.user \in Users
           /\ row.folder \in 0..Len(files)
           /\ row.status = "normal"
           /\ row.type = "file" => row.blob \in 1..blobs
    /\ UNCHANGED blobs

\* Only the name and the status of one row change.
Relabel ==
    \E f \in DOMAIN files :
        /\ files' = [files EXCEPT ![f].name = files'[f].name, ![f].status = files'[f].status]
        /\ UNCHANGED blobs

Next == StoreContent \/ AddRow \/ Relabel

Spec == Init /\ [][Next]_vars

=============================================================================
