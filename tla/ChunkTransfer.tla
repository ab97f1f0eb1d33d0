--------------------------- MODULE ChunkTransfer ---------------------------
(***************************************************************************)
(* What downloading promises: pieces of chunks are written in any order,   *)
(* wrong ones among them; a chunk is taken only when all its pieces are    *)
(* right, and from then on it is neither written nor lost.  Downloader     *)
(* implements this.                                                        *)
(***************************************************************************)
CONSTANTS Chunks, Pieces

VARIABLES
    have,   \* the chunks that are offered to others
    disk    \* what is stored of every piece: "none", "good" or "bad"

vars == <<have, disk>>

Content == {"none", "good", "bad"}
Whole(c) == \A i \in Pieces : disk[c][i] = "good"

Init == have = {} /\ disk \in [Chunks -> [Pieces -> Content]]

\* A piece of a missing chunk is written; with it the chunk may be whole
Write(c, i) ==
    /\ c \notin have
    /\ \E q \in Content \ {"none"} : disk' = [disk EXCEPT ![c][i] = q]
    /\ have' \in {have} \cup {h \in {have \cup {c}} : Whole(c)'}

Next == \E c \in Chunks, i \in Pieces : Write(c, i)

Spec == Init /\ [][Next]_vars
=============================================================================
