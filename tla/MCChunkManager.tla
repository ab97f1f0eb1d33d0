--------------------------- MODULE MCChunkManager ---------------------------
(***************************************************************************)
(* Torrents of three chunks for ChunkManager.                              *)
(***************************************************************************)
EXTENDS ChunkManager

F(first, last) == [first |-> first, last |-> last, media |-> FALSE]
M(first, last) == [first |-> first, last |-> last, media |-> TRUE]

\* A film, its preview inside it, that shares its first or its last chunk
Films == {<<F(0, 0), M(0, 2)>>, <<M(0, 2), F(2, 2)>>}

\* The last chunk is shared by three files, two of them inside it
Shared == {<<F(0, 2), F(2, 2), F(2, 2)>>}

FilmsAndShared == Films \cup Shared

\* The second file starts in a chunk the first one needs and ends in the next
TwoChunkFile == {<<F(0, 1), F(1, 2), F(2, 2)>>}
=============================================================================
