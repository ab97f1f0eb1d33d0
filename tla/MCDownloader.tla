---------------------------- MODULE MCDownloader ----------------------------
(***************************************************************************)
(* Small instances of Downloader: two peers, two or three chunks.          *)
(***************************************************************************)
EXTENDS Downloader

CONSTANTS p1, p2

TwoPeers == {p1, p2}
HasAll == [p \in TwoPeers |-> Chunks]
\* the second peer has the first chunk only
HasFirst == [p \in TwoPeers |-> IF p = p1 THEN Chunks ELSE {0}]
=============================================================================
