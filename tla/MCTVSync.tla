------------------------------ MODULE MCTVSync ------------------------------
(***************************************************************************)
(* Instances of TVSync for TLC.                                            *)
(***************************************************************************)
EXTENDS TVSync

\* No path contains another.
SelfCovers == {<<f, f>> : f \in Files}

\* The path of 3 is contained in that of 2, as "/b" is in "/data/b2".
NestedCovers == SelfCovers \cup {<<2, 3>>}
=============================================================================
