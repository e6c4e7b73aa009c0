--------------------------- MODULE MCVersionIndex ---------------------------
(***************************************************************************)
(* Three versions of which the highest is a beta, one row id to spare so   *)
(* that a re-indexed version can get a fresh id or its old one, and two    *)
(* downloads.  The downloads are interchangeable.                          *)
(***************************************************************************)
EXTENDS VersionIndex, TLC

CONSTANTS d1, d2

MCBeta == {3}
MCRowId == 1..4
MCDownload == {d1, d2}
MCSymmetry == Permutations(MCDownload)

\* The version column of an id not in use never matters: fix it.
MCInit == Init /\ versionOf = [i \in RowId |-> 1]
MCSpec == MCInit /\ [][Next]_vars
=============================================================================
