--------------------------- MODULE MCLakeWorkspace ---------------------------
(* Small instances of LakeWorkspace.                                       *)
EXTENDS LakeWorkspace, TLC

CONSTANTS klms, libs, other, main, pinned

MCTemplate == {[source |-> klms, version |-> main], [source |-> libs, version |-> main]}
MCSymmetry == Permutations(Inits)
=============================================================================
