--------------------------- MODULE MCLakeCluster ---------------------------
(* Small instances of LakeCluster: two products that share one Secret.     *)
EXTENDS LakeCluster, TLC

CONSTANTS pA, pB, sShared, sA, sB, sInit, cInit

MCBootstrapSecrets ==
    [p \in Products |-> IF p = pA THEN <<sShared, sA>> ELSE <<sShared, sB>>]

MCInitResources ==
    [p \in Products |-> IF p = pA THEN <<sInit, cInit>> ELSE <<cInit>>]

(* The instances meet the hypothesis of the theorems about turns.          *)
ASSUME MCKindsApart == KindsApart

MCSymmetry ==
    Permutations(Bootstraps) \cup Permutations(Unbootstraps)
=============================================================================
