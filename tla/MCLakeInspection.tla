-------------------------- MODULE MCLakeInspection --------------------------
(* Small instances of LakeInspection.                                      *)
EXTENDS LakeInspection, FiniteSets, TLC

CONSTANTS pA, pB, pC, sShared, sA, sInit

(* Products pA and pB share a Secret; pC has one Secret, and one that its  *)
(* init job generates.                                                     *)
MCBootstrapSecrets ==
    [p \in Products |-> CASE p = pA -> <<sShared, sA>>
                          [] p = pB -> <<sShared>>
                          [] p = pC -> <<sA>>]
MCInitResources == [p \in Products |-> IF p = pC THEN <<sInit>> ELSE <<>>]

Chosen ==
    {active} \cup {product[b] : b \in Bootstraps}
             \cup {plan[u].product : u \in Unbootstraps}
Began(phase) == Cardinality({c \in DOMAIN phase : phase[c] # "idle"})
Edited(r) == Exists(r) /\ store[r].rev > 0

(* Two bootstraps of pA and pB, an unbootstrap and an inspection.          *)
Racing ==
    /\ pC \notin Chosen
    /\ Began(upc) <= 1
    /\ ran = {}
    /\ \A r \in Resources : ~Edited(r)

(* A bootstrap of pC, its init job, an edit of each object, and two        *)
(* unbootstraps.                                                           *)
Cleanup ==
    /\ Chosen \cap {pA, pB} = {}
    /\ Began(bpc) <= 1
    /\ ipc = "idle"

MCScenario == Racing \/ Cleanup

MCSymmetry ==
    Permutations(Bootstraps) \cup Permutations(Unbootstraps)
        \cup Permutations(InitJobs)
=============================================================================
