--------------------------- MODULE LakeInspection ---------------------------
(***************************************************************************)
(* lake status while lake bootstrap and lake unbootstrap run on the same   *)
(* namespace: what its report is worth.                                    *)
(***************************************************************************)
EXTENDS LakeCluster, LakeStatus

VARIABLES
    whole,      \* history: the Secrets inspected have existed together
    restored    \* history: Secrets created while they were inspected

inspectionVars == <<vars, statusVars, whole, restored>>

Together ==
    \A k \in 1..Len(ExpectedSecrets) : Exists(ExpectedSecrets[k])

InspectionTypeOK ==
    /\ StatusTypeOK
    /\ whole \in BOOLEAN
    /\ restored \subseteq Secrets

InspectionInit == Init /\ StatusInit /\ whole = FALSE /\ restored = {}

InspectionNext ==
    /\ \/ Next /\ UNCHANGED statusVars
       \/ StatusStep /\ UNCHANGED <<bootstrapVars, unbootstrapVars>>
    /\ whole' = (ipc' # "idle" /\ (whole \/ (ipc' = "secrets" /\ Together')))
    /\ restored' = IF ipc' = "idle" THEN {}
                   ELSE IF ipc # "secrets" THEN restored
                   ELSE restored \cup {s \in Secrets : ~Exists(s) /\ Exists(s)'}

InspectionSpec == InspectionInit /\ [][InspectionNext]_inspectionVars

-----------------------------------------------------------------------------
(* The record is written last, so a Secret that lake status does not find  *)
(* was there and has been deleted by an unbootstrap: a bootstrap under way *)
(* is never reported as a broken lake.                                     *)
MissingSecretsWereDeleted ==
    \A s \in absent : \E d \in deleted : d.res = s

(* The Secrets counted in a "bootstrapped" report existed together at one  *)
(* moment of the inspection, although they are read one by one while other *)
(* commands delete and create them.  It is pieced together only when a     *)
(* Secret of the lake that an unbootstrap had deleted was created again    *)
(* meanwhile: by no deletion, and by no bootstrap that has yet to record.  *)
BootstrappedIsASnapshot ==
    report = "bootstrapped" =>
        \/ whole
        \/ \E s \in existing \cap restored : \E d \in deleted : d.res = s

(* lake_unbootstrap.py: the state marker goes last "so a failed            *)
(* init-resource cleanup remains discoverable as a bootstrapped/partial    *)
(* lake on the next inspection": no inspection reports a clean namespace   *)
(* while a failed unbootstrap has left objects it had inspected.           *)
FailedCleanupIsDiscoverable ==
    [][report # "not_bootstrapped" /\ report' = "not_bootstrapped" =>
         \A u \in Unbootstraps : upc[u] = "failed" /\ plan[u].stateful =>
             \A r \in Resources : bound[u][r] # NoObject => store[r] # bound[u][r]
      ]_inspectionVars
=============================================================================
