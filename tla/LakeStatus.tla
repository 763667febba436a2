----------------------------- MODULE LakeStatus -----------------------------
(***************************************************************************)
(* The bootstrap half of `stelarctl lake status ENV`, one action per       *)
(* Kubernetes API call: read the state ConfigMap, then each Secret its     *)
(* fullspec calls for, and infer how far the lake is bootstrapped.  (The   *)
(* deployment half, which follows, is LakeWorkloads.)                      *)
(*                                                                         *)
(* An inspection writes nothing, so inspections do not affect one another: *)
(* one at a time is enough.                                                *)
(***************************************************************************)
EXTENDS LakeNamespace

VARIABLES
    ipc,        \* where the inspection is
    lake,       \* the fullspec it found in the state ConfigMap
    iat,        \* index of the Secret it is at
    existing,   \* Secrets it found
    absent,     \* Secrets it did not find
    report      \* the bootstrap state it reports

statusVars == <<ipc, lake, iat, existing, absent, report>>

BootstrapStates == {"bootstrapped", "partial", "not_bootstrapped", "unknown"}

StatusTypeOK ==
    /\ ipc \in {"idle", "secrets", "done"}
    /\ lake \in Products \cup {NoProduct}
    /\ ipc = "secrets" =>
         lake \in Products /\ iat \in 1..Len(BootstrapSecrets[lake])
    /\ existing \subseteq Secrets
    /\ absent \subseteq Secrets
    /\ report \in BootstrapStates \cup {"none"}

StatusInit ==
    /\ ipc = "idle"
    /\ lake = NoProduct
    /\ iat = 1
    /\ existing = {}
    /\ absent = {}
    /\ report = "none"

ExpectedSecrets == BootstrapSecrets[lake]

(* Mutant: some of the Secrets are taken for all of them.                  *)
BootstrapState_AnySecret(ex, ab) ==
    IF ex # {} THEN "bootstrapped" ELSE "not_bootstrapped"

BootstrapState(ex, ab) ==
    IF ab = {} THEN "bootstrapped"
    ELSE IF ex # {} THEN "partial" ELSE "not_bootstrapped"

-----------------------------------------------------------------------------
FindNoLake ==
    /\ ipc = "idle"
    /\ ~Exists(StateMap)
    /\ ipc' = "done"
    /\ report' = "not_bootstrapped"
    /\ UNCHANGED <<lake, iat, existing, absent, namespaceVars>>

(* Mutant: the names come from the local selection, not from the record.   *)
FindLake_LocalSelection ==
    /\ ipc = "idle"
    /\ Exists(StateMap)
    /\ lake' = active
    /\ ipc' = "secrets"
    /\ UNCHANGED <<iat, existing, absent, report, namespaceVars>>

FindLake ==
    /\ ipc = "idle"
    /\ Exists(StateMap)
    /\ lake' = store[StateMap].holds
    /\ ipc' = "secrets"
    /\ UNCHANGED <<iat, existing, absent, report, namespaceVars>>

(* Read one Secret; after the last, report.                                *)
InspectSecret ==
    LET s == ExpectedSecrets[iat] IN
    /\ ipc = "secrets"
    /\ existing' = (IF Exists(s) THEN existing \cup {s} ELSE existing)
    /\ absent' = (IF Exists(s) THEN absent ELSE absent \cup {s})
    /\ \/ /\ iat < Len(ExpectedSecrets)
          /\ iat' = iat + 1
          /\ UNCHANGED <<ipc, report>>
       \/ /\ iat = Len(ExpectedSecrets)
          /\ report' = BootstrapState(existing', absent')
          /\ ipc' = "done"
          /\ UNCHANGED iat
    /\ UNCHANGED <<lake, namespaceVars>>

(* 403, or any answer but 404, ends the reads.                             *)
InspectRefused ==
    /\ ipc = "secrets"
    /\ report' = "unknown"
    /\ ipc' = "done"
    /\ UNCHANGED <<lake, iat, existing, absent, namespaceVars>>

(* The state ConfigMap cannot be read, or does not hold a valid fullspec.  *)
InspectFails ==
    /\ ipc = "idle"
    /\ ipc' = "done"
    /\ UNCHANGED <<lake, iat, existing, absent, report, namespaceVars>>

(* The next invocation starts from nothing.                                *)
InspectAgain ==
    /\ ipc = "done"
    /\ ipc' = "idle"
    /\ lake' = NoProduct
    /\ iat' = 1
    /\ existing' = {}
    /\ absent' = {}
    /\ report' = "none"
    /\ UNCHANGED namespaceVars

StatusStep ==
    \/ FindNoLake
    \/ FindLake
    \/ InspectSecret
    \/ InspectRefused
    \/ InspectFails
    \/ InspectAgain
=============================================================================
