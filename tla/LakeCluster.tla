---------------------------- MODULE LakeCluster ----------------------------
(***************************************************************************)
(* Any number of lake bootstrap and lake unbootstrap commands against one  *)
(* namespace, with the init jobs, edits and product switches that go on    *)
(* beside them, and what the state ConfigMap must mean throughout.         *)
(***************************************************************************)
EXTENDS LakeBootstrap, LakeUnbootstrap

CONSTANT Serial    \* TRUE: operators run one command at a time

ASSUME SerialAssumption == Serial \in BOOLEAN

(* No product names a bootstrap Secret what an init job of this or another *)
(* product calls its own.  The default names are apart; custom ones need   *)
(* not be.  The theorems that need it name it as a hypothesis.             *)
KindsApart ==
    \A p, q \in Products :
        \A j \in 1..Len(BootstrapSecrets[p]), k \in 1..Len(InitResources[q]) :
            BootstrapSecrets[p][j] # InitResources[q][k]

vars == <<namespaceVars, bootstrapVars, unbootstrapVars>>

TypeOK == NamespaceTypeOK /\ BootstrapTypeOK /\ UnbootstrapTypeOK

Init == NamespaceInit /\ BootstrapInit /\ UnbootstrapInit

MayBegin ==
    Serial => /\ \A b \in Bootstraps : ~Bootstrapping(b)
              /\ \A u \in Unbootstraps : ~Unbootstrapping(u)

BootstrapStep(b) ==
    /\ \/ MayBegin /\ BeginBootstrap(b)
       \/ ContinueBootstrap(b)
       \/ FailBootstrap(b)
    /\ UNCHANGED unbootstrapVars

UnbootstrapStep(u) ==
    /\ \/ MayBegin /\ BeginUnbootstrap(u)
       \/ ContinueUnbootstrap(u)
       \/ FailUnbootstrap(u)
    /\ UNCHANGED bootstrapVars

EnvironmentStep ==
    NamespaceStep /\ UNCHANGED <<bootstrapVars, unbootstrapVars>>

Next ==
    \/ \E b \in Bootstraps : BootstrapStep(b)
    \/ \E u \in Unbootstraps : UnbootstrapStep(u)
    \/ EnvironmentStep

Spec == Init /\ [][Next]_vars

-----------------------------------------------------------------------------
(* Object r was created by i and is still there, or stelarctl deleted it.  *)
Made(r, i) ==
    \/ Exists(r) /\ store[r].by = i
    \/ \E d \in deleted : d.res = r /\ d.by = i

(* r exists, or existed until stelarctl deleted it.                        *)
Accounted(r) == Exists(r) \/ \E d \in deleted : d.res = r

(* docs/stelarctl.md: the state ConfigMap "is created only after bootstrap *)
(* Secrets are successfully applied": whatever the interleaving, the lake  *)
(* it records has every one of its Secrets, save those an unbootstrap has  *)
(* since deleted.                                                          *)
RecordedLakeIsComplete ==
    Exists(StateMap) =>
        \A k \in 1..Len(BootstrapSecrets[store[StateMap].holds]) :
            Accounted(BootstrapSecrets[store[StateMap].holds][k])

(* A bootstrap that could not read Secrets records a lake only if it made  *)
(* every Secret of it: a record never covers another bootstrap's values.   *)
BlindRecordIsOwn ==
    \A b \in Bootstraps :
        Made(StateMap, b) /\ mode[b] = "blind" =>
            \A k \in 1..Len(Names(b)) : Made(Names(b)[k], b)

(* The same holds in either mode when operators run one command at a time, *)
(* crashes, lost answers and leftovers included.                           *)
SerialRecordIsOwn ==
    Serial =>
        \A b \in Bootstraps :
            Made(StateMap, b) =>
                \A k \in 1..Len(Names(b)) : Made(Names(b)[k], b)

(* A bootstrap that reported success keeps its record until an unbootstrap *)
(* deletes it: no rival command overwrites or loses it.                    *)
SuccessIsRecorded ==
    \A b \in Bootstraps : bpc[b] = "done" => Made(StateMap, b)

(* The state marker goes last: once a command has deleted it, no object    *)
(* the preflight of that command had read is left behind.                  *)
MarkerDeletedLast ==
    \A d \in deleted :
        d.res = StateMap =>
            \A r \in Resources :
                bound[d.via][r] # NoObject => store[r] # bound[d.via][r]

(* Only a command whose preflight is over removes objects, and only the    *)
(* very object its preflight read: one edited or replaced since survives.  *)
OnlyInspectedObjectsGo ==
    [][\A r \in Resources :
         Exists(r) /\ store'[r] = NoObject =>
             \E u \in Unbootstraps : upc[u] = "delete" /\ bound[u][r] = store[r]]_vars

(* With operators taking turns, an unbootstrap that reports success leaves *)
(* none of the bootstrap Secrets it planned for, and no state ConfigMap:   *)
(* the bootstrap that follows is not refused.                              *)
SerialCleanupIsComplete ==
    [][\A u \in Unbootstraps :
         Serial /\ upc[u] # "done" /\ upc'[u] = "done" =>
             /\ store'[StateMap] = NoObject
             /\ \A k \in 1..Len(BootstrapSecrets[plan[u].product]) :
                  store'[BootstrapSecrets[plan[u].product][k]] = NoObject]_vars

(* docs/stelarctl.md, lake unbootstrap: "deletes bootstrap and             *)
(* init-generated resources derived from the fullspec stored in            *)
(* stelar-lake-state, then deletes the state ConfigMap": when operators    *)
(* take turns, a lake whose record was deleted has none of its bootstrap   *)
(* Secrets left, whatever product they have switched to in between and     *)
(* however often a command fails halfway.                                  *)
SerialLakeIsErasedWhole == Serial =>
    \A b \in Bootstraps :
        (\E d \in deleted : d.res = StateMap /\ d.by = b) =>
            \A k \in 1..Len(Names(b)) :
                ~(Exists(Names(b)[k]) /\ store[Names(b)[k]].by = b)

(* docs/stelarctl_failure_cases.md, lake bootstrap: "Fails on Secret       *)
(* creation conflicts [...] before recording ConfigMap state."             *)
ConflictStopsBootstrap ==
    [][\A b \in Bootstraps :
         bpc[b] = "create" /\ Exists(Current(b)) /\ bpc'[b] # bpc[b]
             => bpc'[b] = "failed"]_vars

-----------------------------------------------------------------------------
(* The abstract record is the identity and content of the state ConfigMap; *)
(* edits of it, Secrets and every other call are invisible.                *)
AbstractRecord ==
    IF Exists(StateMap)
    THEN [by |-> store[StateMap].by, holds |-> store[StateMap].holds]
    ELSE NoObject

AbstractOutcome ==
    [b \in Bootstraps |->
        IF bpc[b] = "done" THEN "success"
        ELSE IF bpc[b] = "failed" THEN "failure" ELSE "pending"]

LakeRecord == INSTANCE LakeRecord WITH
    record <- AbstractRecord, outcome <- AbstractOutcome, NoRecord <- NoObject

(* The commands keep the promises of LakeRecord.                           *)
ImplementsLakeRecord == LakeRecord!Spec
=============================================================================
