------------------------ MODULE LakeWorkspaceProofs ------------------------
(***************************************************************************)
(* Proofs about LakeWorkspace, for any sources, versions, template and     *)
(* number of invocations.                                                  *)
(***************************************************************************)
EXTENDS LakeWorkspace, TLAPS

(* Every variable has its type in every reachable state.                   *)
THEOREM WorkspaceType == WorkspaceSpec => []WorkspaceTypeOK
<1>1. WorkspaceInit => WorkspaceTypeOK
  BY WorkspaceAssumption DEF WorkspaceInit, WorkspaceTypeOK, Files, Absent, Manifest
<1>2. WorkspaceTypeOK /\ [WorkspaceNext]_workspaceVars => WorkspaceTypeOK'
  <2> SUFFICES ASSUME WorkspaceTypeOK, [WorkspaceNext]_workspaceVars
               PROVE  WorkspaceTypeOK'
    OBVIOUS
  <2> USE DEF WorkspaceTypeOK
  <2>1. ASSUME NEW i \in Inits, Start(i)
        PROVE  WorkspaceTypeOK'
    BY <2>1, WorkspaceAssumption DEF Start, Goto, Files
  <2>2. ASSUME NEW i \in Inits, UseTemplate(i)
        PROVE  WorkspaceTypeOK'
    BY <2>2, WorkspaceAssumption DEF UseTemplate, Goto
  <2>3. ASSUME NEW i \in Inits, ReadFile(i)
        PROVE  WorkspaceTypeOK'
    <3>1. Merged(file.deps) \in SUBSET Dependencies
      BY WorkspaceAssumption DEF Merged, Missing, Files
    <3> QED
      BY <2>3, <3>1 DEF ReadFile, Goto
  <2>4. ASSUME NEW i \in Inits, Truncate(i)
        PROVE  WorkspaceTypeOK'
    BY <2>4 DEF Truncate, Goto, Files, Broken
  <2>5. ASSUME NEW i \in Inits, Fill(i)
        PROVE  WorkspaceTypeOK'
    BY <2>5 DEF Fill, Goto, Files, Manifest
  <2>6. ASSUME NEW i \in Inits, Die(i)
        PROVE  WorkspaceTypeOK'
    BY <2>6 DEF Die, Goto
  <2>7. ASSUME NEW d \in Dependencies, Edit(d)
        PROVE  WorkspaceTypeOK'
    BY <2>7, WorkspaceAssumption DEF Edit, Files, Manifest
  <2>8. CASE UNCHANGED workspaceVars
    BY <2>8 DEF workspaceVars
  <2> QED
    BY <2>1, <2>2, <2>3, <2>4, <2>5, <2>6, <2>7, <2>8 DEF WorkspaceNext
<1> QED
  BY <1>1, <1>2, PTL DEF WorkspaceSpec

-----------------------------------------------------------------------------
(* What a command is going to write is fit to replace what was there.      *)
Fit(i) ==
    i \notin forced => before[i] \subseteq text[i]
                       /\ SourcesOf(Template) \subseteq SourcesOf(text[i])

(* The inductive invariant: one command at a time, the file as it found    *)
(* it until it writes, one version of each source in every text.           *)
SerialInv ==
    /\ WorkspaceTypeOK
    /\ \A i, j \in Inits : Running(i) /\ Running(j) => i = j
    /\ Pinned(file.deps)
    /\ \A i \in Inits :
         /\ pc[i] = "started" => before[i] = file.deps
         /\ pc[i] \in {"write", "fill"} => Fit(i) /\ Pinned(text[i])

LEMMA MergeIsFit ==
    ASSUME NEW deps \in SUBSET Dependencies, Pinned(deps)
    PROVE  /\ deps \subseteq Merged(deps)
           /\ SourcesOf(Template) \subseteq SourcesOf(Merged(deps))
           /\ Pinned(Merged(deps))
<1>1. deps \subseteq Merged(deps)
  BY DEF Merged
<1>2. SourcesOf(Template) \subseteq SourcesOf(Merged(deps))
  BY DEF Merged, Missing, SourcesOf
<1>3. Pinned(Merged(deps))
  BY WorkspaceAssumption DEF Merged, Missing, SourcesOf, Pinned
<1> QED
  BY <1>1, <1>2, <1>3

LEMMA NothingMissing ==
    ASSUME NEW deps, Missing(deps) = {}
    PROVE  SourcesOf(Template) \subseteq SourcesOf(deps)
  BY DEF Missing, SourcesOf

LEMMA SerialStep ==
    ASSUME ~Racing, SerialInv, [WorkspaceNext]_workspaceVars, WorkspaceTypeOK'
    PROVE  SerialInv'
<1> USE DEF SerialInv, Fit, Running
<1>1. ASSUME NEW i \in Inits, Start(i)
      PROVE  SerialInv'
  <2>1. \A j \in Inits : ~Running(j)
    BY <1>1 DEF Start, Alone
  <2>2. file' = file /\ before' = [before EXCEPT ![i] = file.deps]
    BY <1>1 DEF Start
  <2>3. \E where \in {"started", "failed"} : pc' = [pc EXCEPT ![i] = where]
    BY <1>1 DEF Start, Goto
  <2>4. \A j \in Inits : j # i => pc'[j] = pc[j]
    BY <2>3 DEF WorkspaceTypeOK
  <2>5. pc'[i] \in {"started", "failed"} /\ before'[i] = file.deps
    BY <2>2, <2>3 DEF WorkspaceTypeOK
  <2> QED
    BY <2>1, <2>2, <2>4, <2>5
<1>2. ASSUME NEW i \in Inits, UseTemplate(i)
      PROVE  SerialInv'
  <2>1. /\ pc[i] = "started" /\ file' = file /\ before' = before /\ forced' = forced
        /\ file = Absent \/ i \in forced
        /\ pc'[i] = "write" /\ text'[i] = Template
        /\ \A j \in Inits : j # i => pc'[j] = pc[j] /\ text'[j] = text[j]
    BY <1>2 DEF UseTemplate, Goto, WorkspaceTypeOK
  <2>2. file = Absent => before[i] = {}
    BY <2>1 DEF Absent
  <2> QED
    BY <2>1, <2>2, WorkspaceAssumption
<1>3. ASSUME NEW i \in Inits, ReadFile(i)
      PROVE  SerialInv'
  <2>1. /\ pc[i] = "started" /\ file' = file /\ before' = before /\ forced' = forced
        /\ pc'[i] \in {"failed", "done", "write"}
        /\ pc'[i] = "write" => text'[i] = Merged(file.deps)
        /\ \A j \in Inits : j # i => pc'[j] = pc[j] /\ text'[j] = text[j]
    BY <1>3 DEF ReadFile, Goto, WorkspaceTypeOK
  <2>2. file.deps \in SUBSET Dependencies
    BY DEF WorkspaceTypeOK, Files
  <2> QED
    BY <2>1, <2>2, MergeIsFit
<1>4. ASSUME NEW i \in Inits, Truncate(i)
      PROVE  SerialInv'
  <2>1. /\ pc[i] = "write" /\ file'.deps = {}
        /\ text' = text /\ before' = before /\ forced' = forced
        /\ pc'[i] = "fill"
        /\ \A j \in Inits : j # i => pc'[j] = pc[j]
    BY <1>4 DEF Truncate, Goto, WorkspaceTypeOK, Broken
  <2> QED
    BY <2>1 DEF Pinned
<1>5. ASSUME NEW i \in Inits, Fill(i)
      PROVE  SerialInv'
  <2>1. /\ pc[i] = "fill" /\ file'.deps = text[i]
        /\ text' = text /\ before' = before /\ forced' = forced
        /\ pc'[i] = "done"
        /\ \A j \in Inits : j # i => pc'[j] = pc[j]
    BY <1>5 DEF Fill, Goto, WorkspaceTypeOK, Manifest
  <2> QED
    BY <2>1
<1>6. ASSUME NEW i \in Inits, Die(i)
      PROVE  SerialInv'
  <2>1. /\ file' = file
        /\ text' = text /\ before' = before /\ forced' = forced
        /\ pc'[i] = "dead"
        /\ \A j \in Inits : j # i => pc'[j] = pc[j]
    BY <1>6 DEF Die, Goto, WorkspaceTypeOK
  <2> QED
    BY <2>1
<1>7. ASSUME NEW d \in Dependencies, Edit(d)
      PROVE  SerialInv'
  <2>1. \A j \in Inits : ~Running(j)
    BY <1>7 DEF Edit, Alone
  <2>2. file'.deps = {e \in file.deps : e.source # d.source} \cup {d}
    BY <1>7 DEF Edit, Manifest
  <2>3. Pinned(file'.deps)
    BY <2>2 DEF Pinned
  <2>4. pc' = pc /\ text' = text /\ before' = before /\ forced' = forced
    BY <1>7 DEF Edit
  <2> QED
    BY <2>1, <2>3, <2>4
<1>8. CASE UNCHANGED workspaceVars
  BY <1>8 DEF workspaceVars
<1> QED
  BY <1>1, <1>2, <1>3, <1>4, <1>5, <1>6, <1>7, <1>8 DEF WorkspaceNext

(* Commands one after another, any of them killed at any point: one that   *)
(* succeeds without --force keeps every dependency and pin it found.       *)
THEOREM SerialKeepsPins == ~Racing => (WorkspaceSpec => PinsAreKept)
<1> SUFFICES ASSUME ~Racing PROVE WorkspaceSpec => PinsAreKept
  OBVIOUS
<1>1. WorkspaceInit /\ WorkspaceTypeOK => SerialInv
  BY DEF WorkspaceInit, SerialInv, Running, Pinned, Absent, Manifest
<1>2. SerialInv /\ WorkspaceTypeOK' /\ [WorkspaceNext]_workspaceVars => SerialInv'
  BY SerialStep
<1>3. SerialInv /\ [WorkspaceNext]_workspaceVars =>
        \/ UNCHANGED workspaceVars
        \/ \A i \in Inits : Finishes(i) /\ i \notin forced =>
             /\ before[i] \subseteq file'.deps
             /\ SourcesOf(Template) \subseteq SourcesOf(file'.deps)
             /\ Pinned(file'.deps)
  <2> SUFFICES ASSUME SerialInv, WorkspaceNext, NEW i \in Inits, Finishes(i),
                      i \notin forced
               PROVE  /\ before[i] \subseteq file'.deps
                      /\ SourcesOf(Template) \subseteq SourcesOf(file'.deps)
                      /\ Pinned(file'.deps)
    OBVIOUS
  <2>1. ReadFile(i) \/ Fill(i)
    BY DEF WorkspaceNext, Finishes, SerialInv, WorkspaceTypeOK, Start, UseTemplate,
           ReadFile, Truncate, Fill, Die, Edit, Goto
  <2>2. CASE ReadFile(i)
    <3>1. pc[i] = "started" /\ file' = file /\ Missing(file.deps) = {}
      BY <2>2 DEF ReadFile, Goto, Finishes, SerialInv, WorkspaceTypeOK
    <3> QED
      BY <3>1, NothingMissing DEF SerialInv
  <2>3. CASE Fill(i)
    BY <2>3 DEF Fill, SerialInv, Fit, Manifest
  <2> QED
    BY <2>1, <2>2, <2>3
<1> QED
  BY <1>1, <1>2, <1>3, WorkspaceType, PTL DEF WorkspaceSpec, PinsAreKept
=============================================================================
