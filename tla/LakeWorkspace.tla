---------------------------- MODULE LakeWorkspace ----------------------------
(***************************************************************************)
(* `stelarctl workspace init`: the dependencies in jsonnetfile.json.  A    *)
(* new file is the packaged template; one that is there is read and gets   *)
(* the dependencies of the template it lacks, by source, or is replaced    *)
(* when that is forced.  A write truncates the file before it fills it,    *)
(* and a command may die in between.  jb, and the operator, edit the file. *)
(***************************************************************************)
EXTENDS Naturals, FiniteSets

CONSTANTS
    Sources,     \* sources of dependencies
    Versions,    \* version pins
    Template,    \* the dependencies of the template
    Inits,       \* invocations of workspace init
    MayForce,    \* TRUE: some of them with --force
    MayDie,      \* TRUE: some of them die
    Racing,      \* TRUE: they run while others change the file
    MaxEdits     \* bound on the edits

Dependencies == [source : Sources, version : Versions]
SourcesOf(deps) == {d.source : d \in deps}

(* A file that is "broken" is no JSON object.                              *)
Files == [is : {"absent", "broken", "manifest"}, deps : SUBSET Dependencies]
Absent == [is |-> "absent", deps |-> {}]
Broken == [is |-> "broken", deps |-> {}]
Manifest(deps) == [is |-> "manifest", deps |-> deps]

(* One version of each source.                                             *)
Pinned(deps) == \A d, e \in deps : d.source = e.source => d = e

ASSUME WorkspaceAssumption ==
    /\ Template \subseteq Dependencies /\ Pinned(Template)
    /\ MaxEdits \in Nat
    /\ MayForce \in BOOLEAN /\ MayDie \in BOOLEAN /\ Racing \in BOOLEAN

VARIABLES
    file,       \* jsonnetfile.json
    pc,         \* where each invocation is
    forced,     \* invocations with --force
    text,       \* what each is going to write
    before,     \* history: what was in the file when each started
    edits       \* number of edits

workspaceVars == <<file, pc, forced, text, before, edits>>

Running(i) == pc[i] \in {"started", "write", "fill"}
Alone == Racing \/ \A i \in Inits : ~Running(i)

WorkspaceTypeOK ==
    /\ file \in Files
    /\ pc \in [Inits -> {"new", "started", "write", "fill", "done", "failed", "dead"}]
    /\ forced \subseteq Inits
    /\ text \in [Inits -> SUBSET Dependencies]
    /\ before \in [Inits -> SUBSET Dependencies]
    /\ edits \in 0..MaxEdits

WorkspaceInit ==
    /\ file \in {Absent, Manifest({})}
    /\ pc = [i \in Inits |-> "new"]
    /\ forced = {}
    /\ text = [i \in Inits |-> {}]
    /\ before = [i \in Inits |-> {}]
    /\ edits = 0

Goto(i, where) == pc' = [pc EXCEPT ![i] = where]

-----------------------------------------------------------------------------
(* The directories are there or are made; one that is a file ends it.      *)
Start(i) ==
    /\ pc[i] = "new"
    /\ Alone
    /\ \E flag \in (IF MayForce THEN BOOLEAN ELSE {FALSE}) :
         forced' = (IF flag THEN forced \cup {i} ELSE forced)
    /\ before' = [before EXCEPT ![i] = file.deps]
    /\ \/ Goto(i, "started")
       \/ Goto(i, "failed")
    /\ UNCHANGED <<file, text, edits>>

UseTemplate(i) ==
    /\ pc[i] = "started"
    /\ file = Absent \/ i \in forced
    /\ text' = [text EXCEPT ![i] = Template]
    /\ Goto(i, "write")
    /\ UNCHANGED <<file, forced, before, edits>>

(* Mutant: a dependency with another version counts as missing.            *)
Missing_ByVersion(deps) == {d \in Template : d \notin deps}

(* Dependencies are told apart by source; their versions are kept.         *)
Missing(deps) == {d \in Template : d.source \notin SourcesOf(deps)}

Merged(deps) == deps \cup Missing(deps)

ReadFile(i) ==
    /\ pc[i] = "started"
    /\ file # Absent /\ i \notin forced
    /\ \/ file = Broken /\ Goto(i, "failed") /\ UNCHANGED text
       \/ /\ file # Broken
          /\ text' = [text EXCEPT ![i] = Merged(file.deps)]
          /\ Goto(i, IF Missing(file.deps) = {} THEN "done" ELSE "write")
    /\ UNCHANGED <<file, forced, before, edits>>

Truncate(i) ==
    /\ pc[i] = "write"
    /\ file' = Broken
    /\ Goto(i, "fill")
    /\ UNCHANGED <<forced, text, before, edits>>

Fill(i) ==
    /\ pc[i] = "fill"
    /\ file' = Manifest(text[i])
    /\ Goto(i, "done")
    /\ UNCHANGED <<forced, text, before, edits>>

Die(i) ==
    /\ MayDie
    /\ Running(i)
    /\ Goto(i, "dead")
    /\ UNCHANGED <<file, forced, text, before, edits>>

(* jb install SOURCE@VERSION, or a pin that the operator changes.          *)
Edit(d) ==
    /\ edits < MaxEdits
    /\ Alone
    /\ file.is = "manifest"
    /\ file' = Manifest({e \in file.deps : e.source # d.source} \cup {d})
    /\ edits' = edits + 1
    /\ UNCHANGED <<pc, forced, text, before>>

WorkspaceNext ==
    \/ \E i \in Inits :
         \/ Start(i)
         \/ UseTemplate(i)
         \/ ReadFile(i)
         \/ Truncate(i)
         \/ Fill(i)
         \/ Die(i)
    \/ \E d \in Dependencies : Edit(d)

WorkspaceSpec == WorkspaceInit /\ [][WorkspaceNext]_workspaceVars

Finishes(i) == pc[i] # "done" /\ pc'[i] = "done"
-----------------------------------------------------------------------------
(* Commands one after another, any of them killed at any point: one that   *)
(* succeeds without --force leaves every dependency and every pin that was *)
(* there, and one version of each source, whatever a killed one left.      *)
PinsAreKept ==
    [][\A i \in Inits : Finishes(i) /\ i \notin forced =>
         /\ before[i] \subseteq file'.deps
         /\ SourcesOf(Template) \subseteq SourcesOf(file'.deps)
         /\ Pinned(file'.deps)]_workspaceVars
=============================================================================
