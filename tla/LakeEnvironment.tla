-------------------------- MODULE LakeEnvironment --------------------------
(***************************************************************************)
(* The commands that read and write the directory of one lake environment, *)
(* run by any number of operators: lake add, create, switch, remove, the   *)
(* local part of lake bootstrap and the local tail of lake unbootstrap.    *)
(*                                                                         *)
(* A command first decides what to edit, then makes its edits one after    *)
(* another.  An edit of spec.json reads the file, changes one aspect of    *)
(* what it read and writes all of it back; no command takes a lock.        *)
(***************************************************************************)
EXTENDS LakeFiles

CONSTANT Job    \* what each invocation is asked to do

Operations == {"add", "create", "switch", "bootstrap", "unbootstrap", "remove"}

(* consent is --adopt-existing-main or --force, minimal is --minimal;      *)
(* target is what the flags name, for a bootstrap what kubeconfig would    *)
(* supply.  Only a minimal lake create takes the flags of a target.        *)
Jobs == [op : Operations, product : Products \cup {NoProduct},
         input : Inputs \cup {NoInput}, target : Targets \cup {NoTarget},
         consent : BOOLEAN, minimal : BOOLEAN]

ASSUME JobAssumption ==
    /\ Job \in [Commands -> Jobs]
    /\ \A c \in Commands :
         /\ Job[c].op \in {"create", "switch"} => Job[c].product \in Products
         /\ Job[c].op = "create" =>
              /\ Job[c].input \in Inputs
              /\ Job[c].target # NoTarget => Job[c].minimal
         /\ Job[c].op = "bootstrap" => Job[c].target \in Targets

Edits == {"main", "mark", "target", "source", "full", "first", "select",
          "retarget", "forget"}

VARIABLES
    pc,         \* where each command is
    edit,       \* the edit it is making, or "none"
    snap,       \* what spec.json said when the current edit read it
    got,        \* what else the command read
    doomed,     \* the files a removal has still to unlink
    written,    \* history: what creates wrote, and to which file
    recorded,   \* what bootstraps recorded in the cluster, and from where
    overlapped  \* history: a command went on while another was at work

commandVars == <<pc, edit, snap, got, doomed>>
historyVars == <<written, recorded>>
vars == <<directoryVars, commandVars, historyVars, overlapped>>

Phases == {"ready", "adopt", "product", "read", "open", "fill", "record",
           "report", "unlink", "done", "failed"}

Finding == [full : Fullspecs \cup {NoFullspec}, name : Products \cup {NoProduct},
            input : Documents \cup {NoInput}, target : Targets \cup {NoTarget}]

Nothing == [full |-> NoFullspec, name |-> NoProduct, input |-> NoInput,
            target |-> NoTarget]

(* found.target is the context a lake is recorded in.                      *)
Record == [by : Commands, found : Finding, namespace : Targets]

(* Types of all variables.                                                 *)
TypeOK ==
    /\ DirectoryTypeOK
    /\ pc \in [Commands -> Phases]
    /\ edit \in [Commands -> Edits \cup {"none"}]
    /\ snap \in [Commands -> Settings \cup {NoFile}]
    /\ got \in [Commands -> Finding]
    /\ doomed \in [Commands -> SUBSET Files]
    /\ written \subseteq Files \X Documents
    /\ recorded \subseteq Record
    /\ overlapped \in BOOLEAN

-----------------------------------------------------------------------------
(* Where an environment can start: nothing yet, a Tanka environment that   *)
(* is not a lake's, or a lake of an older release, which recorded neither  *)
(* the name of the selection nor the bootstrap in the cluster.  The        *)
(* entrypoint of a lake may have been replaced: commands only warn of it.  *)
NewDirectory ==
    /\ dir = FALSE
    /\ files = [f \in Files |-> NoFile]
    /\ written = {}

ForeignDirectory ==
    /\ dir = TRUE
    /\ \E spec \in {Blank, NoFile} :
         files = [f \in Files |-> IF f = MainFile THEN Foreign
                                  ELSE IF f = SpecFile THEN spec ELSE NoFile]
    /\ written = {}

OlderSettings(i) == [Blank EXCEPT !.marked = TRUE, !.legacy = TRUE,
                                  !.active = FullspecOf[i]]

OlderDirectory ==
    /\ dir = TRUE
    /\ \E p \in Products, i \in Inputs, main \in {Managed, Foreign} :
         /\ p # SpecName
         /\ files = [f \in Files |->
                       IF f = MainFile THEN main
                       ELSE IF f = SpecFile THEN OlderSettings(i)
                       ELSE IF f = SourceFile(p) THEN i
                       ELSE IF f = FullFile(p) THEN FullspecOf[i] ELSE NoFile]
         /\ written = {<<SourceFile(p), i>>, <<FullFile(p), FullspecOf[i]>>}

Init ==
    /\ NewDirectory \/ ForeignDirectory \/ OlderDirectory
    /\ handles = {}
    /\ pc = [c \in Commands |-> "ready"]
    /\ edit = [c \in Commands |-> "none"]
    /\ snap = [c \in Commands |-> NoFile]
    /\ got = [c \in Commands |-> Nothing]
    /\ doomed = [c \in Commands |-> {}]
    /\ recorded = {}
    /\ overlapped = FALSE

-----------------------------------------------------------------------------
Over(c) == pc[c] \in {"done", "failed"}
Running(c) == pc[c] # "ready" /\ ~Over(c)

Goto(c, phase) == pc' = [pc EXCEPT ![c] = phase]

Begins(c, op) ==
    /\ pc[c] = "ready"
    /\ Job[c].op = op

(* initialized_lake_environment_dir: a marked environment.                 *)
Initialized == dir /\ Present(MainFile) /\ Readable /\ files[SpecFile].marked

(* The edit after the current one.  Only lake add and lake create write a  *)
(* target that was asked for.                                              *)
LastEdit(c) == IF Job[c].target = NoTarget THEN "none" ELSE "target"

NextEdit(c) ==
    IF edit[c] = "main" THEN "mark"
    ELSE IF edit[c] = "source" THEN "full"
    ELSE IF edit[c] = "full" THEN "first"
    ELSE IF edit[c] \in {"mark", "first"} THEN LastEdit(c)
    ELSE IF edit[c] = "select" /\ Job[c].op = "create" THEN LastEdit(c)
    ELSE "none"

(* A lake create of a product file reports where it wrote, and for that    *)
(* looks the environment up again.                                         *)
Reports(c) == Job[c].op = "create" /\ ~Job[c].minimal

(* Go on with edit e, or with what follows the last.  Product files are    *)
(* written without being read.                                             *)
Proceed(c, e) ==
    /\ edit' = [edit EXCEPT ![c] = e]
    /\ \/ e = "none" /\ Job[c].op = "bootstrap" /\ Goto(c, "record")
       \/ e = "none" /\ Reports(c) /\ Goto(c, "report")
       \/ e = "none" /\ Job[c].op # "bootstrap" /\ ~Reports(c) /\ Goto(c, "done")
       \/ e \in {"source", "full"} /\ Goto(c, "open")
       \/ e \notin {"none", "source", "full"} /\ Goto(c, "read")

-----------------------------------------------------------------------------
(* lake add.  The directory is made before anything is checked.            *)
StartAdd(c) ==
    /\ Begins(c, "add")
    /\ dir' = TRUE
    /\ Goto(c, "adopt")
    /\ UNCHANGED <<files, handles, edit, snap, got, doomed, historyVars>>

(* Mutant: consent adopts any entrypoint.                                  *)
CheckAdoption_AnyTemplate(c) ==
    /\ pc[c] = "adopt"
    /\ \/ ~Present(MainFile)
       \/ Readable /\ files[SpecFile].marked
       \/ Job[c].consent
    /\ Proceed(c, "main")
    /\ UNCHANGED <<directoryVars, snap, got, doomed, historyVars>>

(* An entrypoint without a marked spec.json is adopted only with consent,  *)
(* and only if it is the managed template.                                 *)
CheckAdoption(c) ==
    /\ pc[c] = "adopt"
    /\ \/ ~Present(MainFile)
       \/ Readable /\ files[SpecFile].marked
       \/ Job[c].consent /\ files[MainFile] = Managed
    /\ Proceed(c, "main")
    /\ UNCHANGED <<directoryVars, snap, got, doomed, historyVars>>

(* lake create, of an input the feature model accepts.                     *)
StartCreate(c) ==
    /\ Begins(c, "create")
    /\ Initialized
    /\ Proceed(c, "source")
    /\ UNCHANGED <<directoryVars, snap, got, doomed, historyVars>>

Report(c) ==
    /\ pc[c] = "report"
    /\ Initialized
    /\ Goto(c, "done")
    /\ UNCHANGED <<directoryVars, edit, snap, got, doomed, historyVars>>

(* Mutant: a fullspec that is still being written is taken as it is.       *)
StartSwitch_AnyText(c) ==
    /\ Begins(c, "switch")
    /\ Initialized
    /\ Present(SourceFile(Job[c].product))
    /\ Present(FullFile(Job[c].product))
    /\ got' = [got EXCEPT ![c].full = files[FullFile(Job[c].product)]]
    /\ Proceed(c, "select")
    /\ UNCHANGED <<directoryVars, snap, doomed, historyVars>>

(* lake switch reads the fullspec, warns of what the cluster holds, and    *)
(* then reads spec.json again to change it.                                *)
StartSwitch(c) ==
    /\ Begins(c, "switch")
    /\ Initialized
    /\ Present(SourceFile(Job[c].product))
    /\ files[FullFile(Job[c].product)] \in Fullspecs
    /\ got' = [got EXCEPT ![c].full = files[FullFile(Job[c].product)]]
    /\ Proceed(c, "select")
    /\ UNCHANGED <<directoryVars, snap, doomed, historyVars>>

(* The tail of lake unbootstrap.                                           *)
StartUnbootstrap(c) ==
    /\ Begins(c, "unbootstrap")
    /\ Initialized
    /\ Proceed(c, "forget")
    /\ UNCHANGED <<directoryVars, snap, got, doomed, historyVars>>

-----------------------------------------------------------------------------
(* Mutant: the fullspec is not compared with the selected one.             *)
Matches_AnyFullspec(f) ==
    {p \in Products : Present(SourceFile(p)) /\ Present(FullFile(p))}

(* The products an unnamed selection can be: their files are there and     *)
(* the fullspec is the selected one.                                       *)
Matches(f) ==
    {p \in Products : Present(SourceFile(p)) /\ files[FullFile(p)] = f}

SelectedNames ==
    IF files[SpecFile].name # NoProduct THEN {files[SpecFile].name}
    ELSE IF Matches(files[SpecFile].active) = {} THEN {NoProduct}
    ELSE Matches(files[SpecFile].active)

(* lake bootstrap reads the selection and the target; kubeconfig supplies  *)
(* what is missing of the target.                                          *)
StartBootstrap(c) ==
    /\ Begins(c, "bootstrap")
    /\ Initialized
    /\ files[SpecFile].active # NoFullspec
    /\ \E p \in SelectedNames :
         got' = [got EXCEPT ![c] =
                   [full |-> files[SpecFile].active, name |-> p, input |-> NoInput,
                    target |-> IF files[SpecFile].target = NoTarget
                               THEN Job[c].target ELSE files[SpecFile].target]]
    /\ Goto(c, "product")
    /\ UNCHANGED <<directoryVars, edit, snap, doomed, historyVars>>

(* The product file of the selection, if there is one: any JSON object.    *)
ReadProduct(c) ==
    /\ pc[c] = "product"
    /\ \/ /\ got[c].name # NoProduct => ~Present(SourceFile(got[c].name))
          /\ UNCHANGED got
       \/ /\ got[c].name # NoProduct
          /\ files[SourceFile(got[c].name)] \in Documents
          /\ got' = [got EXCEPT ![c].input = files[SourceFile(got[c].name)]]
    /\ Proceed(c, "retarget")
    /\ UNCHANGED <<directoryVars, snap, doomed, historyVars>>

(* spec.json is read once more, for the namespace alone.  The calls to the *)
(* cluster before the record are the module LakeBootstrap.                 *)
RecordLake(c) ==
    /\ pc[c] = "record"
    /\ Readable
    /\ files[SpecFile].target # NoTarget
    /\ recorded' = recorded \cup
         {[by |-> c, found |-> got[c], namespace |-> files[SpecFile].target]}
    /\ Goto(c, "done")
    /\ UNCHANGED <<directoryVars, edit, snap, got, doomed, written>>

-----------------------------------------------------------------------------
(* Mutant: a selection does not keep an environment from being removed.    *)
StartRemove_Unchecked(c) ==
    /\ Begins(c, "remove")
    /\ Initialized
    /\ doomed' = [doomed EXCEPT ![c] = {f \in Files : Present(f)}]
    /\ Goto(c, "unlink")
    /\ UNCHANGED <<directoryVars, edit, snap, got, historyVars>>

(* lake remove deletes the files it finds, and then the directory, if      *)
(* nothing was put there in the meantime.                                  *)
StartRemove(c) ==
    /\ Begins(c, "remove")
    /\ Initialized
    /\ \/ Job[c].consent
       \/ files[SpecFile].active = NoFullspec /\ files[SpecFile].name = NoProduct
    /\ doomed' = [doomed EXCEPT ![c] = {f \in Files : Present(f)}]
    /\ Goto(c, "unlink")
    /\ UNCHANGED <<directoryVars, edit, snap, got, historyVars>>

UnlinkFile(c) ==
    /\ pc[c] = "unlink"
    /\ \E f \in doomed[c] :
         /\ doomed' = [doomed EXCEPT ![c] = @ \ {f}]
         /\ \/ Unlink(f)
            \/ ~Present(f) /\ UNCHANGED directoryVars
    /\ UNCHANGED <<pc, edit, snap, got, historyVars>>

RemoveDirectory(c) ==
    /\ pc[c] = "unlink"
    /\ doomed[c] = {}
    /\ dir
    /\ \A f \in Files : ~Present(f)
    /\ dir' = FALSE
    /\ Goto(c, "done")
    /\ UNCHANGED <<files, handles, edit, snap, got, doomed, historyVars>>

-----------------------------------------------------------------------------
EditedFile(c) ==
    IF edit[c] = "main" THEN MainFile
    ELSE IF edit[c] = "source" THEN SourceFile(Job[c].product)
    ELSE IF edit[c] = "full" THEN FullFile(Job[c].product)
    ELSE SpecFile

(* Mutant: lake create keeps a target that is there, whatever it is.       *)
AlreadyDone_AnyTarget(c) ==
    \/ edit[c] = "mark" /\ files[SpecFile].marked
    \/ edit[c] = "first" /\ files[SpecFile].active # NoFullspec
    \/ /\ edit[c] = "target" /\ Job[c].op = "create"
       /\ files[SpecFile].target # NoTarget
    \/ edit[c] = "forget" /\ ~files[SpecFile].legacy

(* An edit that finds its work done writes nothing.  lake add and lake     *)
(* bootstrap write the target in any case.                                 *)
AlreadyDone(c) ==
    \/ edit[c] = "mark" /\ files[SpecFile].marked
    \/ edit[c] = "first" /\ files[SpecFile].active # NoFullspec
    \/ /\ edit[c] = "target" /\ Job[c].op = "create"
       /\ files[SpecFile].target = Job[c].target
    \/ edit[c] = "forget" /\ ~files[SpecFile].legacy

SkipEdit(c) ==
    /\ pc[c] = "read"
    /\ \/ edit[c] = "main" /\ Present(MainFile)
       \/ edit[c] # "main" /\ Readable /\ AlreadyDone(c)
    /\ Proceed(c, NextEdit(c))
    /\ UNCHANGED <<directoryVars, snap, got, doomed, historyVars>>

(* The first product is selected, by an update that reads spec.json again. *)
SelectFirst(c) ==
    /\ pc[c] = "read"
    /\ edit[c] = "first"
    /\ Readable /\ ~AlreadyDone(c)
    /\ got' = [got EXCEPT ![c].full = FullspecOf[Job[c].input]]
    /\ Proceed(c, "select")
    /\ UNCHANGED <<directoryVars, snap, doomed, historyVars>>

(* Read before the write.  Only lake add goes on without a spec.json, and  *)
(* no edit goes on with one that it cannot read.                           *)
ReadForEdit(c) ==
    /\ pc[c] = "read"
    /\ edit[c] # "first"
    /\ \/ edit[c] = "main" /\ ~Present(MainFile) /\ UNCHANGED snap
       \/ /\ edit[c] = "mark" /\ ~Present(SpecFile)
          /\ snap' = [snap EXCEPT ![c] = NoFile]
       \/ /\ edit[c] # "main" /\ Readable /\ ~AlreadyDone(c)
          /\ snap' = [snap EXCEPT ![c] = files[SpecFile]]
    /\ Goto(c, "open")
    /\ UNCHANGED <<directoryVars, edit, got, doomed, historyVars>>

OpenForEdit(c) ==
    /\ pc[c] = "open"
    /\ OpenFile(EditedFile(c), c)
    /\ Goto(c, "fill")
    /\ UNCHANGED <<edit, snap, got, doomed, historyVars>>

Base(c) == IF snap[c] = NoFile THEN Blank ELSE snap[c]

(* Mutant: a selection writes the name and keeps the old fullspec.         *)
NewSettings_NameOnly(c) ==
    IF edit[c] = "mark" THEN [Base(c) EXCEPT !.marked = TRUE]
    ELSE IF edit[c] = "target" THEN [Base(c) EXCEPT !.target = Job[c].target]
    ELSE IF edit[c] = "retarget" THEN [Base(c) EXCEPT !.target = got[c].target]
    ELSE IF edit[c] = "forget" THEN [Base(c) EXCEPT !.legacy = FALSE]
    ELSE [Base(c) EXCEPT !.name = Job[c].product]

NewSettings(c) ==
    IF edit[c] = "mark" THEN [Base(c) EXCEPT !.marked = TRUE]
    ELSE IF edit[c] = "target" THEN [Base(c) EXCEPT !.target = Job[c].target]
    ELSE IF edit[c] = "retarget" THEN [Base(c) EXCEPT !.target = got[c].target]
    ELSE IF edit[c] = "forget" THEN [Base(c) EXCEPT !.legacy = FALSE]
    ELSE [Base(c) EXCEPT !.active = got[c].full, !.name = Job[c].product]

(* A product file written over spec.json is read as settings that say      *)
(* nothing, not even that the directory is a lake's.                       *)
NewText(c) ==
    IF edit[c] = "main" THEN Managed
    ELSE IF edit[c] = "source"
         THEN (IF Job[c].product = SpecName THEN Blank ELSE Job[c].input)
    ELSE IF edit[c] = "full" THEN FullspecOf[Job[c].input]
    ELSE NewSettings(c)

FillForEdit(c) ==
    /\ pc[c] = "fill"
    /\ FillFile(EditedFile(c), c, NewText(c))
    /\ written' = IF edit[c] \in {"source", "full"}
                  THEN written \cup {<<EditedFile(c), NewText(c)>>} ELSE written
    /\ Proceed(c, NextEdit(c))
    /\ UNCHANGED <<snap, got, doomed, recorded>>

-----------------------------------------------------------------------------
(* A command is refused, meets an error or dies; nothing is rolled back.   *)
Abort(c) ==
    /\ Running(c)
    /\ CloseAll(c)
    /\ Goto(c, "failed")
    /\ UNCHANGED <<edit, snap, got, doomed, historyVars>>

Start(c) ==
    \/ StartAdd(c) \/ StartCreate(c) \/ StartSwitch(c)
    \/ StartUnbootstrap(c) \/ StartBootstrap(c) \/ StartRemove(c)

MakeEdit(c) ==
    SkipEdit(c) \/ SelectFirst(c) \/ ReadForEdit(c) \/ OpenForEdit(c) \/ FillForEdit(c)

Act(c) ==
    \/ Start(c) \/ MakeEdit(c)
    \/ CheckAdoption(c) \/ Report(c)
    \/ ReadProduct(c) \/ RecordLake(c)
    \/ UnlinkFile(c) \/ RemoveDirectory(c)
    \/ Abort(c)

Step(c) ==
    /\ Act(c)
    /\ overlapped' = (overlapped \/ \E d \in Commands \ {c} : Running(d))

Next == \E c \in Commands : Step(c)

Spec == Init /\ [][Next]_vars

-----------------------------------------------------------------------------
(* The selection is a product and a fullspec that a create wrote to the    *)
(* file of that product's fullspec, whatever commands interleave           *)
(* (environment_spec.py, set_active_product; lake_product.py,              *)
(* switch_lake_product and _switch_if_first_product).  That file belongs   *)
(* to the product alone unless another is called <product>_fullspec.       *)
SelectionWasWritten ==
    Readable /\ files[SpecFile].name # NoProduct =>
        <<FullFile(files[SpecFile].name), files[SpecFile].active>> \in written

(* A bootstrap records a fullspec under the name of a product to whose     *)
(* fullspec file it was written, also when it had to look the name up      *)
(* (cluster.py, _current_product_or_none).                                 *)
RecordNamesItsFullspec ==
    \A r \in recorded :
        r.found.name # NoProduct => <<FullFile(r.found.name), r.found.full>> \in written

(* A directory with an entrypoint that is not the managed one, and without *)
(* the mark of a lake, in which no command is past its checks.             *)
Untaken ==
    /\ files[MainFile] = Foreign
    /\ ~(Readable /\ files[SpecFile].marked)
    /\ \A c \in Commands : pc[c] \in {"ready", "adopt", "done", "failed"}

(* Such a directory stays as it is, with or without consent; in a marked   *)
(* one the commands work beside a foreign entrypoint, which they only warn *)
(* of and never write, though lake remove deletes it (lake_environment.py, *)
(* adoption of an existing main.jsonnet, _ensure_main_jsonnet,             *)
(* initialized_lake_environment_dir).                                      *)
ForeignIsUntouched ==
    [][/\ Untaken => Untaken' /\ UNCHANGED files
       /\ files[MainFile] = Foreign => files'[MainFile] \in {Foreign, NoFile}]_vars

(* When operators take turns, the commands change the settings as          *)
(* LakeSettings says, with crashes at any point (environment_spec.py,      *)
(* lake_environment.py).  While a write is under way the settings are      *)
(* those it read, or those of nobody when it writes a product file over    *)
(* spec.json; once two commands were at work at a time nothing is said.    *)
Writing(c) ==
    /\ pc[c] = "fill"
    /\ [by |-> c, file |-> SpecFile] \in handles

CurrentSettings ==
    IF \E c \in Commands : Writing(c)
    THEN LET c == CHOOSE c \in Commands : Writing(c)
         IN  IF edit[c] = "source" THEN Blank ELSE snap[c]
    ELSE IF files[SpecFile] \in {Empty, Garbled} THEN Empty ELSE files[SpecFile]

PromisedSettings == IF overlapped THEN Empty ELSE CurrentSettings

(* The product file of this lake create is spec.json.                      *)
Overwrites(c) == Job[c].op = "create" /\ Job[c].product = SpecName

Forces(c) == Job[c].op = "remove" /\ Job[c].consent

Abstract == INSTANCE LakeSettings WITH
    settings <- PromisedSettings,
    forced <- \E c \in Commands : Running(c) /\ Forces(c),
    overwriting <- \E c \in Commands : Running(c) /\ Overwrites(c),
    Absent <- NoFile, Lost <- Empty

SerialImplementsSettings == Abstract!Spec

(* When operators take turns, a command that reports success has had its   *)
(* effect, whatever an earlier command left half done (the operations of   *)
(* lake_environment.py, lake_product.py and the local part of cluster.py). *)
(* The one exception is a lake create whose product file is spec.json.     *)
Selected(p, f) == files[SpecFile].name = p /\ files[SpecFile].active = f

Targeted(c) == Job[c].target # NoTarget => files[SpecFile].target = Job[c].target

Effect(c) ==
    LET p == Job[c].product
    IN  \/ Job[c].op = "add" /\ Initialized /\ Targeted(c)
        \/ /\ Job[c].op = "create" /\ Initialized /\ Targeted(c)
           /\ files[SourceFile(p)] = Job[c].input
           /\ files[FullFile(p)] = FullspecOf[Job[c].input]
           /\ files[SpecFile].active # NoFullspec
        \/ /\ Job[c].op = "switch" /\ Initialized
           /\ Selected(p, files[FullFile(p)])
        \/ /\ Job[c].op = "bootstrap" /\ Initialized
           /\ \E r \in recorded :
                /\ r.by = c /\ r.found.full = files[SpecFile].active
                /\ r.found.target = files[SpecFile].target
                /\ r.namespace = files[SpecFile].target
        \/ Job[c].op = "unbootstrap" /\ Initialized /\ ~files[SpecFile].legacy
        \/ Job[c].op = "remove" /\ ~dir

SerialSuccessIsEffective ==
    [][\A c \in Commands :
         ~overlapped' /\ pc[c] # "done" /\ pc'[c] = "done" /\ ~Overwrites(c)
           => Effect(c)']_vars
=============================================================================
