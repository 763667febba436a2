----------------------------- MODULE LakeFiles -----------------------------
(***************************************************************************)
(* The directory of one lake environment: the Tanka entrypoint, spec.json, *)
(* and per product the product file and its fullspec.  No product name is  *)
(* reserved: the files of a product are named after it, and one file can   *)
(* be spec.json and a product file, or the fullspec of one product and the *)
(* product file of another.                                                *)
(*                                                                         *)
(* A file is written in place, without a lock and without a rename: it is  *)
(* emptied when opened and has its text when the write is flushed.  Text   *)
(* is abstracted to what it says; an empty or garbled file says nothing.   *)
(***************************************************************************)
EXTENDS FiniteSets

CONSTANTS
    Commands,       \* invocations of stelarctl
    Products,       \* product names
    Inputs,         \* product file contents that validate
    Fullspecs,      \* documents with a consistent klms object, some Inputs too
    FullspecOf,     \* the fullspec the feature model makes of an input
    Targets,        \* Kubernetes targets: a context and a namespace
    SpecName,       \* the product name whose product file is spec.json
    FullName,       \* the name <product>_fullspec, perhaps another product's
    NoProduct, NoInput, NoFullspec, NoTarget,
    Managed,        \* main.jsonnet is the managed template
    Foreign,        \* main.jsonnet is somebody else's
    NoFile, Empty, Garbled

(* What spec.json holds, of which the commands read or write something.    *)
Settings ==
    [marked : BOOLEAN,                       \* the stelarctl annotation
     target : Targets \cup {NoTarget},
     active : Fullspecs \cup {NoFullspec},   \* spec.stelar.active_product
     name   : Products \cup {NoProduct},     \* spec.stelar.current_product
     legacy : BOOLEAN]                       \* spec.stelar.bootstrapped_product

ASSUME FilesAssumption ==
    /\ FullspecOf \in [Inputs -> Fullspecs]
    /\ NoProduct \notin Products
    /\ NoInput \notin Inputs \cup Fullspecs \cup Settings
    /\ NoFullspec \notin Fullspecs
    /\ NoTarget \notin Targets
    /\ {NoFile, Empty, Garbled} \cap
         (Settings \cup Inputs \cup Fullspecs \cup {Managed, Foreign}) = {}
    /\ NoFile # Empty
    /\ NoFile # Garbled
    /\ Managed # Foreign

(* Appending _fullspec changes a name, keeps names apart and never gives   *)
(* "spec"; the commands check nothing else of it.  A name is what is left  *)
(* without the suffix .json, which they strip (of two suffixes only one).  *)
ASSUME NamesAssumption ==
    \A p \in Products :
        /\ FullName[p] \notin {p, SpecName}
        /\ \A q \in Products : FullName[p] = FullName[q] => p = q

MainFile == [kind |-> "jsonnet", name |-> "main"]
SpecFile == [kind |-> "json", name |-> SpecName]
SourceFile(p) == [kind |-> "json", name |-> p]
FullFile(p) == [kind |-> "json", name |-> FullName[p]]

Files == {MainFile, SpecFile}
    \cup {SourceFile(p) : p \in Products} \cup {FullFile(p) : p \in Products}

Documents == Settings \cup Inputs \cup Fullspecs

Texts == Documents \cup {Managed, Foreign, NoFile, Empty, Garbled}

VARIABLES
    dir,        \* the directory exists
    files,      \* what each file says
    handles     \* files open for writing, and by whom

directoryVars == <<dir, files, handles>>

DirectoryTypeOK ==
    /\ dir \in BOOLEAN
    /\ files \in [Files -> Texts]
    /\ handles \subseteq [by : Commands, file : Files]

Present(f) == files[f] # NoFile
Readable == files[SpecFile] \in Settings

(* spec.json of a new environment, before it is marked; and what a product *)
(* file says to who takes it for spec.json.                                *)
Blank == [marked |-> FALSE, target |-> NoTarget, active |-> NoFullspec,
          name |-> NoProduct, legacy |-> FALSE]

(* Opening for writing empties the file or creates it.                     *)
OpenFile(f, c) ==
    /\ dir
    /\ files' = [files EXCEPT ![f] = Empty]
    /\ handles' = handles \cup {[by |-> c, file |-> f]}
    /\ UNCHANGED dir

(* The text arrives.  Over the text of another writer it may leave the     *)
(* end of a longer text behind; in a file unlinked since, it is lost.      *)
FillFile(f, c, text) ==
    /\ \/ /\ [by |-> c, file |-> f] \in handles
          /\ files' = [files EXCEPT ![f] = text]
       \/ /\ [by |-> c, file |-> f] \in handles
          /\ files[f] # Empty
          /\ files' = [files EXCEPT ![f] = Garbled]
       \/ /\ [by |-> c, file |-> f] \notin handles
          /\ UNCHANGED files
    /\ handles' = handles \ {[by |-> c, file |-> f]}
    /\ UNCHANGED dir

Unlink(f) ==
    /\ Present(f)
    /\ files' = [files EXCEPT ![f] = NoFile]
    /\ handles' = {h \in handles : h.file # f}
    /\ UNCHANGED dir

(* A process that ends, whatever it had open.                              *)
CloseAll(c) ==
    /\ handles' = {h \in handles : h.by # c}
    /\ UNCHANGED <<dir, files>>
=============================================================================
