----------------------- MODULE LakeEnvironmentProofs -----------------------
(***************************************************************************)
(* Proofs about LakeEnvironment, for any number of commands, products,     *)
(* inputs and targets, run one after another or at the same time.          *)
(***************************************************************************)
EXTENDS LakeEnvironment, TLAPS

(* An edit belongs to a command that makes it.                             *)
EditFits(c) ==
    /\ edit[c] \in {"main", "mark"} => Job[c].op = "add"
    /\ edit[c] \in {"source", "full", "first"} => Job[c].op = "create"
    /\ edit[c] = "select" => Job[c].op \in {"create", "switch"}
    /\ edit[c] = "retarget" => Job[c].op = "bootstrap"
    /\ edit[c] = "target" => Job[c].target # NoTarget
    /\ pc[c] \in {"read", "open", "fill"} => edit[c] # "none"
    /\ pc[c] \in {"read", "open", "fill"} /\ Job[c].op = "bootstrap"
         => edit[c] = "retarget"
    /\ pc[c] = "read" => edit[c] \notin {"source", "full"}
    /\ pc[c] \in {"open", "fill"} => edit[c] # "first"
    /\ pc[c] \in {"product", "record"} => Job[c].op = "bootstrap"
    /\ pc[c] = "adopt" => Job[c].op = "add"
    /\ pc[c] = "report" => Reports(c)

(* A bootstrap at work has a target.                                       *)
TargetKnown(c) ==
    /\ Job[c].op = "bootstrap"
    /\ pc[c] \in {"product", "read", "open", "fill", "record"}
    => got[c].target \in Targets

(* A selection in spec.json, or in what a command read there.              *)
Sound(s) ==
    s \in Settings /\ s.name # NoProduct => <<FullFile(s.name), s.active>> \in written

SelectionsSound == Sound(files[SpecFile]) /\ \A c \in Commands : Sound(snap[c])

(* A fullspec is what was written to its file, by whatever create.         *)
FullFilesSound ==
    \A p \in Products :
        files[FullFile(p)] \in Fullspecs =>
            <<FullFile(p), files[FullFile(p)]>> \in written

(* What commands have read or made, and will write or record.              *)
FindingsSound(c) ==
    /\ edit[c] = "select" => <<FullFile(Job[c].product), got[c].full>> \in written
    /\ Job[c].op = "create" /\ edit[c] = "first"
         => <<FullFile(Job[c].product), FullspecOf[Job[c].input]>> \in written
    /\ Job[c].op = "bootstrap" /\ got[c].name # NoProduct
         => <<FullFile(got[c].name), got[c].full>> \in written

(* No command is about to write over a foreign entrypoint.                 *)
ForeignBlocks ==
    files[MainFile] = Foreign =>
        \A c \in Commands : ~(pc[c] \in {"open", "fill"} /\ edit[c] = "main")

EnvInv ==
    /\ TypeOK
    /\ \A c \in Commands : EditFits(c) /\ TargetKnown(c) /\ FindingsSound(c)
    /\ SelectionsSound
    /\ FullFilesSound
    /\ RecordNamesItsFullspec
    /\ ForeignBlocks

-----------------------------------------------------------------------------
(* The files of one product are different files, and the fullspecs of two  *)
(* products are.                                                           *)
LEMMA FilesDiffer ==
    /\ MainFile \in Files /\ SpecFile \in Files /\ MainFile # SpecFile
    /\ \A p \in Products :
         /\ SourceFile(p) \in Files /\ FullFile(p) \in Files
         /\ SourceFile(p) # MainFile
         /\ SourceFile(p) = SpecFile <=> p = SpecName
         /\ FullFile(p) \notin {MainFile, SpecFile, SourceFile(p)}
         /\ \A q \in Products : FullFile(p) = FullFile(q) => p = q
  BY NamesAssumption DEF Files, MainFile, SpecFile, SourceFile, FullFile

LEMMA BlankIsSettings ==
    /\ Blank \in Settings
    /\ Blank.name = NoProduct
    /\ ~Blank.marked
  BY DEF Blank, Settings

(* A file that says nothing has no settings and no fullspec.               *)
LEMMA NothingSaid ==
    \A t \in {NoFile, Empty, Garbled} :
        /\ t \notin Settings
        /\ t \notin Inputs
        /\ t \notin Fullspecs
        /\ t # Managed /\ t # Foreign
        /\ t \in Texts
        /\ t \notin Documents
  BY FilesAssumption DEF Texts, Documents

LEMMA OlderIsSettings ==
    ASSUME NEW i \in Inputs
    PROVE  /\ OlderSettings(i) \in Settings
           /\ OlderSettings(i).name = NoProduct
  BY FilesAssumption, BlankIsSettings DEF OlderSettings, Blank, Settings

(* What changing one field of a finding gives.                             *)
LEMMA FindingUpdate ==
    ASSUME NEW r \in Finding
    PROVE  /\ \A f \in Fullspecs \cup {NoFullspec} :
                LET q == [r EXCEPT !.full = f]
                IN  q \in Finding /\ q.full = f /\ q.name = r.name /\ q.target = r.target
           /\ \A i \in Documents \cup {NoInput} :
                LET q == [r EXCEPT !.input = i]
                IN  q \in Finding /\ q.full = r.full /\ q.name = r.name
                      /\ q.target = r.target
  BY DEF Finding

(* A step that leaves the files, and what was read of spec.json, alone.    *)
LEMMA Undisturbed ==
    ASSUME EnvInv, UNCHANGED <<files, snap, written, recorded>>
    PROVE  SelectionsSound' /\ FullFilesSound' /\ RecordNamesItsFullspec'
  BY DEF EnvInv, SelectionsSound, Sound, FullFilesSound, RecordNamesItsFullspec

(* lake add begins in any directory.                                       *)
LEMMA StartAddKeeps ==
    ASSUME EnvInv, NEW c \in Commands, StartAdd(c),
           overlapped' \in BOOLEAN
    PROVE  EnvInv'
<1> USE FilesAssumption, JobAssumption
        DEF EnvInv, StartAdd, Goto, Present, Readable, directoryVars,
           commandVars, historyVars, Jobs, Begins
<1>1. TypeOK'
  BY DEF TypeOK, DirectoryTypeOK, Phases, Edits
<1>2. \A d \in Commands : EditFits(d)'
  BY DEF EditFits, TypeOK
<1>3. \A d \in Commands : TargetKnown(d)'
  BY DEF TargetKnown, EditFits, TypeOK
<1>4. \A d \in Commands : FindingsSound(d)'
  BY DEF FindingsSound, EditFits, TypeOK
<1>5. SelectionsSound' /\ FullFilesSound' /\ RecordNamesItsFullspec'
  BY Undisturbed
<1>8. ForeignBlocks'
  BY DEF ForeignBlocks, TypeOK
<1> QED
  BY <1>1, <1>2, <1>3, <1>4, <1>5, <1>8 DEF EnvInv

(* Only this step takes a lake add beyond a foreign entrypoint.            *)
LEMMA CheckAdoptionKeeps ==
    ASSUME EnvInv, NEW c \in Commands, CheckAdoption(c),
           overlapped' \in BOOLEAN
    PROVE  EnvInv'
<1> USE FilesAssumption, JobAssumption
        DEF EnvInv, CheckAdoption, Goto, Present, Readable, directoryVars,
           commandVars, historyVars, Jobs, Proceed, Reports, LastEdit
<1>1. TypeOK'
  BY DEF TypeOK, DirectoryTypeOK, Phases, Edits
<1>2. \A d \in Commands : EditFits(d)'
  BY DEF EditFits, TypeOK
<1>3. \A d \in Commands : TargetKnown(d)'
  BY DEF TargetKnown, EditFits, TypeOK
<1>4. \A d \in Commands : FindingsSound(d)'
  BY DEF FindingsSound, EditFits, TypeOK
<1>5. SelectionsSound' /\ FullFilesSound' /\ RecordNamesItsFullspec'
  BY Undisturbed
<1>8. ForeignBlocks'
  BY DEF ForeignBlocks, TypeOK
<1> QED
  BY <1>1, <1>2, <1>3, <1>4, <1>5, <1>8 DEF EnvInv

(* A create has nothing selected or written yet.                           *)
LEMMA StartCreateKeeps ==
    ASSUME EnvInv, NEW c \in Commands, StartCreate(c),
           overlapped' \in BOOLEAN
    PROVE  EnvInv'
<1> USE FilesAssumption, JobAssumption
        DEF EnvInv, StartCreate, Goto, Present, Readable, directoryVars,
           commandVars, historyVars, Jobs, Begins, Initialized, Proceed, Reports
<1>1. TypeOK'
  BY DEF TypeOK, DirectoryTypeOK, Phases, Edits
<1>2. \A d \in Commands : EditFits(d)'
  BY DEF EditFits, TypeOK
<1>3. \A d \in Commands : TargetKnown(d)'
  BY DEF TargetKnown, EditFits, TypeOK
<1>4. \A d \in Commands : FindingsSound(d)'
  BY DEF FindingsSound, EditFits, TypeOK
<1>5. SelectionsSound' /\ FullFilesSound' /\ RecordNamesItsFullspec'
  BY Undisturbed
<1>8. ForeignBlocks'
  BY DEF ForeignBlocks, TypeOK
<1> QED
  BY <1>1, <1>2, <1>3, <1>4, <1>5, <1>8 DEF EnvInv

(* A create that reports reads, and changes nothing.                       *)
LEMMA ReportKeeps ==
    ASSUME EnvInv, NEW c \in Commands, Report(c),
           overlapped' \in BOOLEAN
    PROVE  EnvInv'
<1> USE FilesAssumption, JobAssumption
        DEF EnvInv, Report, Goto, directoryVars, historyVars, Jobs
<1>1. TypeOK'
  BY DEF TypeOK, DirectoryTypeOK, Phases
<1>2. \A d \in Commands : EditFits(d)'
  BY DEF EditFits, TypeOK
<1>3. \A d \in Commands : TargetKnown(d)'
  BY DEF TargetKnown, EditFits, TypeOK
<1>4. \A d \in Commands : FindingsSound(d)'
  BY DEF FindingsSound, EditFits, TypeOK
<1>5. SelectionsSound' /\ FullFilesSound' /\ RecordNamesItsFullspec'
  BY Undisturbed
<1>8. ForeignBlocks'
  BY DEF ForeignBlocks, TypeOK
<1> QED
  BY <1>1, <1>2, <1>3, <1>4, <1>5, <1>8 DEF EnvInv

(* A switch has read a fullspec that was written for its product.          *)
LEMMA StartSwitchKeeps ==
    ASSUME EnvInv, NEW c \in Commands, StartSwitch(c),
           overlapped' \in BOOLEAN
    PROVE  EnvInv'
<1> USE FilesAssumption, JobAssumption
        DEF EnvInv, StartSwitch, Goto, Present, Readable, directoryVars,
           commandVars, historyVars, Jobs, Begins, Initialized, Proceed, Reports
<1>a. Job[c].product \in Products /\ files[FullFile(Job[c].product)] \in Fullspecs
  BY DEF TypeOK
<1>b. /\ got' \in [Commands -> Finding]
      /\ got'[c].full = files[FullFile(Job[c].product)]
      /\ \A d \in Commands : d # c => got'[d] = got[d]
  BY <1>a, FindingUpdate DEF TypeOK
<1>1. TypeOK'
  BY <1>b DEF TypeOK, DirectoryTypeOK, Phases, Edits
<1>2. \A d \in Commands : EditFits(d)'
  BY DEF EditFits, TypeOK
<1>3. \A d \in Commands : TargetKnown(d)'
  BY DEF TargetKnown, EditFits, TypeOK
<1>4. \A d \in Commands : FindingsSound(d)'
  <2> SUFFICES ASSUME NEW d \in Commands PROVE FindingsSound(d)'
    OBVIOUS
  <2>1. CASE d = c
    <3>1. <<FullFile(Job[c].product), got'[c].full>> \in written'
      BY <1>a, <1>b DEF FullFilesSound
    <3> QED
      BY <2>1, <3>1 DEF FindingsSound, TypeOK
  <2>2. CASE d # c
    BY <1>b, <2>2 DEF FindingsSound, TypeOK
  <2> QED
    BY <2>1, <2>2
<1>5. SelectionsSound' /\ FullFilesSound' /\ RecordNamesItsFullspec'
  BY Undisturbed
<1>8. ForeignBlocks'
  BY DEF ForeignBlocks, TypeOK
<1> QED
  BY <1>1, <1>2, <1>3, <1>4, <1>5, <1>8 DEF EnvInv

(* The tail of an unbootstrap starts.                                      *)
LEMMA StartUnbootstrapKeeps ==
    ASSUME EnvInv, NEW c \in Commands, StartUnbootstrap(c),
           overlapped' \in BOOLEAN
    PROVE  EnvInv'
<1> USE FilesAssumption, JobAssumption
        DEF EnvInv, StartUnbootstrap, Goto, Present, Readable, directoryVars,
           commandVars, historyVars, Jobs, Begins, Initialized, Proceed, Reports
<1>1. TypeOK'
  BY DEF TypeOK, DirectoryTypeOK, Phases, Edits
<1>2. \A d \in Commands : EditFits(d)'
  BY DEF EditFits, TypeOK
<1>3. \A d \in Commands : TargetKnown(d)'
  BY DEF TargetKnown, EditFits, TypeOK
<1>4. \A d \in Commands : FindingsSound(d)'
  BY DEF FindingsSound, EditFits, TypeOK
<1>5. SelectionsSound' /\ FullFilesSound' /\ RecordNamesItsFullspec'
  BY Undisturbed
<1>8. ForeignBlocks'
  BY DEF ForeignBlocks, TypeOK
<1> QED
  BY <1>1, <1>2, <1>3, <1>4, <1>5, <1>8 DEF EnvInv

(* A bootstrap finds a selection, or looks its name up in the product files.*)
LEMMA StartBootstrapKeeps ==
    ASSUME EnvInv, NEW c \in Commands, StartBootstrap(c),
           overlapped' \in BOOLEAN
    PROVE  EnvInv'
<1> USE FilesAssumption, JobAssumption, FilesDiffer, NothingSaid
        DEF EnvInv, StartBootstrap, Goto, Present, Readable, directoryVars,
           commandVars, historyVars, Jobs, Begins, Initialized,
           SelectedNames, Matches
<1>a. files[SpecFile] \in Settings /\ files[SpecFile].active \in Fullspecs
  BY DEF Settings
<1>b. PICK p \in SelectedNames : got' = [got EXCEPT ![c] =
                   [full |-> files[SpecFile].active, name |-> p, input |-> NoInput,
                    target |-> IF files[SpecFile].target = NoTarget
                               THEN Job[c].target ELSE files[SpecFile].target]]
  OBVIOUS
<1>c. p # NoProduct => p \in Products /\ <<FullFile(p), files[SpecFile].active>> \in written
  BY <1>a DEF SelectionsSound, Sound, FullFilesSound, Settings
<1>d. Job[c].target \in Targets /\ Job[c].op = "bootstrap"
  OBVIOUS
<1>e. /\ got' \in [Commands -> Finding]
      /\ got'[c].full = files[SpecFile].active /\ got'[c].name = p
      /\ got'[c].target \in Targets
      /\ \A d \in Commands : d # c => got'[d] = got[d]
  BY <1>a, <1>b, <1>c, <1>d DEF TypeOK, Finding, Settings
<1>1. TypeOK'
  BY <1>e DEF TypeOK, DirectoryTypeOK, Phases, Edits
<1>2. \A d \in Commands : EditFits(d)'
  BY DEF EditFits, TypeOK
<1>3. \A d \in Commands : TargetKnown(d)'
  BY <1>e DEF TargetKnown, TypeOK
<1>4. \A d \in Commands : FindingsSound(d)'
  BY <1>c, <1>d, <1>e DEF FindingsSound, EditFits, TypeOK
<1>5. SelectionsSound' /\ FullFilesSound' /\ RecordNamesItsFullspec'
  BY Undisturbed
<1>8. ForeignBlocks'
  BY DEF ForeignBlocks, TypeOK
<1> QED
  BY <1>1, <1>2, <1>3, <1>4, <1>5, <1>8 DEF EnvInv

(* The input joins the finding and changes nothing else of it.             *)
LEMMA ReadProductKeeps ==
    ASSUME EnvInv, NEW c \in Commands, ReadProduct(c),
           overlapped' \in BOOLEAN
    PROVE  EnvInv'
<1> USE FilesAssumption, JobAssumption
        DEF EnvInv, ReadProduct, Goto, Present, Readable, directoryVars,
           commandVars, historyVars, Jobs, Proceed, Reports
<1>a. /\ got' \in [Commands -> Finding]
      /\ got'[c].full = got[c].full /\ got'[c].name = got[c].name
      /\ got'[c].target = got[c].target
      /\ \A d \in Commands : d # c => got'[d] = got[d]
  <2>1. CASE UNCHANGED got
    BY <2>1 DEF TypeOK
  <2>2. CASE /\ files[SourceFile(got[c].name)] \in Documents
             /\ got' = [got EXCEPT ![c].input = files[SourceFile(got[c].name)]]
    BY <2>2, FindingUpdate DEF TypeOK
  <2> QED
    BY <2>1, <2>2
<1>1. TypeOK'
  BY <1>a DEF TypeOK, DirectoryTypeOK, Phases, Edits
<1>2. \A d \in Commands : EditFits(d)'
  BY DEF EditFits, TypeOK
<1>3. \A d \in Commands : TargetKnown(d)'
  BY <1>a DEF TargetKnown, EditFits, TypeOK
<1>4. \A d \in Commands : FindingsSound(d)'
  <2>1. Job[c].op = "bootstrap" /\ written' = written
    BY DEF EditFits
  <2>2. ASSUME NEW d \in Commands, d # c PROVE FindingsSound(d)'
    BY <1>a, <2>2 DEF FindingsSound, TypeOK
  <2>3. FindingsSound(c)'
    BY <1>a, <2>1 DEF FindingsSound, TypeOK
  <2> QED
    BY <2>2, <2>3
<1>5. SelectionsSound' /\ FullFilesSound' /\ RecordNamesItsFullspec'
  BY Undisturbed
<1>8. ForeignBlocks'
  BY DEF ForeignBlocks, TypeOK
<1> QED
  BY <1>1, <1>2, <1>3, <1>4, <1>5, <1>8 DEF EnvInv

(* What is recorded is what was found.                                     *)
LEMMA RecordLakeKeeps ==
    ASSUME EnvInv, NEW c \in Commands, RecordLake(c),
           overlapped' \in BOOLEAN
    PROVE  EnvInv'
<1> USE FilesAssumption, JobAssumption
        DEF EnvInv, RecordLake, Goto, Present, Readable, directoryVars,
           commandVars, historyVars, Jobs
<1>a. got[c] \in Finding /\ Job[c].op = "bootstrap" /\ got[c].target \in Targets
  BY DEF TypeOK, EditFits, TargetKnown
<1>b. files[SpecFile].target \in Targets
  BY DEF Settings
<1> DEFINE r == [by |-> c, found |-> got[c], namespace |-> files[SpecFile].target]
<1>d. r.found.name # NoProduct => <<FullFile(r.found.name), r.found.full>> \in written
  BY <1>a DEF FindingsSound
<1>e. r \in Record
  BY <1>a, <1>b DEF Record
<1>1. TypeOK'
  BY <1>e DEF TypeOK, DirectoryTypeOK, Phases
<1>2. \A d \in Commands : EditFits(d)'
  BY DEF EditFits, TypeOK
<1>3. \A d \in Commands : TargetKnown(d)'
  BY DEF TargetKnown, EditFits, TypeOK
<1>4. \A d \in Commands : FindingsSound(d)'
  BY DEF FindingsSound, EditFits, TypeOK
<1>5. SelectionsSound'
  BY DEF SelectionsSound, Sound, TypeOK
<1>6. FullFilesSound'
  BY DEF FullFilesSound, TypeOK, DirectoryTypeOK
<1>7. RecordNamesItsFullspec'
  BY <1>d DEF RecordNamesItsFullspec
<1>8. ForeignBlocks'
  BY DEF ForeignBlocks, TypeOK
<1> QED
  BY <1>1, <1>2, <1>3, <1>4, <1>5, <1>6, <1>7, <1>8 DEF EnvInv

(* A removal lists the files.                                              *)
LEMMA StartRemoveKeeps ==
    ASSUME EnvInv, NEW c \in Commands, StartRemove(c),
           overlapped' \in BOOLEAN
    PROVE  EnvInv'
<1> USE FilesAssumption, JobAssumption
        DEF EnvInv, StartRemove, Goto, Present, Readable, directoryVars,
           commandVars, historyVars, Jobs, Begins, Initialized
<1>1. TypeOK'
  BY DEF TypeOK, DirectoryTypeOK, Phases, Edits
<1>2. \A d \in Commands : EditFits(d)'
  BY DEF EditFits, TypeOK
<1>3. \A d \in Commands : TargetKnown(d)'
  BY DEF TargetKnown, EditFits, TypeOK
<1>4. \A d \in Commands : FindingsSound(d)'
  BY DEF FindingsSound, EditFits, TypeOK
<1>5. SelectionsSound' /\ FullFilesSound' /\ RecordNamesItsFullspec'
  BY Undisturbed
<1>8. ForeignBlocks'
  BY DEF ForeignBlocks, TypeOK
<1> QED
  BY <1>1, <1>2, <1>3, <1>4, <1>5, <1>8 DEF EnvInv

(* An unlinked file says nothing.                                          *)
LEMMA UnlinkFileKeeps ==
    ASSUME EnvInv, NEW c \in Commands, UnlinkFile(c),
           overlapped' \in BOOLEAN
    PROVE  EnvInv'
<1> USE FilesAssumption, JobAssumption, FilesDiffer, NothingSaid
        DEF EnvInv, UnlinkFile, Goto, Present, Readable, directoryVars,
           commandVars, historyVars, Jobs, Unlink
<1>a. files'[SpecFile] \in {files[SpecFile], NoFile} /\ UNCHANGED <<snap, written>>
  BY DEF TypeOK, DirectoryTypeOK
<1>1. TypeOK'
  BY DEF TypeOK, DirectoryTypeOK, Phases, Edits
<1>2. \A d \in Commands : EditFits(d)'
  BY DEF EditFits, TypeOK
<1>3. \A d \in Commands : TargetKnown(d)'
  BY DEF TargetKnown, EditFits, TypeOK
<1>4. \A d \in Commands : FindingsSound(d)'
  BY DEF FindingsSound, EditFits, TypeOK
<1>5. SelectionsSound'
  BY <1>a DEF SelectionsSound, Sound
<1>6. FullFilesSound'
  BY DEF FullFilesSound, TypeOK, DirectoryTypeOK
<1>7. RecordNamesItsFullspec'
  BY DEF RecordNamesItsFullspec, FindingsSound, TypeOK
<1>8. ForeignBlocks'
  BY DEF ForeignBlocks, TypeOK, DirectoryTypeOK
<1> QED
  BY <1>1, <1>2, <1>3, <1>4, <1>5, <1>6, <1>7, <1>8 DEF EnvInv

(* The directory goes when no file is left.                                *)
LEMMA RemoveDirectoryKeeps ==
    ASSUME EnvInv, NEW c \in Commands, RemoveDirectory(c),
           overlapped' \in BOOLEAN
    PROVE  EnvInv'
<1> USE FilesAssumption, JobAssumption
        DEF EnvInv, RemoveDirectory, Goto, Present, Readable, directoryVars,
           commandVars, historyVars, Jobs
<1>1. TypeOK'
  BY DEF TypeOK, DirectoryTypeOK, Phases, Edits
<1>2. \A d \in Commands : EditFits(d)'
  BY DEF EditFits, TypeOK
<1>3. \A d \in Commands : TargetKnown(d)'
  BY DEF TargetKnown, EditFits, TypeOK
<1>4. \A d \in Commands : FindingsSound(d)'
  BY DEF FindingsSound, EditFits, TypeOK
<1>5. SelectionsSound' /\ FullFilesSound' /\ RecordNamesItsFullspec'
  BY Undisturbed
<1>8. ForeignBlocks'
  BY DEF ForeignBlocks, TypeOK
<1> QED
  BY <1>1, <1>2, <1>3, <1>4, <1>5, <1>8 DEF EnvInv

(* The next edit fits the command.                                         *)
LEMMA SkipEditKeeps ==
    ASSUME EnvInv, NEW c \in Commands, SkipEdit(c),
           overlapped' \in BOOLEAN
    PROVE  EnvInv'
<1> USE FilesAssumption, JobAssumption
        DEF EnvInv, SkipEdit, Goto, Present, Readable, directoryVars,
           commandVars, historyVars, Jobs, Proceed, Reports, NextEdit, LastEdit,
           AlreadyDone
<1>1. TypeOK'
  BY DEF TypeOK, DirectoryTypeOK, Phases, Edits
<1>2. \A d \in Commands : EditFits(d)'
  BY DEF EditFits, TypeOK
<1>3. \A d \in Commands : TargetKnown(d)'
  BY DEF TargetKnown, EditFits, TypeOK
<1>4. \A d \in Commands : FindingsSound(d)'
  BY DEF FindingsSound, EditFits, TypeOK
<1>5. SelectionsSound' /\ FullFilesSound' /\ RecordNamesItsFullspec'
  BY Undisturbed
<1>8. ForeignBlocks'
  BY DEF ForeignBlocks, TypeOK
<1> QED
  BY <1>1, <1>2, <1>3, <1>4, <1>5, <1>8 DEF EnvInv

(* A create selects the fullspec it has written.                           *)
LEMMA SelectFirstKeeps ==
    ASSUME EnvInv, NEW c \in Commands, SelectFirst(c),
           overlapped' \in BOOLEAN
    PROVE  EnvInv'
<1> USE FilesAssumption, JobAssumption
        DEF EnvInv, SelectFirst, Goto, Present, Readable, directoryVars,
           commandVars, historyVars, Jobs, Proceed, Reports, AlreadyDone
<1>a. Job[c].op = "create" /\ Job[c].product \in Products /\ FullspecOf[Job[c].input] \in Fullspecs
  BY DEF EditFits, TypeOK
<1>b. /\ got' \in [Commands -> Finding]
      /\ got'[c].full = FullspecOf[Job[c].input]
      /\ \A d \in Commands : d # c => got'[d] = got[d]
  BY <1>a, FindingUpdate DEF TypeOK
<1>1. TypeOK'
  BY <1>b DEF TypeOK, DirectoryTypeOK, Phases, Edits
<1>2. \A d \in Commands : EditFits(d)'
  BY DEF EditFits, TypeOK
<1>3. \A d \in Commands : TargetKnown(d)'
  BY DEF TargetKnown, EditFits, TypeOK
<1>4. \A d \in Commands : FindingsSound(d)'
  <2> SUFFICES ASSUME NEW d \in Commands PROVE FindingsSound(d)'
    OBVIOUS
  <2>1. CASE d = c
    <3>1. <<FullFile(Job[c].product), FullspecOf[Job[c].input]>> \in written
      BY <1>a DEF FindingsSound
    <3>2. <<FullFile(Job[c].product), got'[c].full>> \in written'
      BY <1>b, <3>1
    <3> QED
      BY <1>a, <2>1, <3>2 DEF FindingsSound, TypeOK
  <2>2. CASE d # c
    BY <1>b, <2>2 DEF FindingsSound, TypeOK
  <2> QED
    BY <2>1, <2>2
<1>5. SelectionsSound' /\ FullFilesSound' /\ RecordNamesItsFullspec'
  BY Undisturbed
<1>8. ForeignBlocks'
  BY DEF ForeignBlocks, TypeOK
<1> QED
  BY <1>1, <1>2, <1>3, <1>4, <1>5, <1>8 DEF EnvInv

(* What was read is what spec.json says.                                   *)
LEMMA ReadForEditKeeps ==
    ASSUME EnvInv, NEW c \in Commands, ReadForEdit(c),
           overlapped' \in BOOLEAN
    PROVE  EnvInv'
<1> USE FilesAssumption, JobAssumption
        DEF EnvInv, ReadForEdit, Goto, Present, Readable, directoryVars,
           commandVars, historyVars, Jobs, AlreadyDone
<1>1. TypeOK'
  BY DEF TypeOK, DirectoryTypeOK, Phases, Edits
<1>2. \A d \in Commands : EditFits(d)'
  BY DEF EditFits, TypeOK
<1>3. \A d \in Commands : TargetKnown(d)'
  BY DEF TargetKnown, EditFits, TypeOK
<1>4. \A d \in Commands : FindingsSound(d)'
  BY DEF FindingsSound, EditFits, TypeOK
<1>5. SelectionsSound'
  BY DEF SelectionsSound, Sound, TypeOK
<1>6. FullFilesSound'
  BY DEF FullFilesSound, TypeOK, DirectoryTypeOK
<1>7. RecordNamesItsFullspec'
  BY DEF RecordNamesItsFullspec, FindingsSound, TypeOK
<1>8. ForeignBlocks'
  BY DEF ForeignBlocks, TypeOK
<1> QED
  BY <1>1, <1>2, <1>3, <1>4, <1>5, <1>6, <1>7, <1>8 DEF EnvInv

(* An opened file says nothing.                                            *)
LEMMA OpenForEditKeeps ==
    ASSUME EnvInv, NEW c \in Commands, OpenForEdit(c),
           overlapped' \in BOOLEAN
    PROVE  EnvInv'
<1> USE FilesAssumption, JobAssumption, FilesDiffer, NothingSaid
        DEF EnvInv, OpenForEdit, Goto, Present, Readable, directoryVars,
           commandVars, historyVars, Jobs, OpenFile, EditedFile
<1>a. EditedFile(c) \in Files
  BY DEF EditFits, TypeOK
<1>b. files'[SpecFile] \in {files[SpecFile], Empty} /\ UNCHANGED <<snap, written>>
  BY <1>a DEF TypeOK, DirectoryTypeOK
<1>1. TypeOK'
  BY <1>a DEF TypeOK, DirectoryTypeOK, Phases
<1>2. \A d \in Commands : EditFits(d)'
  BY DEF EditFits, TypeOK
<1>3. \A d \in Commands : TargetKnown(d)'
  BY DEF TargetKnown, EditFits, TypeOK
<1>4. \A d \in Commands : FindingsSound(d)'
  BY DEF FindingsSound, EditFits, TypeOK
<1>5. SelectionsSound'
  BY <1>b DEF SelectionsSound, Sound
<1>6. FullFilesSound'
  BY DEF FullFilesSound, TypeOK, DirectoryTypeOK
<1>7. RecordNamesItsFullspec'
  BY DEF RecordNamesItsFullspec, FindingsSound, TypeOK
<1>8. ForeignBlocks'
  BY DEF ForeignBlocks, TypeOK
<1> QED
  BY <1>1, <1>2, <1>3, <1>4, <1>5, <1>6, <1>7, <1>8 DEF EnvInv

(* A written file says what the command found or was asked for, or nothing.*)
LEMMA FillForEditKeeps ==
    ASSUME EnvInv, NEW c \in Commands, FillForEdit(c),
           overlapped' \in BOOLEAN
    PROVE  EnvInv'
<1> USE FilesAssumption, JobAssumption, FilesDiffer, NothingSaid
        DEF EnvInv, FillForEdit, Goto, Present, Readable, directoryVars,
           commandVars, historyVars, Jobs, FillFile, EditedFile, Proceed, Reports,
           NextEdit, LastEdit
<1>a. /\ EditedFile(c) \in Files
      /\ edit[c] \in Edits
  BY DEF EditFits, TypeOK
<1>b. Base(c) \in Settings /\ Sound(Base(c))
  BY BlankIsSettings DEF Base, SelectionsSound, Sound, TypeOK
<1>c. edit[c] \notin {"main", "source", "full"} =>
        NewSettings(c) \in Settings /\ Sound(NewSettings(c))
  <2> SUFFICES ASSUME edit[c] \notin {"main", "source", "full"}
               PROVE  NewSettings(c) \in Settings /\ Sound(NewSettings(c))
    OBVIOUS
  <2>1. CASE edit[c] \in {"mark", "forget"}
    <3>1. /\ NewSettings(c) \in Settings
          /\ NewSettings(c).name = Base(c).name
          /\ NewSettings(c).active = Base(c).active
      BY <1>b, <2>1 DEF NewSettings, Settings
    <3> QED
      BY <1>b, <3>1 DEF Sound
  <2>2. CASE edit[c] = "target"
    <3>1. Job[c].target \in Targets
      BY <2>2 DEF EditFits
    <3>2. /\ NewSettings(c) \in Settings
          /\ NewSettings(c).name = Base(c).name
          /\ NewSettings(c).active = Base(c).active
      BY <1>b, <2>2, <3>1 DEF NewSettings, Settings
    <3> QED
      BY <1>b, <3>2 DEF Sound
  <2>3. CASE edit[c] = "retarget"
    <3>1. got[c].target \in Targets
      BY <2>3 DEF EditFits, TargetKnown
    <3>2. /\ NewSettings(c) \in Settings
          /\ NewSettings(c).name = Base(c).name
          /\ NewSettings(c).active = Base(c).active
      BY <1>b, <2>3, <3>1 DEF NewSettings, Settings
    <3> QED
      BY <1>b, <3>2 DEF Sound
  <2>4. CASE edit[c] = "select"
    <3>1. /\ Job[c].product \in Products
          /\ got[c].full \in Fullspecs \cup {NoFullspec}
          /\ <<FullFile(Job[c].product), got[c].full>> \in written
      BY <2>4 DEF EditFits, FindingsSound, TypeOK, Finding
    <3> DEFINE q == [Base(c) EXCEPT !.active = got[c].full, !.name = Job[c].product]
    <3>2. NewSettings(c) = q
      BY <2>4 DEF NewSettings
    <3>3. q \in Settings /\ q.name = Job[c].product /\ q.active = got[c].full
      BY <1>b, <3>1 DEF Settings
    <3> QED
      BY <3>1, <3>2, <3>3 DEF Sound
  <2>5. edit[c] # "first"
    BY DEF EditFits
  <2> QED
    BY <1>a, <2>1, <2>2, <2>3, <2>4, <2>5 DEF Edits, EditFits
<1>d. /\ edit[c] = "main" => NewText(c) = Managed
      /\ edit[c] = "source" /\ EditedFile(c) # SpecFile => NewText(c) \in Inputs
      /\ edit[c] = "source" /\ EditedFile(c) = SpecFile => NewText(c) = Blank
      /\ edit[c] = "full" => NewText(c) \in Fullspecs
      /\ edit[c] \notin {"main", "source", "full"} =>
           NewText(c) \in Settings /\ Sound(NewText(c))
      /\ NewText(c) \in Texts
      /\ edit[c] \in {"source", "full"} => NewText(c) \in Documents
  BY <1>a, <1>c, BlankIsSettings DEF NewText, EditFits, Texts, Documents
<1>e. files' = files \/ \E t \in {NewText(c), Garbled} :
                             files' = [files EXCEPT ![EditedFile(c)] = t]
  OBVIOUS
<1>f. /\ written \subseteq written'
      /\ edit[c] \in {"source", "full"} => <<EditedFile(c), NewText(c)>> \in written'
      /\ written' \subseteq Files \X Documents
  BY <1>a, <1>d DEF EditFits, TypeOK
<1>1. TypeOK'
  <2>1. DirectoryTypeOK'
    <3>1. Garbled \in Texts
      OBVIOUS
    <3>2. files' \in [Files -> Texts]
      BY <1>a, <1>d, <1>e, <3>1 DEF TypeOK, DirectoryTypeOK
    <3> QED
      BY <3>2 DEF TypeOK, DirectoryTypeOK
  <2>2. pc' \in [Commands -> Phases] /\ edit' \in [Commands -> Edits \cup {"none"}]
    BY DEF TypeOK, Phases, Edits
  <2> QED
    BY <1>f, <2>1, <2>2 DEF TypeOK
<1>2. \A d \in Commands : EditFits(d)'
  BY DEF EditFits, TypeOK
<1>3. \A d \in Commands : TargetKnown(d)'
  BY DEF TargetKnown, EditFits, TypeOK
<1>4. \A d \in Commands : FindingsSound(d)'
  <2> SUFFICES ASSUME NEW d \in Commands PROVE FindingsSound(d)'
    OBVIOUS
  <2>1. CASE d = c
    <3>1. edit[c] = "full" => <<FullFile(Job[c].product), FullspecOf[Job[c].input]>> \in written'
      BY <1>f DEF NewText
    <3>2. edit'[c] = "first" => edit[c] = "full"
      BY DEF TypeOK
    <3>3. edit'[c] # "select"
      BY DEF TypeOK
    <3> QED
      BY <1>f, <2>1, <3>1, <3>2, <3>3 DEF FindingsSound, TypeOK
  <2>2. CASE d # c
    BY <1>f, <2>2 DEF FindingsSound, TypeOK
  <2> QED
    BY <2>1, <2>2
<1>5. SelectionsSound'
  <2>1. \A s : Sound(s) => Sound(s)'
    BY <1>f DEF Sound
  <2>2. files'[SpecFile] \in {files[SpecFile], Garbled, NewText(c)}
    BY <1>a, <1>e DEF TypeOK, DirectoryTypeOK
  <2>3. files'[SpecFile] = NewText(c) => Sound(NewText(c)) \/ files'[SpecFile] = files[SpecFile]
    <3>1. Sound(Blank)
      BY BlankIsSettings DEF Sound
    <3> QED
      BY <1>a, <1>d, <1>e, <3>1 DEF TypeOK, DirectoryTypeOK, EditFits
  <2>4. Sound(Garbled)
    BY DEF Sound
  <2> QED
    BY <2>1, <2>2, <2>3, <2>4 DEF SelectionsSound
<1>6. FullFilesSound'
  <2> SUFFICES ASSUME NEW p \in Products, files'[FullFile(p)] \in Fullspecs
               PROVE  <<FullFile(p), files'[FullFile(p)]>> \in written'
    BY DEF FullFilesSound
  <2>1. CASE files'[FullFile(p)] = files[FullFile(p)]
    BY <1>f, <2>1 DEF FullFilesSound
  <2>2. CASE files'[FullFile(p)] # files[FullFile(p)]
    <3>1. EditedFile(c) = FullFile(p) /\ files'[FullFile(p)] = NewText(c)
      BY <1>a, <1>e, <2>2 DEF TypeOK, DirectoryTypeOK
    <3>2. edit[c] \in {"source", "full"}
      BY <3>1 DEF EditFits
    <3> QED
      BY <1>f, <3>1, <3>2
  <2> QED
    BY <2>1, <2>2
<1>7. RecordNamesItsFullspec'
  BY DEF RecordNamesItsFullspec, FindingsSound, TypeOK
<1>8. ForeignBlocks'
  <2>1. files'[MainFile] = Foreign => files[MainFile] = Foreign
    BY <1>a, <1>d, <1>e DEF EditFits, TypeOK, DirectoryTypeOK
  <2>2. edit'[c] # "main"
    BY DEF TypeOK
  <2> QED
    BY <2>1, <2>2 DEF ForeignBlocks, TypeOK
<1> QED
  BY <1>1, <1>2, <1>3, <1>4, <1>5, <1>6, <1>7, <1>8 DEF EnvInv

(* A command that ends does nothing any more.                              *)
LEMMA AbortKeeps ==
    ASSUME EnvInv, NEW c \in Commands, Abort(c),
           overlapped' \in BOOLEAN
    PROVE  EnvInv'
<1> USE FilesAssumption, JobAssumption
        DEF EnvInv, Abort, Goto, Present, Readable, directoryVars,
           commandVars, historyVars, Jobs, CloseAll, Running, Over
<1>1. TypeOK'
  BY DEF TypeOK, DirectoryTypeOK, Phases, Edits
<1>2. \A d \in Commands : EditFits(d)'
  BY DEF EditFits, TypeOK
<1>3. \A d \in Commands : TargetKnown(d)'
  BY DEF TargetKnown, EditFits, TypeOK
<1>4. \A d \in Commands : FindingsSound(d)'
  BY DEF FindingsSound, EditFits, TypeOK
<1>5. SelectionsSound' /\ FullFilesSound' /\ RecordNamesItsFullspec'
  BY Undisturbed
<1>8. ForeignBlocks'
  BY DEF ForeignBlocks, TypeOK
<1> QED
  BY <1>1, <1>2, <1>3, <1>4, <1>5, <1>8 DEF EnvInv

-----------------------------------------------------------------------------
(* EnvInv holds at first.                                                  *)
LEMMA InitEnvInv == Init => EnvInv
<1> SUFFICES ASSUME Init PROVE EnvInv
  OBVIOUS
<1> USE FilesAssumption, JobAssumption, FilesDiffer, NothingSaid, BlankIsSettings
        DEF Init
<1>1. /\ files \in [Files -> Texts]
      /\ written \subseteq Files \X Documents
      /\ dir \in BOOLEAN
      /\ Sound(files[SpecFile])
      /\ FullFilesSound
  <2>1. CASE NewDirectory
    BY <2>1 DEF NewDirectory, Sound, FullFilesSound
  <2>2. CASE ForeignDirectory
    BY <2>2 DEF ForeignDirectory, Sound, FullFilesSound, Readable, Texts, Documents
  <2>3. CASE OlderDirectory
    <3>1. PICK p \in Products, i \in Inputs, main \in {Managed, Foreign} :
            /\ p # SpecName
            /\ files = [f \in Files |->
                       IF f = MainFile THEN main
                       ELSE IF f = SpecFile THEN OlderSettings(i)
                       ELSE IF f = SourceFile(p) THEN i
                       ELSE IF f = FullFile(p) THEN FullspecOf[i] ELSE NoFile]
            /\ written = {<<SourceFile(p), i>>, <<FullFile(p), FullspecOf[i]>>}
      BY <2>3 DEF OlderDirectory
    <3>2. OlderSettings(i) \in Settings /\ OlderSettings(i).name = NoProduct
      BY OlderIsSettings
    <3>3. FullspecOf[i] \in Fullspecs
      OBVIOUS
    <3>4. \A f \in Files : files[f] \in Texts
      BY <3>1, <3>2, <3>3 DEF Texts, Documents
    <3>5. FullFilesSound
      <4> SUFFICES ASSUME NEW q \in Products, files[FullFile(q)] \in Fullspecs
                   PROVE  <<FullFile(q), files[FullFile(q)]>> \in written
        BY DEF FullFilesSound
      <4>1. FullFile(q) = SourceFile(p) \/ FullFile(q) = FullFile(p)
        BY <3>1
      <4> QED
        BY <3>1, <4>1
    <3>6. Sound(files[SpecFile])
      BY <3>1, <3>2 DEF Sound
    <3>7. written \subseteq Files \X Documents
      BY <3>1, <3>3 DEF Documents
    <3> QED
      BY <2>3, <3>1, <3>4, <3>5, <3>6, <3>7 DEF OlderDirectory
  <2> QED
    BY <2>1, <2>2, <2>3
<1>2. TypeOK
  BY <1>1 DEF TypeOK, DirectoryTypeOK, Phases, Finding, Nothing
<1>3. \A c \in Commands : EditFits(c) /\ TargetKnown(c)
  BY DEF EditFits, TargetKnown
<1>4. \A c \in Commands : FindingsSound(c)
  BY DEF FindingsSound, Nothing
<1>5. SelectionsSound
  BY <1>1 DEF SelectionsSound, Sound
<1>6. RecordNamesItsFullspec /\ ForeignBlocks
  BY <1>1 DEF RecordNamesItsFullspec, ForeignBlocks
<1> QED
  BY <1>1, <1>2, <1>3, <1>4, <1>5, <1>6 DEF EnvInv

(* Every step keeps EnvInv.                                                *)
LEMMA StepKeeps == EnvInv /\ [Next]_vars => EnvInv'
<1>1. ASSUME EnvInv, NEW c \in Commands, Step(c) PROVE EnvInv'
  <2>1. overlapped' \in BOOLEAN
    BY <1>1 DEF Step, EnvInv, TypeOK
  <2>2. CASE Start(c)
    BY <1>1, <2>1, <2>2, StartAddKeeps, StartCreateKeeps, StartSwitchKeeps,
       StartUnbootstrapKeeps, StartBootstrapKeeps, StartRemoveKeeps DEF Start
  <2>3. CASE MakeEdit(c)
    BY <1>1, <2>1, <2>3, SkipEditKeeps, SelectFirstKeeps, ReadForEditKeeps,
       OpenForEditKeeps, FillForEditKeeps DEF MakeEdit
  <2> QED
    BY <1>1, <2>1, <2>2, <2>3, CheckAdoptionKeeps, ReportKeeps, ReadProductKeeps,
       RecordLakeKeeps, UnlinkFileKeeps, RemoveDirectoryKeeps, AbortKeeps
       DEF Step, Act
<1>2. ASSUME EnvInv, UNCHANGED vars PROVE EnvInv'
  <2> USE <1>2 DEF vars, directoryVars, commandVars, historyVars
  <2>1. TypeOK'
    BY DEF EnvInv, TypeOK, DirectoryTypeOK
  <2>2. \A c \in Commands : EditFits(c)' /\ TargetKnown(c)' /\ FindingsSound(c)'
    BY DEF EnvInv, EditFits, TargetKnown, FindingsSound
  <2>3. SelectionsSound' /\ FullFilesSound'
    BY DEF EnvInv, SelectionsSound, Sound, FullFilesSound
  <2>4. RecordNamesItsFullspec' /\ ForeignBlocks'
    BY DEF EnvInv, RecordNamesItsFullspec, ForeignBlocks, Readable
  <2> QED
    BY <2>1, <2>2, <2>3, <2>4 DEF EnvInv
<1> QED
  BY <1>1, <1>2 DEF Next

(* EnvInv is an invariant: selections in spec.json and in what a command   *)
(* read of it, names of findings, and no write begun over a foreign        *)
(* entrypoint.                                                             *)
THEOREM EnvironmentInvariant == Spec => []EnvInv
  BY InitEnvInv, StepKeeps, PTL DEF Spec

(* Every variable keeps its type, in particular no empty or garbled file   *)
(* is taken for settings, a fullspec or an input (common.py,               *)
(* read_environment_json).                                                 *)
THEOREM EnvironmentTypeCorrect == Spec => []TypeOK
<1>1. EnvInv => TypeOK
  BY DEF EnvInv
<1> QED
  BY <1>1, EnvironmentInvariant, PTL

(* What spec.json selects under a product is a fullspec that was written   *)
(* to the file of that product's fullspec, though every command rewrites   *)
(* all of it, none takes a lock and no product name is reserved            *)
(* (environment_spec.py, lake_product.py).                                 *)
THEOREM SelectionsAreWritten == Spec => []SelectionWasWritten
<1>1. EnvInv => SelectionWasWritten
  BY DEF EnvInv, SelectionsSound, Sound, SelectionWasWritten, Readable
<1> QED
  BY <1>1, EnvironmentInvariant, PTL

(* A record names a product to whose fullspec file its fullspec was        *)
(* written, also one that was looked up (cluster.py).                      *)
THEOREM RecordsAreNamed == Spec => []RecordNamesItsFullspec
<1>1. EnvInv => RecordNamesItsFullspec
  BY DEF EnvInv
<1> QED
  BY <1>1, EnvironmentInvariant, PTL

(* In a directory that is not a lake's, no command passes its checks.      *)
LEMMA UntakenStep ==
    ASSUME EnvInv, [Next]_vars, Untaken
    PROVE  Untaken' /\ UNCHANGED files
<1> USE FilesAssumption, FilesDiffer, NothingSaid DEF EnvInv, Untaken
<1>1. ASSUME NEW c \in Commands, Step(c) PROVE UNCHANGED files /\ Untaken'
  <2> USE DEF TypeOK, Goto, directoryVars, Readable, Present
  <2>1. CASE Start(c)
    <3>1. ~Initialized
      BY DEF Initialized
    <3>2. StartAdd(c)
      BY <2>1, <3>1 DEF Start, StartCreate, StartSwitch, StartUnbootstrap,
         StartBootstrap, StartRemove
    <3> QED
      BY <3>2 DEF StartAdd
  <2>2. ~MakeEdit(c) /\ ~Report(c) /\ ~ReadProduct(c) /\ ~RecordLake(c)
          /\ ~UnlinkFile(c) /\ ~RemoveDirectory(c) /\ ~CheckAdoption(c)
    BY DEF MakeEdit, SkipEdit, SelectFirst, ReadForEdit, OpenForEdit, FillForEdit,
       Report, ReadProduct, RecordLake, UnlinkFile, RemoveDirectory, CheckAdoption
  <2>3. CASE Abort(c)
    BY <2>3 DEF Abort, CloseAll
  <2> QED
    BY <1>1, <2>1, <2>2, <2>3 DEF Step, Act
<1>2. CASE UNCHANGED vars
  BY <1>2 DEF vars, directoryVars, commandVars, Readable
<1> QED
  BY <1>1, <1>2 DEF Next

(* Whatever writes, it does not write over a foreign entrypoint.           *)
LEMMA ForeignStep ==
    ASSUME EnvInv, [Next]_vars, files[MainFile] = Foreign
    PROVE  files'[MainFile] \in {Foreign, NoFile}
<1> USE FilesAssumption, JobAssumption, FilesDiffer, NothingSaid
        DEF EnvInv, TypeOK, DirectoryTypeOK
<1>1. ASSUME NEW c \in Commands, Step(c)
      PROVE  files'[MainFile] \in {Foreign, NoFile}
  <2>1. CASE OpenForEdit(c) \/ FillForEdit(c)
    <3>1. EditedFile(c) \in Files /\ EditedFile(c) # MainFile
      BY <2>1 DEF EditedFile, EditFits, ForeignBlocks, OpenForEdit, FillForEdit
    <3> QED
      BY <2>1, <3>1 DEF OpenForEdit, OpenFile, FillForEdit, FillFile
  <2>2. CASE UnlinkFile(c)
    BY <2>2 DEF UnlinkFile, Unlink, directoryVars
  <2>3. CASE \/ Start(c) \/ CheckAdoption(c) \/ Report(c) \/ ReadProduct(c)
             \/ RecordLake(c) \/ RemoveDirectory(c) \/ Abort(c)
             \/ SkipEdit(c) \/ SelectFirst(c) \/ ReadForEdit(c)
    BY <2>3 DEF Start, StartAdd, StartCreate, StartSwitch, StartUnbootstrap, StartBootstrap,
       StartRemove, CheckAdoption, Report, ReadProduct, RecordLake, RemoveDirectory, Abort,
       CloseAll, SkipEdit, SelectFirst, ReadForEdit, directoryVars
  <2> QED
    BY <1>1, <2>1, <2>2, <2>3 DEF Step, Act, MakeEdit
<1> QED
  BY <1>1 DEF Next, vars, directoryVars

(* No command touches a directory with an entrypoint that is not the       *)
(* managed one and without the mark of a lake, with or without consent;    *)
(* and in no directory is such an entrypoint written over                  *)
(* (lake_environment.py).                                                  *)
THEOREM ForeignUntouched == Spec => ForeignIsUntouched
<1>1. EnvInv /\ [Next]_vars =>
        [/\ Untaken => Untaken' /\ UNCHANGED files
         /\ files[MainFile] = Foreign => files'[MainFile] \in {Foreign, NoFile}]_vars
  BY UntakenStep, ForeignStep
<1> QED
  BY <1>1, EnvironmentInvariant, PTL DEF Spec, ForeignIsUntouched

-----------------------------------------------------------------------------
(* Commands that take turns.                                               *)

(* One command is at work.                                                 *)
Alone == \A c, d \in Commands : Running(c) /\ Running(d) => c = d

(* What is open is what it writes, and is empty until then.                *)
OpenFiles ==
    /\ \A h \in handles : pc[h.by] = "fill" /\ h.file = EditedFile(h.by)
    /\ \A c \in Commands :
         pc[c] = "fill" =>
            /\ [by |-> c, file |-> EditedFile(c)] \in handles
            /\ files[EditedFile(c)] = Empty

Editing(c) == pc[c] \in {"read", "open", "fill"}
EditsSettings(c) == edit[c] \notin {"main", "source", "full"}

EditsOf(op) ==
    CASE op = "add" -> {"main", "mark", "target"}
      [] op = "create" -> {"source", "full", "first", "select", "target"}
      [] op = "switch" -> {"select"}
      [] op = "bootstrap" -> {"retarget"}
      [] op = "unbootstrap" -> {"forget"}
      [] op = "remove" -> {}

(* The settings, also while they are written.                              *)
Now(c) ==
    IF pc[c] = "fill" /\ EditsSettings(c) THEN Base(c)
    ELSE IF pc[c] = "fill" /\ edit[c] = "source" /\ Overwrites(c) THEN Blank
    ELSE files[SpecFile]

(* What it read of spec.json is what spec.json said until it was emptied.  *)
SnapFits(c) ==
    pc[c] \in {"open", "fill"} /\ EditsSettings(c) =>
        /\ snap[c] \in Settings \/ (snap[c] = NoFile /\ edit[c] = "mark")
        /\ pc[c] = "open" => files[SpecFile] = snap[c]

(* Its product file is spec.json, and is written or being written.         *)
Lapsed(c) == Overwrites(c) /\ ~(pc[c] = "open" /\ edit[c] = "source")

(* All but lake add work in a marked environment, if they do not write a   *)
(* product file over its settings; lake add makes it one.                  *)
InLake(c) ==
    /\ dir
    /\ Editing(c) => edit[c] \in EditsOf(Job[c].op)
    /\ pc[c] = "unlink" <=> Job[c].op = "remove"
    /\ Job[c].op \notin {"add", "remove"} \/ (Editing(c) /\ edit[c] = "target") =>
         /\ Present(MainFile) /\ Now(c) \in Settings
         /\ Now(c).marked \/ Lapsed(c)
    /\ Editing(c) /\ edit[c] = "mark" => Present(MainFile)

(* The edits a lake create has behind it.                                  *)
Made(c) ==
    Job[c].op = "create" =>
        /\ edit[c] # "source" /\ ~Overwrites(c) =>
             files[SourceFile(Job[c].product)] = Job[c].input
        /\ edit[c] \notin {"source", "full"} =>
             files[FullFile(Job[c].product)] = FullspecOf[Job[c].input]
        /\ edit[c] = "select" => got[c].full = FullspecOf[Job[c].input]
        /\ edit[c] \in {"target", "none"} => Now(c).active # NoFullspec
        /\ pc[c] = "report" => edit[c] = "none"

(* What a command found is still so.                                       *)
StillFound(c) ==
    /\ Job[c].op = "switch" =>
         got[c].full \in Fullspecs /\ got[c].full = files[FullFile(Job[c].product)]
    /\ Job[c].op = "bootstrap" => got[c].full = Now(c).active
    /\ pc[c] = "record" => got[c].target = files[SpecFile].target

MayRemove(c) ==
    pc[c] = "unlink" =>
        \/ files[SpecFile] = NoFile
        \/ /\ Readable /\ files[SpecFile].marked
           /\ Job[c].consent \/ files[SpecFile].active = NoFullspec

AtWork(c) == SnapFits(c) /\ InLake(c) /\ Made(c) /\ StillFound(c) /\ MayRemove(c)

SerialInv ==
    /\ Alone
    /\ OpenFiles
    /\ \A c \in Commands : Running(c) => AtWork(c)

(* When an edit writes spec.json.                                          *)
LEMMA EditsOfSpec ==
    ASSUME EnvInv, NEW c \in Commands
    PROVE  EditedFile(c) = SpecFile <=>
             EditsSettings(c) \/ (edit[c] = "source" /\ Overwrites(c))
  BY FilesDiffer, JobAssumption
     DEF EditedFile, EditsSettings, EnvInv, EditFits, Overwrites, Jobs

(* Only the command that steps is at work.                                 *)
LEMMA TakesTurn ==
    ASSUME EnvInv, SerialInv, ~overlapped', NEW c \in Commands, Step(c)
    PROVE  /\ ~overlapped
           /\ \A d \in Commands :
                d # c => pc'[d] = pc[d] /\ ~Running(d) /\ ~Running(d)'
           /\ Running(c) => AtWork(c)
           /\ pc[c] # "fill" => handles = {}
           /\ pc[c] = "fill" =>
                /\ handles = {[by |-> c, file |-> EditedFile(c)]}
                /\ files[EditedFile(c)] = Empty
<1>1. pc \in [Commands -> Phases] /\ handles \subseteq [by : Commands, file : Files]
  BY DEF EnvInv, TypeOK, DirectoryTypeOK
<1>2. \E phase \in Phases : pc' = [pc EXCEPT ![c] = phase]
  BY <1>1 DEF Step, Act, Start, MakeEdit, StartAdd, StartCreate, StartSwitch,
     StartUnbootstrap, StartBootstrap, StartRemove, CheckAdoption, Report, ReadProduct,
     RecordLake, UnlinkFile, RemoveDirectory, SkipEdit, SelectFirst, ReadForEdit,
     OpenForEdit, FillForEdit, Abort, Proceed, Goto, Phases
<1>3. ~overlapped /\ \A d \in Commands \ {c} : ~Running(d)
  BY DEF Step, EnvInv, TypeOK
<1>4. ASSUME NEW d \in Commands, d # c
      PROVE  pc'[d] = pc[d] /\ ~Running(d) /\ ~Running(d)'
  <2>1. ~Running(d)
    BY <1>3, <1>4
  <2>2. pc'[d] = pc[d]
    BY <1>1, <1>2, <1>4
  <2> QED
    BY <2>1, <2>2 DEF Running, Over
<1>5. \A h \in handles : h = [by |-> c, file |-> EditedFile(c)] /\ pc[c] = "fill"
  <2> SUFFICES ASSUME NEW h \in handles
               PROVE  h = [by |-> c, file |-> EditedFile(c)] /\ pc[c] = "fill"
    OBVIOUS
  <2>1. h.by \in Commands /\ h = [by |-> h.by, file |-> h.file]
        /\ pc[h.by] = "fill" /\ h.file = EditedFile(h.by)
    BY <1>1 DEF SerialInv, OpenFiles
  <2>2. Running(h.by)
    BY <2>1 DEF Running, Over
  <2> QED
    BY <1>4, <2>1, <2>2
<1>6. pc[c] = "fill" =>
         [by |-> c, file |-> EditedFile(c)] \in handles /\ files[EditedFile(c)] = Empty
  BY DEF SerialInv, OpenFiles
<1> QED
  BY <1>3, <1>4, <1>5, <1>6 DEF SerialInv

(* So it is for what the command itself makes of it to be kept.            *)
LEMMA TurnKeeps ==
    ASSUME EnvInv, SerialInv, ~overlapped', NEW c \in Commands, Step(c),
           Running(c)' => AtWork(c)',
           pc'[c] # "fill" => handles' = {},
           pc'[c] = "fill" =>
              /\ handles' = {[by |-> c, file |-> EditedFile(c)']}
              /\ files'[EditedFile(c)'] = Empty
    PROVE  SerialInv'
<1>1. \A d \in Commands : d # c => ~Running(d)'
  BY TakesTurn
<1>2. Alone'
  BY <1>1 DEF Alone
<1>3. \A d \in Commands : pc'[d] = "fill" => d = c
  BY <1>1 DEF Running, Over
<1>4. OpenFiles'
  BY <1>3 DEF OpenFiles
<1>5. \A d \in Commands : Running(d)' => AtWork(d)'
  BY <1>1
<1> QED
  BY <1>2, <1>4, <1>5 DEF SerialInv

(* A command that starts, does nothing, or reads.                          *)
LEMMA StartWork ==
    ASSUME EnvInv, NEW c \in Commands, Start(c)
    PROVE  AtWork(c)' /\ pc'[c] \notin {"fill", "done"} /\ handles' = handles
<1> USE FilesAssumption, JobAssumption
        DEF EnvInv, TypeOK, DirectoryTypeOK, Begins, Initialized, Goto, Proceed, Reports, Present,
            Readable, directoryVars, commandVars, historyVars
<1>1. CASE StartAdd(c)
  <2> USE <1>1 DEF StartAdd
  <2>1. SnapFits(c)' /\ Made(c)' /\ StillFound(c)' /\ MayRemove(c)'
    BY DEF SnapFits, Made, StillFound, MayRemove
  <2>2. InLake(c)'
    BY DEF InLake, Editing
  <2> QED
    BY <2>1, <2>2 DEF AtWork
<1>2. CASE StartCreate(c)
  <2> USE <1>2 DEF StartCreate
  <2>1. SnapFits(c)' /\ Made(c)' /\ StillFound(c)' /\ MayRemove(c)'
    BY DEF SnapFits, EditsSettings, Made, StillFound, MayRemove
  <2>2. InLake(c)'
    BY DEF InLake, Editing, EditsOf, Now
  <2> QED
    BY <2>1, <2>2 DEF AtWork
<1>3. CASE StartSwitch(c)
  <2> USE <1>3 DEF StartSwitch
  <2>1. got'[c].full = files[FullFile(Job[c].product)]
    BY FindingUpdate
  <2>2. SnapFits(c)' /\ Made(c)' /\ StillFound(c)' /\ MayRemove(c)'
    BY <2>1 DEF SnapFits, Made, StillFound, MayRemove
  <2>3. InLake(c)'
    BY DEF InLake, Editing, EditsOf, Now
  <2> QED
    BY <2>2, <2>3 DEF AtWork
<1>4. CASE StartUnbootstrap(c)
  <2> USE <1>4 DEF StartUnbootstrap
  <2>1. SnapFits(c)' /\ Made(c)' /\ StillFound(c)' /\ MayRemove(c)'
    BY DEF SnapFits, Made, StillFound, MayRemove
  <2>2. InLake(c)'
    BY DEF InLake, Editing, EditsOf, Now
  <2> QED
    BY <2>1, <2>2 DEF AtWork
<1>5. CASE StartBootstrap(c)
  <2> USE <1>5 DEF StartBootstrap
  <2>1. got'[c].full = files[SpecFile].active
    OBVIOUS
  <2>2. SnapFits(c)' /\ Made(c)' /\ StillFound(c)' /\ MayRemove(c)'
    BY <2>1 DEF SnapFits, Made, StillFound, MayRemove, Now
  <2>3. InLake(c)'
    BY DEF InLake, Editing, EditsOf, Now
  <2> QED
    BY <2>2, <2>3 DEF AtWork
<1>6. CASE StartRemove(c)
  <2> USE <1>6 DEF StartRemove
  <2>1. SnapFits(c)' /\ Made(c)' /\ StillFound(c)' /\ MayRemove(c)'
    BY DEF SnapFits, Made, StillFound, MayRemove
  <2>2. InLake(c)'
    BY DEF InLake, Editing, EditsOf, Now
  <2> QED
    BY <2>1, <2>2 DEF AtWork
<1> QED
  BY <1>1, <1>2, <1>3, <1>4, <1>5, <1>6 DEF Start

LEMMA AdoptionWork ==
    ASSUME EnvInv, NEW c \in Commands, AtWork(c), CheckAdoption(c)
    PROVE  AtWork(c)' /\ pc'[c] \notin {"fill", "done"} /\ handles' = handles
<1> USE FilesAssumption, JobAssumption
        DEF EnvInv, TypeOK, DirectoryTypeOK, Goto, Proceed, Reports, Present, EditFits,
            CheckAdoption, directoryVars, commandVars, historyVars
<1>1. SnapFits(c)' /\ Made(c)' /\ StillFound(c)' /\ MayRemove(c)'
  BY DEF SnapFits, Made, StillFound, MayRemove
<1>2. InLake(c)'
  BY DEF AtWork, InLake, Editing, EditsOf, Now, Lapsed, Overwrites
<1> QED
  BY <1>1, <1>2 DEF AtWork

LEMMA ReadProductWork ==
    ASSUME EnvInv, NEW c \in Commands, AtWork(c), ReadProduct(c)
    PROVE  AtWork(c)' /\ pc'[c] \notin {"fill", "done"} /\ handles' = handles
<1> USE FilesAssumption, JobAssumption
        DEF EnvInv, TypeOK, DirectoryTypeOK, Goto, Proceed, Reports, Present, EditFits,
            ReadProduct, directoryVars, commandVars, historyVars
<1>1. got'[c].full = got[c].full
  <2>1. CASE UNCHANGED got
    BY <2>1
  <2>2. CASE /\ files[SourceFile(got[c].name)] \in Documents
             /\ got' = [got EXCEPT ![c].input = files[SourceFile(got[c].name)]]
    BY <2>2, FindingUpdate
  <2> QED
    BY <2>1, <2>2
<1>2. SnapFits(c)' /\ Made(c)' /\ StillFound(c)' /\ MayRemove(c)'
  BY <1>1 DEF AtWork, SnapFits, Made, StillFound, MayRemove, Now
<1>3. InLake(c)'
  BY DEF AtWork, InLake, Editing, EditsOf, Now, Lapsed, Overwrites
<1> QED
  BY <1>2, <1>3 DEF AtWork

LEMMA RecordWork ==
    ASSUME EnvInv, NEW c \in Commands, AtWork(c), RecordLake(c)
    PROVE  pc'[c] = "done" /\ handles' = handles /\ Effect(c)'
<1> USE FilesAssumption, JobAssumption
        DEF EnvInv, TypeOK, DirectoryTypeOK, Goto, Proceed, Reports, Present, Readable, EditFits,
            RecordLake, directoryVars, commandVars, historyVars
<1>1. /\ Job[c].op = "bootstrap"
      /\ got[c].full = files[SpecFile].active
      /\ got[c].target = files[SpecFile].target
      /\ dir /\ files[MainFile] # NoFile /\ files[SpecFile].marked
  BY DEF AtWork, StillFound, InLake, Now, Lapsed, Overwrites
<1> DEFINE r == [by |-> c, found |-> got[c], namespace |-> files[SpecFile].target]
<1>2. /\ r \in recorded' /\ r.by = c /\ r.found.full = files[SpecFile].active
      /\ r.found.target = files[SpecFile].target /\ r.namespace = files[SpecFile].target
  BY <1>1
<1> HIDE DEF r
<1>3. Initialized'
  BY <1>1 DEF Initialized
<1> QED
  BY <1>1, <1>2, <1>3 DEF Effect

(* A create that reports has made its edits, and was asked for no target.  *)
LEMMA ReportWork ==
    ASSUME EnvInv, NEW c \in Commands, AtWork(c), Report(c)
    PROVE  /\ pc'[c] = "done" /\ handles' = handles
           /\ ~Overwrites(c) => Effect(c)'
<1> USE FilesAssumption, JobAssumption
        DEF EnvInv, TypeOK, DirectoryTypeOK, Goto, EditFits, Report, directoryVars,
            historyVars
<1>1. Job[c].op = "create" /\ Job[c].target = NoTarget /\ edit[c] = "none"
      /\ Now(c) = files[SpecFile]
  BY DEF AtWork, Made, Now, Reports
<1>2. Initialized' /\ Targeted(c)'
  BY <1>1 DEF Initialized, Targeted, Present, Readable
<1>3. /\ files[FullFile(Job[c].product)] = FullspecOf[Job[c].input]
      /\ files[SpecFile].active # NoFullspec
      /\ ~Overwrites(c) => files[SourceFile(Job[c].product)] = Job[c].input
  BY <1>1 DEF AtWork, Made
<1> QED
  BY <1>1, <1>2, <1>3 DEF Effect

(* The end of a command that follows the last of its edits.                *)
LEMMA SkipWork ==
    ASSUME EnvInv, NEW c \in Commands, AtWork(c), SkipEdit(c)
    PROVE  /\ Running(c)' => AtWork(c)'
           /\ pc'[c] = "done" /\ ~Overwrites(c) => Effect(c)'
           /\ pc'[c] # "fill" /\ handles' = handles
<1> USE FilesAssumption, JobAssumption
        DEF EnvInv, TypeOK, DirectoryTypeOK, Goto, Present, Readable, EditFits,
            directoryVars, commandVars, historyVars
<1>1. /\ pc[c] = "read" /\ dir /\ Editing(c) /\ edit[c] \in EditsOf(Job[c].op)
      /\ \/ edit[c] = "main" /\ Present(MainFile)
         \/ edit[c] # "main" /\ Readable /\ AlreadyDone(c)
      /\ Proceed(c, NextEdit(c))
      /\ UNCHANGED <<dir, files, handles, snap, got, doomed, written, recorded>>
  BY DEF SkipEdit, AtWork, InLake, Editing
<1>2. /\ pc'[c] \in {"read", "done", "report"} /\ edit'[c] = NextEdit(c)
      /\ NextEdit(c) \in {"mark", "target", "none"}
      /\ pc'[c] = "read" <=> NextEdit(c) # "none"
      /\ pc'[c] = "report" <=> NextEdit(c) = "none" /\ Reports(c)
  BY <1>1 DEF Proceed, Reports, NextEdit, LastEdit, AlreadyDone, EditsOf, Jobs
<1>3. SnapFits(c)' /\ MayRemove(c)'
  BY <1>2 DEF SnapFits, MayRemove
<1>4. /\ Now(c) = files[SpecFile] /\ Now(c)' = files[SpecFile]
      /\ files' = files
  BY <1>1, <1>2 DEF Now
<1>5. CASE edit[c] = "main"
  <2>1. /\ NextEdit(c) = "mark" /\ Job[c].op = "add" /\ files[MainFile] # NoFile
    BY <1>1, <1>5 DEF NextEdit
  <2> QED
    BY <1>1, <1>2, <1>3, <2>1 DEF AtWork, InLake, Made, StillFound, Editing, EditsOf
<1>6. CASE edit[c] = "mark"
  <2>1. /\ NextEdit(c) = LastEdit(c) /\ Job[c].op = "add" /\ files[MainFile] # NoFile
        /\ Readable /\ files[SpecFile].marked
    BY <1>1, <1>6 DEF NextEdit, AlreadyDone, AtWork, InLake
  <2>2. NextEdit(c) = "target" => AtWork(c)'
    BY <1>1, <1>2, <1>3, <1>4, <2>1 DEF AtWork, InLake, Made, StillFound, Editing, EditsOf
  <2>3. NextEdit(c) = "none" => Effect(c)'
    BY <1>1, <2>1 DEF LastEdit, Effect, Initialized, Targeted
  <2> QED
    BY <1>1, <1>2, <2>1, <2>2, <2>3 DEF LastEdit, Running, Over, Reports
<1>7. CASE edit[c] = "first"
  <2>1. /\ NextEdit(c) = LastEdit(c) /\ Job[c].op = "create" /\ files[MainFile] # NoFile
        /\ Readable
        /\ files[SpecFile].marked \/ Overwrites(c)
        /\ files[SpecFile].active # NoFullspec
        /\ ~Overwrites(c) => files[SourceFile(Job[c].product)] = Job[c].input
        /\ files[FullFile(Job[c].product)] = FullspecOf[Job[c].input]
    BY <1>1, <1>4, <1>7 DEF NextEdit, AlreadyDone, AtWork, InLake, Made, Lapsed
  <2>2. pc'[c] \in {"read", "report"} => AtWork(c)'
    <3>1. NextEdit(c) \in {"target", "none"}
      BY <2>1 DEF LastEdit
    <3> QED
      BY <1>1, <1>2, <1>3, <1>4, <2>1, <3>1
         DEF AtWork, InLake, Made, StillFound, Editing, EditsOf, Lapsed
  <2>3. NextEdit(c) = "none" /\ ~Overwrites(c) => Effect(c)'
    BY <1>1, <2>1 DEF LastEdit, Effect, Initialized, Targeted
  <2> QED
    BY <1>1, <1>2, <2>1, <2>2, <2>3 DEF LastEdit, Running, Over
<1>8. CASE edit[c] = "target"
  <2>1. /\ NextEdit(c) = "none" /\ Job[c].op = "create" /\ files[MainFile] # NoFile
        /\ Readable
        /\ files[SpecFile].marked \/ Overwrites(c)
        /\ files[SpecFile].active # NoFullspec
        /\ files[SpecFile].target = Job[c].target
        /\ ~Overwrites(c) => files[SourceFile(Job[c].product)] = Job[c].input
        /\ files[FullFile(Job[c].product)] = FullspecOf[Job[c].input]
    BY <1>1, <1>4, <1>8 DEF NextEdit, AlreadyDone, AtWork, InLake, Made, Lapsed
  <2>2. ~Overwrites(c) => Effect(c)'
    BY <1>1, <2>1 DEF Effect, Initialized, Targeted
  <2>3. pc'[c] = "done"
    BY <1>1, <1>2, <1>8, <2>1 DEF Reports
  <2> QED
    BY <1>1, <1>2, <2>1, <2>2, <2>3 DEF Running, Over
<1>9. CASE edit[c] = "forget"
  <2>1. /\ NextEdit(c) = "none" /\ Job[c].op = "unbootstrap" /\ files[MainFile] # NoFile
        /\ Readable /\ files[SpecFile].marked /\ ~files[SpecFile].legacy
    BY <1>1, <1>4, <1>9 DEF NextEdit, AlreadyDone, AtWork, InLake, EditsOf, Jobs, Operations,
       Lapsed, Overwrites
  <2>2. Effect(c)'
    BY <1>1, <2>1 DEF Effect, Initialized
  <2> QED
    BY <1>1, <1>2, <2>1, <2>2 DEF Running, Over, Reports
<1> QED
  BY <1>1, <1>5, <1>6, <1>7, <1>8, <1>9 DEF AlreadyDone

LEMMA SelectFirstWork ==
    ASSUME EnvInv, NEW c \in Commands, AtWork(c), SelectFirst(c)
    PROVE  AtWork(c)' /\ pc'[c] \notin {"fill", "done"} /\ handles' = handles
<1> USE FilesAssumption, JobAssumption
        DEF EnvInv, TypeOK, DirectoryTypeOK, Goto, Proceed, Reports, Present, Readable, EditFits,
            SelectFirst, directoryVars, commandVars, historyVars
<1>1. Job[c].op = "create" /\ got'[c].full = FullspecOf[Job[c].input]
  BY FindingUpdate
<1>2. SnapFits(c)' /\ StillFound(c)' /\ MayRemove(c)'
  BY <1>1 DEF SnapFits, StillFound, MayRemove
<1>3. Made(c)'
  BY <1>1 DEF AtWork, Made
<1>4. InLake(c)'
  BY <1>1 DEF AtWork, InLake, Editing, EditsOf, Now, Lapsed, Overwrites
<1> QED
  BY <1>2, <1>3, <1>4 DEF AtWork

LEMMA ReadWork ==
    ASSUME EnvInv, NEW c \in Commands, AtWork(c), ReadForEdit(c)
    PROVE  AtWork(c)' /\ pc'[c] \notin {"fill", "done"} /\ handles' = handles
<1> USE FilesAssumption, JobAssumption
        DEF EnvInv, TypeOK, DirectoryTypeOK, Goto, Present, Readable, EditFits,
            ReadForEdit, directoryVars, commandVars, historyVars
<1>1. SnapFits(c)'
  BY DEF SnapFits, EditsSettings
<1>2. Made(c)' /\ StillFound(c)' /\ MayRemove(c)'
  BY DEF AtWork, Made, StillFound, MayRemove, Now
<1>3. InLake(c)'
  BY DEF AtWork, InLake, Editing, EditsOf, Now, Lapsed, Overwrites
<1> QED
  BY <1>1, <1>2, <1>3 DEF AtWork

LEMMA UnlinkWork ==
    ASSUME EnvInv, NEW c \in Commands, AtWork(c), handles = {}, UnlinkFile(c)
    PROVE  AtWork(c)' /\ pc'[c] \notin {"fill", "done"} /\ handles' = handles
<1> USE FilesAssumption, JobAssumption, FilesDiffer
        DEF EnvInv, TypeOK, DirectoryTypeOK, Goto, Present, Readable, EditFits,
            UnlinkFile, Unlink, directoryVars, commandVars, historyVars
<1>1. Job[c].op = "remove" /\ pc[c] = "unlink"
  BY DEF AtWork, InLake
<1>2. files'[SpecFile] \in {files[SpecFile], NoFile}
  OBVIOUS
<1>3. SnapFits(c)' /\ Made(c)' /\ StillFound(c)'
  BY <1>1 DEF SnapFits, Made, StillFound
<1>4. MayRemove(c)'
  BY <1>1, <1>2 DEF AtWork, MayRemove
<1>5. InLake(c)'
  BY <1>1 DEF AtWork, InLake, Editing
<1> QED
  BY <1>1, <1>3, <1>4, <1>5 DEF AtWork

LEMMA RemoveDirectoryWork ==
    ASSUME EnvInv, NEW c \in Commands, AtWork(c), RemoveDirectory(c)
    PROVE  pc'[c] = "done" /\ handles' = handles /\ Effect(c)'
  BY DEF EnvInv, TypeOK, RemoveDirectory, Goto, AtWork, InLake, Effect

LEMMA OpenWork ==
    ASSUME EnvInv, NEW c \in Commands, AtWork(c), handles = {}, OpenForEdit(c)
    PROVE  /\ AtWork(c)' /\ pc'[c] = "fill"
           /\ handles' = {[by |-> c, file |-> EditedFile(c)']}
           /\ files'[EditedFile(c)'] = Empty
<1> USE FilesAssumption, JobAssumption, FilesDiffer
        DEF EnvInv, TypeOK, DirectoryTypeOK, EditFits
<1>1. /\ pc[c] = "open" /\ pc'[c] = "fill" /\ dir /\ dir' = dir
      /\ UNCHANGED <<edit, snap, got>>
      /\ EditedFile(c)' = EditedFile(c) /\ EditedFile(c) \in Files
      /\ files' = [files EXCEPT ![EditedFile(c)] = Empty]
      /\ handles' = {[by |-> c, file |-> EditedFile(c)]}
      /\ edit[c] \in EditsOf(Job[c].op) /\ Editing(c) /\ Editing(c)'
      /\ edit[c] # "first"
  BY DEF OpenForEdit, OpenFile, Goto, EditedFile, AtWork, InLake, Editing
<1>2. \A f \in Files : f # EditedFile(c) => files'[f] = files[f]
  BY <1>1
<1>3. /\ EditsSettings(c) => EditedFile(c) = SpecFile
      /\ edit[c] # "main" => EditedFile(c) # MainFile
      /\ edit[c] = "full" => EditedFile(c) = FullFile(Job[c].product)
      /\ edit[c] = "source" => EditedFile(c) = SourceFile(Job[c].product)
      /\ edit[c] # "source" /\ ~EditsSettings(c) => EditedFile(c) # SpecFile
      /\ edit[c] = "source" /\ ~Overwrites(c) => EditedFile(c) # SpecFile
  BY EditsOfSpec DEF EditedFile, EditsSettings
<1>4. SnapFits(c)' /\ MayRemove(c)'
  BY <1>1 DEF AtWork, SnapFits, EditsSettings, MayRemove
<1>5. edit[c] # "mark" /\ ~(edit[c] = "source" /\ Overwrites(c)) => Now(c)' = Now(c)
  <2>1. CASE EditsSettings(c)
    BY <1>1, <2>1, NothingSaid DEF AtWork, SnapFits, Now, Base, EditsSettings
  <2>2. CASE ~EditsSettings(c)
    BY <1>1, <1>2, <1>3, <2>2 DEF Now, EditsSettings
  <2> QED
    BY <2>1, <2>2
<1>6. InLake(c)'
  <2>1. (pc[c] = "unlink" <=> Job[c].op = "remove") /\ Job[c].op # "remove"
    BY <1>1 DEF AtWork, InLake
  <2>2. files'[MainFile] = files[MainFile] \/ edit[c] = "main"
    BY <1>2, <1>3
  <2>3. edit[c] \in {"main", "mark"} => Job[c].op = "add"
    OBVIOUS
  <2>4. CASE edit[c] = "source" /\ Overwrites(c)
    <3>1. Now(c)' = Blank /\ Lapsed(c)' /\ Job[c].op = "create"
      BY <1>1, <2>4 DEF Now, EditsSettings, Lapsed, Overwrites
    <3> QED
      BY <1>1, <2>1, <2>2, <2>4, <3>1, BlankIsSettings
         DEF AtWork, InLake, Present, Editing
  <2>5. CASE ~(edit[c] = "source" /\ Overwrites(c))
    <3>1. Lapsed(c) => Lapsed(c)'
      BY <1>1 DEF Lapsed, Overwrites
    <3> QED
      BY <1>1, <1>5, <2>1, <2>2, <2>3, <2>5, <3>1
         DEF AtWork, InLake, Present, Editing
  <2> QED
    BY <2>4, <2>5
<1>7. Made(c)'
  <2>1. CASE Job[c].op = "create"
    <3>1. Job[c].product \in Products /\ edit[c] \in {"source", "full", "first", "select", "target"}
      BY <1>1, <2>1 DEF EditsOf
    <3>2. /\ edit[c] # "source" /\ ~Overwrites(c) =>
               files'[SourceFile(Job[c].product)] = files[SourceFile(Job[c].product)]
          /\ edit[c] \notin {"source", "full"} =>
               files'[FullFile(Job[c].product)] = files[FullFile(Job[c].product)]
      BY <1>2, <1>3, <2>1, <3>1 DEF EditsSettings, Overwrites
    <3> QED
      BY <1>1, <1>5, <3>1, <3>2 DEF AtWork, Made, Overwrites
  <2> QED
    BY <2>1 DEF Made
<1>8. StillFound(c)'
  <2>1. ASSUME Job[c].op = "switch"
        PROVE  files'[FullFile(Job[c].product)] = files[FullFile(Job[c].product)]
    <3>1. Job[c].product \in Products /\ edit[c] = "select"
      BY <1>1, <2>1 DEF EditsOf
    <3> QED
      BY <1>2, <1>3, <3>1 DEF EditsSettings
  <2>2. Job[c].op = "bootstrap" => edit[c] # "mark"
    OBVIOUS
  <2> QED
    BY <1>1, <1>5, <2>1, <2>2 DEF AtWork, StillFound
<1> QED
  BY <1>1, <1>4, <1>6, <1>7, <1>8 DEF AtWork

(* What a write leaves in the file.                                        *)
LEMMA FillIsWhole ==
    ASSUME EnvInv, NEW c \in Commands, AtWork(c), FillForEdit(c),
           handles = {[by |-> c, file |-> EditedFile(c)]},
           files[EditedFile(c)] = Empty
    PROVE  /\ EditedFile(c) \in Files
           /\ files' = [files EXCEPT ![EditedFile(c)] = NewText(c)]
           /\ handles' = {} /\ dir' = dir /\ dir
           /\ UNCHANGED <<snap, got, doomed, recorded>>
           /\ edit' = [edit EXCEPT ![c] = NextEdit(c)]
           /\ Proceed(c, NextEdit(c))
           /\ edit[c] \in EditsOf(Job[c].op)
           /\ edit[c] # "first"
           /\ Job[c].op # "remove"
<1> USE FilesAssumption, JobAssumption, FilesDiffer
        DEF EnvInv, TypeOK, DirectoryTypeOK, EditFits
<1>1. EditedFile(c) \in Files
  BY DEF FillForEdit, EditedFile
<1>2. files' = [files EXCEPT ![EditedFile(c)] = NewText(c)] /\ handles' = {} /\ dir' = dir
  BY <1>1 DEF FillForEdit, FillFile
<1>3. UNCHANGED <<snap, got, doomed, recorded>> /\ Proceed(c, NextEdit(c))
  BY DEF FillForEdit
<1>4. pc[c] = "fill" /\ dir /\ edit[c] \in EditsOf(Job[c].op) /\ Job[c].op # "remove"
  BY DEF FillForEdit, AtWork, InLake, Editing
<1> QED
  BY <1>1, <1>2, <1>3, <1>4 DEF Proceed, Reports

(* A product file or the entrypoint: spec.json stays as it is.             *)
LEMMA FillFileWork ==
    ASSUME EnvInv, NEW c \in Commands, AtWork(c), FillForEdit(c),
           handles = {[by |-> c, file |-> EditedFile(c)]},
           files[EditedFile(c)] = Empty, ~EditsSettings(c)
    PROVE  AtWork(c)' /\ pc'[c] \notin {"fill", "done"}
<1>0. /\ EditedFile(c) \in Files
      /\ files' = [files EXCEPT ![EditedFile(c)] = NewText(c)]
      /\ dir' = dir /\ dir
      /\ UNCHANGED <<snap, got>>
      /\ edit' = [edit EXCEPT ![c] = NextEdit(c)]
      /\ Proceed(c, NextEdit(c))
      /\ edit[c] \in EditsOf(Job[c].op) /\ Job[c].op # "remove"
  BY FillIsWhole
<1> USE FilesAssumption, JobAssumption, FilesDiffer
        DEF EnvInv, TypeOK, DirectoryTypeOK, EditFits, EditsSettings
<1>1. edit'[c] = NextEdit(c) /\ pc[c] = "fill"
  BY <1>0 DEF FillForEdit
<1>2. \A f \in Files : f # EditedFile(c) => files'[f] = files[f]
  BY <1>0
<1>3. Now(c) = files'[SpecFile]
  <2>1. CASE edit[c] = "source" /\ Overwrites(c)
    BY <1>0, <1>1, <2>1 DEF Now, EditedFile, NewText, Overwrites, SourceFile, SpecFile
  <2>2. CASE ~(edit[c] = "source" /\ Overwrites(c))
    BY <1>1, <1>2, <2>2, EditsOfSpec DEF Now
  <2> QED
    BY <2>1, <2>2
<1>4. CASE edit[c] = "main"
  <2>1. /\ Job[c].op = "add" /\ edit'[c] = "mark" /\ pc'[c] = "read"
        /\ files'[MainFile] = Managed
    BY <1>0, <1>1, <1>4 DEF NextEdit, Proceed, Reports, Goto, EditedFile, NewText
  <2> QED
    BY <1>0, <1>1, <2>1 DEF AtWork, SnapFits, InLake, Made, StillFound, MayRemove, Editing,
       EditsOf, Present
<1>5. CASE edit[c] \in {"source", "full"}
  <2> DEFINE p == Job[c].product
  <2>1. Job[c].op = "create" /\ p \in Products
    BY <1>5
  <2>2. /\ Present(MainFile) /\ Now(c) \in Settings
        /\ Now(c).marked \/ Lapsed(c)
        /\ edit[c] = "full" /\ ~Overwrites(c) => files[SourceFile(p)] = Job[c].input
    BY <1>1, <1>5, <2>1 DEF AtWork, InLake, Made
  <2>3. files'[MainFile] = files[MainFile]
    BY <1>2, <1>5, <2>1 DEF EditedFile
  <2>4. ~Overwrites(c) => files'[SourceFile(p)] = Job[c].input
    BY <1>0, <1>1, <1>2, <1>5, <2>1, <2>2 DEF EditedFile, NewText, Overwrites
  <2>5. edit[c] = "full" => files'[FullFile(p)] = FullspecOf[Job[c].input]
    BY <1>0, <1>1, <2>1 DEF EditedFile, NewText
  <2>6. \/ edit[c] = "source" /\ edit'[c] = "full" /\ pc'[c] = "open"
        \/ edit[c] = "full" /\ edit'[c] = "first" /\ pc'[c] = "read"
    BY <1>0, <1>1, <1>5 DEF NextEdit, Proceed, Reports, Goto
  <2>7. Now(c)' = Now(c)
    BY <1>3, <2>6 DEF Now
  <2>8. Lapsed(c) => Lapsed(c)'
    BY <2>6 DEF Lapsed, Overwrites
  <2>9. InLake(c)'
    BY <1>0, <1>1, <2>1, <2>2, <2>3, <2>6, <2>7, <2>8 DEF InLake, Editing, EditsOf, Present
  <2>10. SnapFits(c)' /\ Made(c)' /\ StillFound(c)' /\ MayRemove(c)'
    BY <2>1, <2>4, <2>5, <2>6 DEF SnapFits, Made, StillFound, MayRemove, Overwrites
  <2> QED
    BY <2>6, <2>9, <2>10 DEF AtWork
<1> QED
  BY <1>4, <1>5

(* An edit of the settings changes what it is for, and nothing else.       *)
LEMMA SettingsChange ==
    ASSUME EnvInv, NEW c \in Commands, pc[c] = "fill", EditsSettings(c)
    PROVE  /\ Base(c) \in Settings /\ NewSettings(c) \in Settings
           /\ edit[c] \in {"mark", "target", "retarget", "forget", "select"}
           /\ NewSettings(c).marked = IF edit[c] = "mark" THEN TRUE ELSE Base(c).marked
           /\ NewSettings(c).target = IF edit[c] = "target" THEN Job[c].target
                                      ELSE IF edit[c] = "retarget" THEN got[c].target
                                      ELSE Base(c).target
           /\ NewSettings(c).active = IF edit[c] = "select" THEN got[c].full
                                      ELSE Base(c).active
           /\ NewSettings(c).name = IF edit[c] = "select" THEN Job[c].product
                                    ELSE Base(c).name
           /\ NewSettings(c).legacy = IF edit[c] = "forget" THEN FALSE
                                      ELSE Base(c).legacy
<1> USE FilesAssumption, JobAssumption
        DEF EnvInv, TypeOK, EditFits, TargetKnown, EditsSettings, Jobs
<1>1. Base(c) \in Settings
  BY BlankIsSettings DEF Base
<1>2. edit[c] \in {"mark", "target", "retarget", "forget", "select"}
  BY DEF Edits
<1>3. /\ edit[c] = "target" => Job[c].target \in Targets
      /\ edit[c] = "retarget" => got[c].target \in Targets
      /\ edit[c] = "select" => /\ Job[c].product \in Products
                               /\ got[c].full \in Fullspecs \cup {NoFullspec}
  BY DEF Finding
<1>4. CASE edit[c] = "mark"
  BY <1>1, <1>2, <1>4 DEF NewSettings, Settings
<1>5. CASE edit[c] = "target"
  BY <1>1, <1>2, <1>3, <1>5 DEF NewSettings, Settings
<1>6. CASE edit[c] = "retarget"
  BY <1>1, <1>2, <1>3, <1>6 DEF NewSettings, Settings
<1>7. CASE edit[c] = "forget"
  BY <1>1, <1>2, <1>7 DEF NewSettings, Settings
<1>8. CASE edit[c] = "select"
  BY <1>1, <1>2, <1>3, <1>8 DEF NewSettings, Settings
<1> QED
  BY <1>2, <1>4, <1>5, <1>6, <1>7, <1>8

LEMMA FillSettingsWork ==
    ASSUME EnvInv, NEW c \in Commands, AtWork(c), FillForEdit(c),
           handles = {[by |-> c, file |-> EditedFile(c)]},
           files[EditedFile(c)] = Empty, EditsSettings(c)
    PROVE  /\ Running(c)' => AtWork(c)'
           /\ pc'[c] = "done" /\ ~Overwrites(c) => Effect(c)'
           /\ pc'[c] # "fill"
<1>1. /\ EditedFile(c) \in Files
      /\ files' = [files EXCEPT ![EditedFile(c)] = NewText(c)]
      /\ dir' = dir /\ dir
      /\ UNCHANGED <<snap, got>>
      /\ edit' = [edit EXCEPT ![c] = NextEdit(c)]
      /\ Proceed(c, NextEdit(c))
      /\ edit[c] \in EditsOf(Job[c].op) /\ Job[c].op # "remove"
  BY FillIsWhole
<1>2. pc[c] = "fill" /\ EditedFile(c) = SpecFile /\ NewText(c) = NewSettings(c)
  BY DEF FillForEdit, EditedFile, NewText, EditsSettings
<1> DEFINE p == Job[c].product
           s == NewSettings(c)
<1>3. /\ Base(c) \in Settings /\ s \in Settings
      /\ edit[c] \in {"mark", "target", "retarget", "forget", "select"}
      /\ s.marked = IF edit[c] = "mark" THEN TRUE ELSE Base(c).marked
      /\ s.target = IF edit[c] = "target" THEN Job[c].target
                    ELSE IF edit[c] = "retarget" THEN got[c].target ELSE Base(c).target
      /\ s.active = IF edit[c] = "select" THEN got[c].full ELSE Base(c).active
      /\ s.name = IF edit[c] = "select" THEN p ELSE Base(c).name
      /\ s.legacy = IF edit[c] = "forget" THEN FALSE ELSE Base(c).legacy
  BY <1>2, SettingsChange
<1> HIDE DEF s
<1>4. Now(c) = Base(c)
  BY <1>2 DEF Now
<1> USE FilesAssumption, JobAssumption, FilesDiffer
        DEF EnvInv, TypeOK, DirectoryTypeOK, EditFits
<1>5. edit'[c] = NextEdit(c)
      /\ files'[SpecFile] = s /\ \A f \in Files : f # SpecFile => files'[f] = files[f]
  BY <1>1, <1>2 DEF s
<1>6. /\ files[MainFile] # NoFile /\ files'[MainFile] # NoFile
      /\ s.marked = TRUE \/ Overwrites(c)
  <2>1. Job[c].op # "add" \/ edit[c] \in {"mark", "target"}
    BY <1>1, <1>3 DEF EditsOf
  <2>2. /\ files[MainFile] # NoFile
        /\ edit[c] # "mark" => Base(c).marked = TRUE \/ Overwrites(c)
    BY <1>1, <1>2, <1>3, <1>4, <2>1 DEF AtWork, InLake, Editing, Present, Settings, Lapsed
  <2> QED
    BY <1>3, <1>5, <2>2
<1>7. ~Overwrites(c) => Initialized'
  BY <1>1, <1>3, <1>5, <1>6 DEF Initialized, Present, Readable
<1>8. /\ pc'[c] \in {"read", "done", "record", "report"}
      /\ pc'[c] = "read" => NextEdit(c) = "target"
      /\ pc'[c] = "report" => NextEdit(c) = "none" /\ Reports(c)
      /\ pc'[c] = "record" => Job[c].op = "bootstrap"
      /\ pc'[c] = "done" => NextEdit(c) = "none" /\ Job[c].op # "bootstrap"
  BY <1>1, <1>3 DEF NextEdit, LastEdit, Proceed, Goto
<1>9. Now(c)' = s
  BY <1>5, <1>8 DEF Now
<1>10. SnapFits(c)' /\ MayRemove(c)'
  BY <1>8 DEF SnapFits, MayRemove
<1>11. CASE Job[c].op = "add"
  <2>1. edit[c] \in {"mark", "target"}
    BY <1>1, <1>3, <1>11 DEF EditsOf
  <2>2. pc'[c] = "done" => Effect(c)'
    <3>1. pc'[c] = "done" => Job[c].target = NoTarget \/ s.target = Job[c].target
      BY <1>3, <1>8, <2>1 DEF NextEdit, LastEdit
    <3> QED
      BY <1>5, <1>7, <1>11, <3>1 DEF Effect, Targeted, Overwrites
  <2>3. pc'[c] = "read" => AtWork(c)'
    BY <1>1, <1>3, <1>5, <1>6, <1>8, <1>9, <1>10, <1>11
       DEF AtWork, InLake, Made, StillFound, Editing, EditsOf, Present, Lapsed, Overwrites
  <2> QED
    BY <1>8, <1>11, <2>2, <2>3 DEF Running, Over, Reports
<1>12. CASE Job[c].op = "create"
  <2>1. p \in Products /\ edit[c] \in {"select", "target"}
    BY <1>1, <1>3, <1>12 DEF EditsOf
  <2>2. /\ ~Overwrites(c) => files'[SourceFile(p)] = Job[c].input
        /\ files'[FullFile(p)] = FullspecOf[Job[c].input]
        /\ FullspecOf[Job[c].input] # NoFullspec
    BY <1>5, <1>12, <2>1 DEF AtWork, Made, Overwrites
  <2>3. s.active # NoFullspec
    BY <1>3, <1>4, <1>12, <2>1, <2>2 DEF AtWork, Made
  <2>4. pc'[c] = "done" /\ ~Overwrites(c) => Effect(c)'
    <3>1. pc'[c] = "done" => Job[c].target = NoTarget \/ s.target = Job[c].target
      BY <1>3, <1>8, <1>12, <2>1 DEF NextEdit, LastEdit
    <3> QED
      BY <1>5, <1>7, <1>12, <2>2, <2>3, <3>1 DEF Effect, Targeted
  <2>5. ASSUME pc'[c] \in {"read", "report"} PROVE AtWork(c)'
    <3>1. /\ edit'[c] \in {"target", "none"}
          /\ pc'[c] = "report" => edit'[c] = "none"
          /\ pc'[c] = "read" => edit'[c] = "target"
      BY <1>5, <1>8, <2>5 DEF NextEdit, LastEdit
    <3>2. InLake(c)'
      <4>1. Editing(c)' => edit'[c] \in EditsOf(Job[c].op) /\ edit'[c] # "mark"
        BY <1>12, <2>5, <3>1 DEF Editing, EditsOf
      <4>2. Present(MainFile)' /\ Now(c)' \in Settings /\ dir'
        BY <1>1, <1>3, <1>6, <1>9 DEF Present
      <4>3. Now(c)'.marked \/ Lapsed(c)'
        BY <1>6, <1>9, <2>5 DEF Lapsed, Overwrites
      <4> QED
        BY <1>12, <2>5, <4>1, <4>2, <4>3 DEF InLake
    <3>3. Made(c)' /\ StillFound(c)'
      BY <1>9, <1>12, <2>2, <2>3, <2>5, <3>1 DEF Made, StillFound, Overwrites
    <3> QED
      BY <1>10, <3>2, <3>3 DEF AtWork
  <2> QED
    BY <1>8, <1>12, <2>4, <2>5 DEF Running, Over
<1>13. CASE Job[c].op = "switch"
  <2>1. edit[c] = "select" /\ p \in Products
    BY <1>1, <1>13 DEF EditsOf
  <2>2. NextEdit(c) = "none"
    BY <1>13, <2>1 DEF NextEdit
  <2>3. files'[FullFile(p)] = got[c].full
    BY <1>5, <1>13, <2>1 DEF AtWork, StillFound
  <2>4. Effect(c)'
    BY <1>3, <1>5, <1>7, <1>13, <2>1, <2>3 DEF Effect, Selected, Overwrites
  <2> QED
    BY <1>8, <1>13, <2>2, <2>4 DEF Running, Over, Reports
<1>14. CASE Job[c].op = "bootstrap"
  <2>1. edit[c] = "retarget" /\ pc'[c] = "record"
    BY <1>1, <1>8, <1>14 DEF EditsOf, NextEdit, Reports
  <2>2. got[c].full = s.active /\ got[c].target = s.target
    BY <1>3, <1>4, <1>14, <2>1 DEF AtWork, StillFound
  <2>3. AtWork(c)'
    BY <1>1, <1>3, <1>5, <1>6, <1>9, <1>10, <1>14, <2>1, <2>2
       DEF AtWork, InLake, Made, StillFound, Editing, EditsOf, Present, Lapsed, Overwrites
  <2> QED
    BY <2>1, <2>3
<1>15. CASE Job[c].op = "unbootstrap"
  <2>1. edit[c] = "forget"
    BY <1>1, <1>15 DEF EditsOf
  <2>2. NextEdit(c) = "none"
    BY <2>1 DEF NextEdit
  <2>3. Effect(c)'
    BY <1>3, <1>5, <1>7, <1>15, <2>1 DEF Effect, Overwrites
  <2> QED
    BY <1>8, <1>15, <2>2, <2>3 DEF Running, Over, Reports
<1> QED
  BY <1>1, <1>11, <1>12, <1>13, <1>14, <1>15 DEF Jobs, Operations
-----------------------------------------------------------------------------
(* What one command makes of its turn.                                     *)
LEMMA TurnTaken ==
    ASSUME EnvInv, SerialInv, ~overlapped', NEW c \in Commands, Step(c)
    PROVE  /\ SerialInv'
           /\ pc[c] # "done" /\ pc'[c] = "done" /\ ~Overwrites(c) => Effect(c)'
<1>1. /\ Running(c) => AtWork(c)
      /\ pc[c] # "fill" => handles = {}
      /\ pc[c] = "fill" =>
           /\ handles = {[by |-> c, file |-> EditedFile(c)]}
           /\ files[EditedFile(c)] = Empty
  BY TakesTurn
<1>2. SUFFICES /\ Running(c)' => AtWork(c)'
               /\ pc'[c] # "fill" => handles' = {}
               /\ pc'[c] = "fill" =>
                    /\ handles' = {[by |-> c, file |-> EditedFile(c)']}
                    /\ files'[EditedFile(c)'] = Empty
               /\ pc'[c] = "done" /\ ~Overwrites(c) => Effect(c)'
  BY TurnKeeps
<1>3. CASE Start(c)
  <2>1. pc[c] = "ready"
    BY <1>3 DEF Start, StartAdd, StartCreate, StartSwitch, StartUnbootstrap, StartBootstrap,
       StartRemove, Begins
  <2> QED
    BY <1>1, <1>3, <2>1, StartWork
<1>4. CASE CheckAdoption(c)
  <2>1. pc[c] = "adopt" /\ Running(c)
    BY <1>4 DEF CheckAdoption, Running, Over
  <2> QED
    BY <1>1, <1>4, <2>1, AdoptionWork
<1>5. CASE ReadProduct(c)
  <2>1. pc[c] = "product" /\ Running(c)
    BY <1>5 DEF ReadProduct, Running, Over
  <2> QED
    BY <1>1, <1>5, <2>1, ReadProductWork
<1>6. CASE RecordLake(c)
  <2>1. pc[c] = "record" /\ Running(c)
    BY <1>6 DEF RecordLake, Running, Over
  <2>2. ~Running(c)'
    BY <1>1, <1>6, <2>1, RecordWork DEF Running, Over
  <2> QED
    BY <1>1, <1>6, <2>1, <2>2, RecordWork
<1>7. CASE UnlinkFile(c)
  <2>1. pc[c] = "unlink" /\ Running(c)
    BY <1>7 DEF UnlinkFile, Running, Over
  <2> QED
    BY <1>1, <1>7, <2>1, UnlinkWork
<1>8. CASE RemoveDirectory(c)
  <2>1. pc[c] = "unlink" /\ Running(c)
    BY <1>8 DEF RemoveDirectory, Running, Over
  <2>2. ~Running(c)'
    BY <1>1, <1>8, <2>1, RemoveDirectoryWork DEF Running, Over
  <2> QED
    BY <1>1, <1>8, <2>1, <2>2, RemoveDirectoryWork
<1>9. CASE SkipEdit(c)
  <2>1. pc[c] = "read" /\ Running(c)
    BY <1>9 DEF SkipEdit, Running, Over
  <2> QED
    BY <1>1, <1>9, <2>1, SkipWork
<1>10. CASE SelectFirst(c)
  <2>1. pc[c] = "read" /\ Running(c)
    BY <1>10 DEF SelectFirst, Running, Over
  <2> QED
    BY <1>1, <1>10, <2>1, SelectFirstWork
<1>11. CASE ReadForEdit(c)
  <2>1. pc[c] = "read" /\ Running(c)
    BY <1>11 DEF ReadForEdit, Running, Over
  <2> QED
    BY <1>1, <1>11, <2>1, ReadWork
<1>12. CASE OpenForEdit(c)
  <2>1. pc[c] = "open" /\ Running(c)
    BY <1>12 DEF OpenForEdit, Running, Over
  <2> QED
    BY <1>1, <1>12, <2>1, OpenWork
<1>13. CASE FillForEdit(c)
  <2>1. pc[c] = "fill" /\ Running(c)
    BY <1>13 DEF FillForEdit, Running, Over
  <2>2. handles' = {}
    BY <1>1, <1>13, <2>1, FillIsWhole
  <2>3. /\ pc'[c] # "fill" /\ (Running(c)' => AtWork(c)')
        /\ pc'[c] = "done" /\ ~Overwrites(c) => Effect(c)'
    BY <1>1, <1>13, <2>1, FillFileWork, FillSettingsWork
  <2> QED
    BY <2>2, <2>3
<1>14. CASE Abort(c)
  <2>1. pc'[c] = "failed" /\ ~Running(c)'
    BY <1>14 DEF Abort, Goto, EnvInv, TypeOK, Running, Over
  <2>2. handles' = {}
    BY <1>1, <1>14 DEF Abort, CloseAll
  <2> QED
    BY <2>1, <2>2
<1>15. CASE Report(c)
  <2>1. pc[c] = "report" /\ Running(c)
    BY <1>15 DEF Report, Running, Over
  <2>2. ~Running(c)'
    BY <1>1, <1>15, <2>1, ReportWork DEF Running, Over
  <2> QED
    BY <1>1, <1>15, <2>1, <2>2, ReportWork
<1> QED
  BY <1>3, <1>4, <1>5, <1>6, <1>7, <1>8, <1>9, <1>10, <1>11, <1>12, <1>13, <1>14, <1>15
     DEF Step, Act, MakeEdit

LEMMA SerialStays ==
    ASSUME SerialInv, UNCHANGED vars
    PROVE  SerialInv'
<1> USE DEF vars, directoryVars, commandVars, historyVars
<1>1. \A c \in Commands : Running(c)' <=> Running(c)
  BY DEF Running, Over
<1>2. Alone' /\ OpenFiles'
  BY <1>1 DEF SerialInv, Alone, OpenFiles, EditedFile
<1>3. \A c \in Commands : AtWork(c) => AtWork(c)'
  <2>1. \A c \in Commands : Now(c)' = Now(c) /\ Editing(c)' = Editing(c)
    BY DEF Now, Base, EditsSettings, Editing
  <2> QED
    BY <2>1 DEF AtWork, SnapFits, EditsSettings, InLake, Made, StillFound, MayRemove, Present,
       Readable, Lapsed
<1> QED
  BY <1>1, <1>2, <1>3 DEF SerialInv

(* Operators that wait for each other find what they read still so when    *)
(* they write, and nothing open that is not theirs.                        *)
THEOREM SerialInvariant == Spec => [](~overlapped => SerialInv)
<1>1. Init => SerialInv
  BY DEF Init, SerialInv, Alone, OpenFiles, Running, Over
<1>2. ASSUME EnvInv, ~overlapped => SerialInv, [Next]_vars, ~overlapped'
      PROVE  SerialInv'
  <2>1. CASE Next
    <3>1. PICK c \in Commands : Step(c)
      BY <2>1 DEF Next
    <3>2. ~overlapped
      BY <1>2, <3>1 DEF Step
    <3> QED
      BY <1>2, <3>1, <3>2, TurnTaken
  <2>2. CASE UNCHANGED vars
    BY <1>2, <2>2, SerialStays DEF vars
  <2> QED
    BY <1>2, <2>1, <2>2
<1>3. EnvInv /\ (~overlapped => SerialInv) /\ [Next]_vars => (~overlapped' => SerialInv')
  BY <1>2
<1> QED
  BY <1>1, <1>3, EnvironmentInvariant, PTL DEF Spec

(* As long as one command is at work at a time, its operator can believe   *)
(* what it reports: when it succeeds it has had its effect, whatever an    *)
(* earlier command left half done, unless it is a lake create whose        *)
(* product file is spec.json (lake_environment.py, lake_product.py,        *)
(* cluster.py).                                                            *)
THEOREM SuccessIsEffective == Spec => SerialSuccessIsEffective
<1>1. EnvInv /\ (~overlapped => SerialInv) /\ [Next]_vars =>
        [\A c \in Commands :
           ~overlapped' /\ pc[c] # "done" /\ pc'[c] = "done" /\ ~Overwrites(c)
             => Effect(c)']_vars
  <2> SUFFICES ASSUME EnvInv, ~overlapped => SerialInv, ~overlapped',
                      NEW d \in Commands, Step(d), NEW c \in Commands,
                      pc[c] # "done", pc'[c] = "done", ~Overwrites(c)
               PROVE  Effect(c)'
    BY DEF Next
  <2>1. SerialInv
    BY DEF Step
  <2>2. c = d
    BY <2>1, TakesTurn
  <2> QED
    BY <2>1, <2>2, TurnTaken
<1> QED
  BY <1>1, EnvironmentInvariant, SerialInvariant, PTL DEF Spec, SerialSuccessIsEffective

-----------------------------------------------------------------------------
(* The refinement: a turn is a step of LakeSettings, or none, and nothing  *)
(* is promised any more once a command went on while another was at work.  *)

(* spec.json says nothing when it is empty or garbled.                     *)
Told == IF files[SpecFile] \in {Empty, Garbled} THEN Empty ELSE files[SpecFile]

(* What the settings are said to be while a command writes spec.json.      *)
Meanwhile(c) == IF edit[c] = "source" THEN Blank ELSE snap[c]

LEMMA CurrentIs ==
    ASSUME Alone
    PROVE  /\ \A c \in Commands : Writing(c) => CurrentSettings = Meanwhile(c)
           /\ (\A c \in Commands : ~Writing(c)) => CurrentSettings = Told
<1>1. ASSUME NEW c \in Commands, Writing(c)
      PROVE  CurrentSettings = Meanwhile(c)
  <2>1. \A d \in Commands : Writing(d) => d = c
    BY <1>1 DEF Writing, Alone, Running, Over
  <2>2. (CHOOSE d \in Commands : Writing(d)) = c
    BY <1>1, <2>1
  <2> QED
    BY <1>1, <2>2 DEF CurrentSettings, Meanwhile
<1> QED
  BY <1>1 DEF CurrentSettings, Told

LEMMA CurrentIsNext ==
    ASSUME Alone'
    PROVE  /\ \A c \in Commands : Writing(c)' => CurrentSettings' = Meanwhile(c)'
           /\ (\A c \in Commands : ~Writing(c)') => CurrentSettings' = Told'
<1>1. ASSUME NEW c \in Commands, Writing(c)'
      PROVE  CurrentSettings' = Meanwhile(c)'
  <2>1. \A d \in Commands : Writing(d)' => d = c
    BY <1>1 DEF Writing, Alone, Running, Over
  <2>2. (CHOOSE d \in Commands : Writing(d)') = c
    BY <1>1, <2>1
  <2> QED
    BY <1>1, <2>2 DEF CurrentSettings, Meanwhile
<1> QED
  BY <1>1 DEF CurrentSettings, Told

(* What the settings are before and after a turn.                          *)
LEMMA TurnSettings ==
    ASSUME EnvInv, SerialInv, ~overlapped', NEW c \in Commands, Step(c)
    PROVE  /\ Writing(c) <=> pc[c] = "fill" /\ EditedFile(c) = SpecFile
           /\ CurrentSettings = IF Writing(c) THEN Meanwhile(c) ELSE Told
           /\ CurrentSettings' = IF Writing(c)' THEN Meanwhile(c)' ELSE Told'
           /\ PromisedSettings = CurrentSettings
           /\ PromisedSettings' = CurrentSettings'
<1>1. /\ \A d \in Commands : d # c => ~Running(d) /\ ~Running(d)'
      /\ pc[c] = "fill" => handles = {[by |-> c, file |-> EditedFile(c)]}
  BY TakesTurn
<1>2. \A d \in Commands : d # c => ~Writing(d) /\ ~Writing(d)'
  BY <1>1 DEF Writing, Running, Over
<1>3. Alone /\ Alone'
  BY TurnTaken DEF SerialInv
<1>4. Writing(c) <=> pc[c] = "fill" /\ EditedFile(c) = SpecFile
  BY <1>1 DEF Writing
<1>5. /\ PromisedSettings = CurrentSettings
      /\ PromisedSettings' = CurrentSettings'
  BY TakesTurn DEF PromisedSettings
<1> QED
  BY <1>2, <1>3, <1>4, <1>5, CurrentIs, CurrentIsNext

LEMMA QuietSettings ==
    ASSUME EnvInv, SerialInv, ~overlapped', NEW c \in Commands, Step(c),
           ~Writing(c), pc'[c] # "fill", files'[SpecFile] = files[SpecFile]
    PROVE  CurrentSettings' = CurrentSettings
<1>1. ~Writing(c)'
  BY DEF Writing
<1> QED
  BY <1>1, TurnSettings DEF Told

(* What the abstract specification sees of a command at work.              *)
LEMMA TurnFlags ==
    ASSUME NEW c \in Commands, Running(c)
    PROVE  /\ Forces(c) => \E d \in Commands : Running(d) /\ Forces(d)
           /\ Overwrites(c) => \E d \in Commands : Running(d) /\ Overwrites(d)
  OBVIOUS

(* spec.json is emptied to be written.  The settings are still those read, *)
(* if it is not a product file that is written there.                      *)
LEMMA OpenSettings ==
    ASSUME EnvInv, SerialInv, ~overlapped', NEW c \in Commands, Step(c), OpenForEdit(c)
    PROVE  [Abstract!Next]_PromisedSettings
<1>1. /\ PromisedSettings = CurrentSettings
      /\ PromisedSettings' = CurrentSettings'
  BY TurnSettings
<1>2. /\ pc[c] = "open" /\ AtWork(c) /\ ~Writing(c) /\ snap' = snap /\ edit' = edit
      /\ Running(c)
  BY DEF OpenForEdit, SerialInv, Running, Over, Writing
<1>3. files' = [files EXCEPT ![EditedFile(c)] = Empty] /\ EditedFile(c) \in Files
      /\ [by |-> c, file |-> EditedFile(c)] \in handles' /\ pc'[c] = "fill"
  BY FilesDiffer, JobAssumption
     DEF OpenForEdit, OpenFile, EditedFile, EnvInv, EditFits, TypeOK, Goto
<1>4. files \in [Files -> Texts] /\ handles' = {[by |-> c, file |-> EditedFile(c)]}
  <2>1. handles = {}
    BY <1>2, TakesTurn
  <2> QED
    BY <2>1 DEF EnvInv, TypeOK, DirectoryTypeOK, OpenForEdit, OpenFile
<1>5. CASE EditsSettings(c)
  <2>1. Writing(c)' /\ edit[c] # "source"
    BY <1>3, <1>5, EditsOfSpec DEF Writing, EditsSettings
  <2>2. snap[c] \in Settings \cup {NoFile} /\ files[SpecFile] = snap[c]
    BY <1>2, <1>5 DEF AtWork, SnapFits
  <2>3. Told = snap[c]
    BY <2>2, NothingSaid, FilesAssumption DEF Told
  <2> QED
    BY <1>1, <1>2, <2>1, <2>3, TurnSettings DEF Meanwhile
<1>6. CASE edit[c] = "source" /\ Overwrites(c)
  <2>1. Writing(c)'
    BY <1>3, <1>6, EditsOfSpec DEF Writing
  <2>2. CurrentSettings' = Blank
    BY <1>2, <1>6, <2>1, TurnSettings DEF Meanwhile
  <2>3. files[SpecFile] \in Settings /\ files[SpecFile].marked
    BY <1>2, <1>6 DEF AtWork, InLake, Now, Lapsed, Overwrites
  <2>4. CurrentSettings = files[SpecFile] /\ files[SpecFile] \notin {NoFile, Empty}
    BY <1>2, <2>3, NothingSaid, TurnSettings DEF Told
  <2>5. Abstract!Overwrite
    BY <1>1, <1>2, <1>6, <2>2, <2>3, <2>4, TurnFlags
       DEF Abstract!Overwrite, Abstract!Marked, Abstract!Usable
  <2> QED
    BY <2>5 DEF Abstract!Next
<1>7. CASE ~EditsSettings(c) /\ ~(edit[c] = "source" /\ Overwrites(c))
  <2>1. EditedFile(c) # SpecFile
    BY <1>7, EditsOfSpec
  <2>2. ~Writing(c)'
    <3>1. EditedFile(c)' = EditedFile(c) /\ SpecFile' = SpecFile
      BY <1>2 DEF EditedFile
    <3> QED
      BY <1>4, <2>1, <3>1 DEF Writing
  <2>3. Told' = Told
    BY <1>3, <1>4, <2>1, FilesDiffer DEF Told
  <2> QED
    BY <1>1, <1>2, <2>2, <2>3, TurnSettings
<1> QED
  BY <1>5, <1>6, <1>7

(* The text arrives: the settings change in one aspect.                    *)
LEMMA FillSettings ==
    ASSUME EnvInv, SerialInv, ~overlapped', NEW c \in Commands, Step(c), FillForEdit(c)
    PROVE  [Abstract!Next]_PromisedSettings
<1>0. /\ PromisedSettings = CurrentSettings
      /\ PromisedSettings' = CurrentSettings'
  BY TurnSettings
<1>1. Running(c) /\ pc[c] = "fill"
  BY DEF FillForEdit, Running, Over
<1>2. /\ AtWork(c) /\ handles = {[by |-> c, file |-> EditedFile(c)]}
      /\ files[EditedFile(c)] = Empty
  BY <1>1, TakesTurn
<1>3. /\ EditedFile(c) \in Files
      /\ files' = [files EXCEPT ![EditedFile(c)] = NewText(c)]
      /\ handles' = {} /\ edit[c] \in EditsOf(Job[c].op)
  BY <1>2, FillIsWhole
<1>4. ~Writing(c)' /\ files \in [Files -> Texts]
  BY <1>3 DEF Writing, EnvInv, TypeOK, DirectoryTypeOK
<1>5. CASE ~EditsSettings(c)
  <2>1. CASE edit[c] = "source" /\ Overwrites(c)
    <3>1. EditedFile(c) = SpecFile /\ NewText(c) = Blank
      BY <2>1, EditsOfSpec DEF NewText, Overwrites
    <3>2. CurrentSettings = Blank
      BY <1>1, <2>1, <3>1, TurnSettings DEF Meanwhile
    <3>3. Told' = Blank
      BY <1>3, <1>4, <3>1, BlankIsSettings, NothingSaid DEF Told
    <3> QED
      BY <1>0, <1>4, <3>2, <3>3, TurnSettings
  <2>2. CASE ~(edit[c] = "source" /\ Overwrites(c))
    <3>1. EditedFile(c) # SpecFile
      BY <1>5, <2>2, EditsOfSpec
    <3>2. Told' = Told
      BY <1>3, <1>4, <3>1, FilesDiffer DEF Told
    <3> QED
      BY <1>0, <1>4, <3>1, <3>2, TurnSettings
  <2> QED
    BY <2>1, <2>2
<1>6. CASE EditsSettings(c)
  <2> DEFINE s == NewSettings(c)
  <2>1. EditedFile(c) = SpecFile /\ NewText(c) = s /\ edit[c] # "source"
    BY <1>6 DEF EditedFile, NewText, EditsSettings
  <2>2. s \in Settings /\ Base(c) \in Settings
        /\ edit[c] \in {"mark", "target", "retarget", "forget", "select"}
    BY <1>1, <1>6, SettingsChange
  <2>3. PromisedSettings = snap[c] /\ Writing(c)
    BY <1>0, <1>1, <2>1, TurnSettings DEF Meanwhile
  <2>4. PromisedSettings' = s
    <3>1. files'[SpecFile] = s
      BY <1>3, <1>4, <2>1
    <3>2. Told' = s
      BY <2>2, <3>1, FilesAssumption DEF Told
    <3> QED
      BY <1>0, <1>1, <1>4, <3>2, TurnSettings
  <2>5. CASE edit[c] = "mark"
    <3>1. s = [Base(c) EXCEPT !.marked = TRUE]
      BY <2>5 DEF NewSettings
    <3>2. snap[c] \in Settings \/ snap[c] = NoFile
      BY <1>1, <1>2, <1>6 DEF AtWork, SnapFits
    <3>3. CASE snap[c] = NoFile
      BY <2>3, <2>4, <3>1, <3>3 DEF Base, Abstract!Establish, Abstract!Next
    <3>4. CASE snap[c] \in Settings
      <4>1. snap[c] \notin {NoFile, Empty}
        BY <3>4, NothingSaid
      <4> QED
        BY <2>3, <2>4, <3>1, <4>1 DEF Base, Abstract!Mark, Abstract!Usable, Abstract!Next
    <3> QED
      BY <3>2, <3>3, <3>4
  <2>6. CASE edit[c] # "mark"
    <3>1. snap[c] \in Settings /\ snap[c] \notin {NoFile, Empty} /\ Base(c) = snap[c]
      BY <1>1, <1>2, <1>6, <2>6, NothingSaid DEF AtWork, SnapFits, Base
    <3>2. snap[c].marked \/ Overwrites(c)
      <4>1. Now(c) = snap[c]
        BY <1>1, <1>6, <3>1 DEF Now
      <4>2. Job[c].op \notin {"add", "remove"} \/ edit[c] = "target"
        BY <1>3, <2>2, <2>6, JobAssumption DEF EditsOf, Jobs, Operations
      <4> QED
        BY <1>1, <1>2, <4>1, <4>2 DEF AtWork, InLake, Editing, Lapsed
    <3>3. Abstract!Taken
      BY <1>1, <2>3, <3>1, <3>2, TurnFlags DEF Abstract!Taken, Abstract!Usable
    <3>4. CASE edit[c] = "target"
      <4>1. Job[c].target \in Targets
        BY <3>4, JobAssumption DEF EnvInv, EditFits, Jobs
      <4>2. s = [snap[c] EXCEPT !.target = Job[c].target]
        BY <3>1, <3>4 DEF NewSettings
      <4> QED
        BY <2>3, <2>4, <3>3, <4>1, <4>2 DEF Abstract!Retarget, Abstract!Next
    <3>5. CASE edit[c] = "retarget"
      <4>1. got[c].target \in Targets
        BY <1>1, <3>5 DEF EnvInv, EditFits, TargetKnown
      <4>2. s = [snap[c] EXCEPT !.target = got[c].target]
        BY <3>1, <3>5 DEF NewSettings
      <4> QED
        BY <2>3, <2>4, <3>3, <4>1, <4>2 DEF Abstract!Retarget, Abstract!Next
    <3>6. CASE edit[c] = "forget"
      <4>1. s = [snap[c] EXCEPT !.legacy = FALSE]
        BY <3>1, <3>6 DEF NewSettings
      <4>2. Job[c].op = "unbootstrap"
        BY <1>3, <3>6, JobAssumption DEF EditsOf, Jobs, Operations
      <4>3. Abstract!Marked
        BY <2>3, <3>1, <3>2, <4>2 DEF Abstract!Marked, Abstract!Usable, Overwrites
      <4> QED
        BY <2>3, <2>4, <4>1, <4>3 DEF Abstract!Forget, Abstract!Next
    <3>7. CASE edit[c] = "select"
      <4>1. Job[c].op \in {"create", "switch"}
        BY <3>7 DEF EnvInv, EditFits
      <4>2. Job[c].product \in Products /\ got[c].full \in Fullspecs
        BY <1>2, <3>7, <4>1, JobAssumption, FilesAssumption DEF AtWork, Made, StillFound
      <4>3. s = [snap[c] EXCEPT !.active = got[c].full, !.name = Job[c].product]
        BY <3>1, <3>7 DEF NewSettings
      <4>4. s = [snap[c] EXCEPT !.name = Job[c].product, !.active = got[c].full]
        BY <3>1, <4>3 DEF Settings
      <4> QED
        BY <2>3, <2>4, <3>3, <4>2, <4>4 DEF Abstract!Select, Abstract!Next
    <3> QED
      BY <2>2, <2>6, <3>4, <3>5, <3>6, <3>7
  <2> QED
    BY <2>5, <2>6
<1> QED
  BY <1>5, <1>6

LEMMA UnlinkSettings ==
    ASSUME EnvInv, SerialInv, ~overlapped', NEW c \in Commands, Step(c), UnlinkFile(c)
    PROVE  [Abstract!Next]_PromisedSettings
<1>1. pc[c] = "unlink" /\ ~Writing(c) /\ pc' = pc /\ ~Writing(c)' /\ Running(c)
  BY DEF UnlinkFile, Writing, Running, Over
<1>2. AtWork(c) /\ Job[c].op = "remove"
  BY <1>1 DEF SerialInv, AtWork, InLake
<1>3. PromisedSettings = Told /\ PromisedSettings' = Told'
  BY <1>1, TurnSettings
<1>4. files'[SpecFile] = files[SpecFile]
      \/ (files[SpecFile] # NoFile /\ files'[SpecFile] = NoFile)
  BY FilesDiffer
     DEF UnlinkFile, Unlink, directoryVars, Present, EnvInv, TypeOK, DirectoryTypeOK
<1>5. CASE files'[SpecFile] = files[SpecFile]
  BY <1>3, <1>5 DEF Told
<1>6. CASE files[SpecFile] # NoFile /\ files'[SpecFile] = NoFile
  <2>1. /\ files[SpecFile] \in Settings /\ files[SpecFile].marked
        /\ Forces(c) \/ files[SpecFile].active = NoFullspec
    BY <1>1, <1>2, <1>6 DEF AtWork, MayRemove, Readable, Forces
  <2>2. PromisedSettings = files[SpecFile] /\ PromisedSettings' = NoFile
    BY <1>3, <1>6, <2>1, FilesAssumption DEF Told
  <2>3. files[SpecFile] \notin {NoFile, Empty}
    BY <2>1, NothingSaid
  <2> QED
    BY <1>1, <2>1, <2>2, <2>3, TurnFlags
       DEF Abstract!Remove, Abstract!Marked, Abstract!Usable, Abstract!Next
<1> QED
  BY <1>4, <1>5, <1>6

(* Who dies while writing leaves an empty spec.json.                       *)
LEMMA AbortSettings ==
    ASSUME EnvInv, SerialInv, ~overlapped', NEW c \in Commands, Step(c), Abort(c)
    PROVE  [Abstract!Next]_PromisedSettings
<1>1. /\ files' = files /\ pc'[c] = "failed" /\ Running(c)
      /\ PromisedSettings = CurrentSettings
      /\ PromisedSettings' = CurrentSettings'
  BY TurnSettings DEF Abort, CloseAll, Goto, EnvInv, TypeOK
<1>2. CASE ~Writing(c)
  BY <1>1, <1>2, QuietSettings
<1>3. CASE Writing(c)
  <2>1. /\ AtWork(c) /\ pc[c] = "fill" /\ EditedFile(c) = SpecFile
        /\ files[EditedFile(c)] = Empty
    BY <1>1, <1>3, TakesTurn, TurnSettings
  <2>2. files[SpecFile] = Empty /\ ~Writing(c)'
    BY <1>1, <2>1 DEF Writing
  <2>3. PromisedSettings = Meanwhile(c) /\ PromisedSettings' = Empty
    BY <1>1, <1>3, <2>2, TurnSettings DEF Told
  <2>4. Meanwhile(c) # Empty
    BY <2>1, EditsOfSpec, BlankIsSettings, NothingSaid, FilesAssumption
       DEF AtWork, SnapFits, Meanwhile
  <2> QED
    BY <2>3, <2>4 DEF Abstract!Lose, Abstract!Next
<1> QED
  BY <1>2, <1>3

LEMMA SettingsStep ==
    ASSUME EnvInv, SerialInv, ~overlapped', NEW c \in Commands, Step(c)
    PROVE  [Abstract!Next]_PromisedSettings
<1>1. CASE OpenForEdit(c) \/ FillForEdit(c) \/ UnlinkFile(c) \/ Abort(c)
  BY <1>1, OpenSettings, FillSettings, UnlinkSettings, AbortSettings
<1>2. CASE \/ Start(c) \/ CheckAdoption(c) \/ Report(c) \/ ReadProduct(c)
           \/ RecordLake(c) \/ RemoveDirectory(c) \/ SkipEdit(c) \/ SelectFirst(c)
           \/ ReadForEdit(c)
  <2>1. files' = files /\ pc[c] # "fill" /\ pc'[c] # "fill"
    BY <1>2 DEF Start, StartAdd, StartCreate, StartSwitch, StartUnbootstrap, StartBootstrap,
       StartRemove, CheckAdoption, Report, ReadProduct, RecordLake, RemoveDirectory,
       SkipEdit, SelectFirst, ReadForEdit, Proceed, Goto, Begins, directoryVars, EnvInv,
       TypeOK
  <2>2. CurrentSettings' = CurrentSettings
    BY <2>1, QuietSettings DEF Writing
  <2> QED
    BY <2>2, TurnSettings
<1> QED
  BY <1>1, <1>2 DEF Step, Act, MakeEdit

(* Nothing is promised any more, or nothing was promised before.           *)
LEMMA OverlapSettings ==
    ASSUME EnvInv, [Next]_vars, overlapped'
    PROVE  [Abstract!Next]_PromisedSettings
<1>1. PromisedSettings' = Empty
  BY DEF PromisedSettings
<1> QED
  BY <1>1 DEF Abstract!Lose, Abstract!Next

LEMMA SettingsInit == Init => Abstract!Init
<1> SUFFICES ASSUME Init PROVE CurrentSettings # Empty
  BY DEF Abstract!Init, PromisedSettings, Init
<1>1. \A c \in Commands : ~Writing(c)
  BY DEF Init, Writing
<1>2. files[SpecFile] # Empty /\ files[SpecFile] # Garbled
  <2>1. CASE NewDirectory
    BY <2>1, FilesAssumption, FilesDiffer DEF NewDirectory
  <2>2. CASE ForeignDirectory
    BY <2>2, FilesAssumption, FilesDiffer, BlankIsSettings, NothingSaid DEF ForeignDirectory
  <2>3. CASE OlderDirectory
    <3>1. PICK i \in Inputs : files[SpecFile] = OlderSettings(i)
      BY <2>3, FilesDiffer DEF OlderDirectory
    <3> QED
      BY <3>1, OlderIsSettings, NothingSaid
  <2> QED
    BY <2>1, <2>2, <2>3 DEF Init
<1> QED
  BY <1>1, <1>2 DEF CurrentSettings

(* As long as one command is at work at a time, and each may crash at any  *)
(* point, the settings change as LakeSettings says: a command changes the  *)
(* aspect it is for and no other, but for a lake create whose product file *)
(* is spec.json (environment_spec.py, lake_environment.py,                 *)
(* lake_product.py).                                                       *)
THEOREM ImplementsSettings == Spec => SerialImplementsSettings
<1>1. EnvInv /\ (~overlapped => SerialInv) /\ [Next]_vars =>
        [Abstract!Next]_PromisedSettings
  <2> SUFFICES ASSUME EnvInv, ~overlapped => SerialInv, [Next]_vars
               PROVE  [Abstract!Next]_PromisedSettings
    OBVIOUS
  <2>1. CASE UNCHANGED vars
    BY <2>1 DEF vars, directoryVars, commandVars, historyVars, PromisedSettings,
       CurrentSettings, Writing
  <2>2. CASE overlapped'
    BY <2>2, OverlapSettings
  <2>3. CASE Next /\ ~overlapped'
    <3>1. PICK c \in Commands : Step(c)
      BY <2>3 DEF Next
    <3>2. SerialInv
      BY <2>3, <3>1 DEF Step
    <3> QED
      BY <2>3, <3>1, <3>2, SettingsStep
  <2> QED
    BY <2>1, <2>2, <2>3
<1> QED
  BY <1>1, SettingsInit, EnvironmentInvariant, SerialInvariant, PTL
     DEF Spec, SerialImplementsSettings, Abstract!Spec
=============================================================================
