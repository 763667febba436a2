------------------------ MODULE LakeInspectionProofs ------------------------
(***************************************************************************)
(* Proofs about LakeInspection: what a report of lake status is worth, for *)
(* any number of commands, products and Secrets beside it.                 *)
(***************************************************************************)
EXTENDS LakeInspection, LakeClusterProofs

-----------------------------------------------------------------------------
(* A Secret that an unbootstrap has deleted.                               *)
Gone(s) == \E d \in deleted : d.res = s

SecretOf(k) == BootstrapSecrets[lake][k]

(* The Secrets read so far have been found or not.                         *)
Covered(k) == k < iat => SecretOf(k) \in existing \cup absent

(* Either the Secrets existed together, or one was created meanwhile, or   *)
(* one is missing still and has not been counted as found.                 *)
Snapshot ==
    \/ whole
    \/ \E k \in 1..Len(BootstrapSecrets[lake]) :
         \/ SecretOf(k) \in restored
         \/ SecretOf(k) \notin existing /\ ~Exists(SecretOf(k))

(* While it reads the Secrets of a lake, each exists or was deleted.       *)
Reading ==
    /\ \A k \in 1..Len(BootstrapSecrets[lake]) :
         /\ Accounted(SecretOf(k))
         /\ Covered(k)
         /\ SecretOf(k) \in restored => Gone(SecretOf(k))
    /\ Snapshot
    /\ report = "none"

InspectionInv ==
    /\ LakeInv
    /\ InspectionTypeOK
    /\ ipc = "idle" =>
         existing = {} /\ absent = {} /\ restored = {} /\ report = "none" /\ iat = 1
    /\ ipc = "secrets" => Reading
    /\ MissingSecretsWereDeleted
    /\ BootstrappedIsASnapshot

LEMMA InspectionInitially == InspectionInit => InspectionInv
<1> SUFFICES ASSUME InspectionInit PROVE InspectionInv
  OBVIOUS
<1>1. LakeInv
  BY LakeInvInit DEF InspectionInit
<1> QED
  BY <1>1 DEF InspectionInit, StatusInit, InspectionInv, InspectionTypeOK,
     StatusTypeOK, MissingSecretsWereDeleted, BootstrappedIsASnapshot

(* What unbootstraps have deleted, they have deleted.                      *)
LEMMA DeletedGrows ==
    ASSUME LakeInv, [Next]_vars
    PROVE  deleted \subseteq deleted'
<1>1. StoreEffect
  BY NextStoreEffect DEF LakeInv
<1> QED
  BY <1>1 DEF StoreEffect, NewObject, GoneObject, EditedObject

(* A lake that is recorded has each of its Secrets, save deleted ones.     *)
LEMMA RecordedAccounted ==
    ASSUME LakeInv, Exists(StateMap)
    PROVE  LET p == store[StateMap].holds IN
           /\ p \in Products
           /\ \A k \in 1..Len(BootstrapSecrets[p]) : Accounted(BootstrapSecrets[p][k])
<1>1. /\ store[StateMap].by \in Bootstraps
      /\ store[StateMap].holds = product[store[StateMap].by]
      /\ Made(StateMap, store[StateMap].by)
  BY DEF LakeInv, StateIsOfRecorder, Made
<1> QED
  BY <1>1 DEF LakeInv, RecorderFinished, Applied, Names

(* The names of the lake under inspection.                                 *)
LEMMA ExpectedAreSecrets ==
    ASSUME InspectionInv, ipc = "secrets"
    PROVE  /\ lake \in Products
           /\ Len(BootstrapSecrets[lake]) \in Nat \ {0}
           /\ iat \in 1..Len(BootstrapSecrets[lake])
           /\ \A k \in 1..Len(BootstrapSecrets[lake]) :
                SecretOf(k) \in Secrets /\ SecretOf(k) \in Resources
<1>1. lake \in Products /\ iat \in 1..Len(BootstrapSecrets[lake])
  BY DEF InspectionInv, InspectionTypeOK, StatusTypeOK
<1> QED
  BY <1>1, NamesAreSecrets DEF SecretOf

(* The history variables, in any step.                                     *)
Histories ==
    /\ whole' = (ipc' # "idle" /\ (whole \/ (ipc' = "secrets" /\ Together')))
    /\ restored' = IF ipc' = "idle" THEN {}
                   ELSE IF ipc # "secrets" THEN restored
                   ELSE restored \cup {s \in Secrets : ~Exists(s) /\ Exists(s)'}

-----------------------------------------------------------------------------
(* Steps of the commands beside the inspection.                            *)
LEMMA ReadingKeptByCommands ==
    ASSUME InspectionInv, [Next]_vars, UNCHANGED statusVars, Histories, ipc = "secrets"
    PROVE  Reading'
<1>1. Reading /\ LakeInv /\ ipc' = "secrets"
  BY DEF InspectionInv, statusVars
<1>2. deleted \subseteq deleted'
  BY <1>1, DeletedGrows
<1>3. \A s : Gone(s) => Gone(s)'
  BY <1>2 DEF Gone
<1>4. restored' = restored \cup {s \in Secrets : ~Exists(s) /\ Exists(s)'}
  BY <1>1 DEF Histories
<1>5. \A k : SecretOf(k)' = SecretOf(k) /\ Covered(k)' = Covered(k)
  BY DEF SecretOf, Covered, statusVars
<1>6. ASSUME NEW k \in 1..Len(BootstrapSecrets[lake])
      PROVE  /\ Accounted(SecretOf(k))'
             /\ SecretOf(k) \in restored' => Gone(SecretOf(k))'
  <2>1. /\ Accounted(SecretOf(k)) /\ (SecretOf(k) \in restored => Gone(SecretOf(k)))
        /\ SecretOf(k) \in Resources
    BY <1>1, <1>6, ExpectedAreSecrets DEF Reading
  <2>0. SecretOf(k)' = SecretOf(k)
    BY <1>5
  <2>2. Accounted(SecretOf(k))'
    <3>1. TypeOK /\ StoreEffect
      BY <1>1, NextStoreEffect DEF LakeInv
    <3>2. \A r \in Resources : Accounted(r) => Accounted(r)'
      BY <3>1, AccountsPersist
    <3> QED
      BY <2>1, <3>2, <1>5 DEF Accounted, Exists
  <2>3. ~Exists(SecretOf(k)) => Gone(SecretOf(k))
    BY <2>1 DEF Accounted, Gone
  <2>4. SecretOf(k) \in restored' => \E d \in deleted' : d.res = SecretOf(k)
    BY <1>2, <1>4, <2>1, <2>3 DEF Gone
  <2> QED
    BY <2>0, <2>2, <2>4 DEF Gone
<1>7. Snapshot'
  <2>1. CASE whole
    BY <1>1, <2>1 DEF Histories, Snapshot
  <2>2. ASSUME NEW k \in 1..Len(BootstrapSecrets[lake]),
               \/ SecretOf(k) \in restored
               \/ SecretOf(k) \notin existing /\ ~Exists(SecretOf(k))
        PROVE  Snapshot'
    <3>1. SecretOf(k) \in Secrets
      BY <2>2, ExpectedAreSecrets
    <3>2. \/ SecretOf(k) \in restored'
          \/ SecretOf(k) \notin existing /\ store'[SecretOf(k)] = NoObject
      BY <1>4, <2>2, <3>1 DEF Exists
    <3> QED
      BY <1>5, <3>2 DEF Snapshot, Exists, statusVars
  <2> QED
    BY <1>1, <2>1, <2>2 DEF Reading, Snapshot
<1> QED
  BY <1>1, <1>5, <1>6, <1>7 DEF Reading, statusVars, Gone, Accounted, Exists

LEMMA InvKeptByCommands ==
    ASSUME InspectionInv, [Next]_vars, UNCHANGED statusVars, Histories
    PROVE  InspectionInv'
<1>1. LakeInv'
  BY LakeInvNext DEF InspectionInv
<1>2. InspectionTypeOK'
  BY DEF InspectionInv, InspectionTypeOK, StatusTypeOK, Histories, statusVars
<1>3. ipc' = "idle" =>
        existing' = {} /\ absent' = {} /\ restored' = {} /\ report' = "none" /\ iat' = 1
  BY DEF InspectionInv, Histories, statusVars
<1>4. ipc' = "secrets" => Reading'
  BY ReadingKeptByCommands DEF statusVars
<1>5. deleted \subseteq deleted'
  BY DeletedGrows DEF InspectionInv
<1>6. MissingSecretsWereDeleted'
  BY <1>5 DEF InspectionInv, MissingSecretsWereDeleted, statusVars
<1>7. BootstrappedIsASnapshot'
  <2> SUFFICES ASSUME report = "bootstrapped"
               PROVE  \/ whole'
                      \/ \E s \in existing \cap restored' : \E d \in deleted' : d.res = s
    BY DEF BootstrappedIsASnapshot, statusVars
  <2>1. ipc = "done"
    BY DEF InspectionInv, InspectionTypeOK, StatusTypeOK, Reading
  <2>2. ipc' = "done" /\ (whole => whole') /\ restored' = restored
    BY <2>1 DEF Histories, statusVars
  <2> QED
    BY <1>5, <2>2 DEF InspectionInv, BootstrappedIsASnapshot
<1> QED
  BY <1>1, <1>2, <1>3, <1>4, <1>6, <1>7 DEF InspectionInv

-----------------------------------------------------------------------------
(* Steps of the inspection: the namespace stays as it is.                  *)
Frame ==
    /\ InspectionInv
    /\ UNCHANGED vars
    /\ Histories

LEMMA FrameKept ==
    ASSUME Frame
    PROVE  /\ LakeInv'
           /\ ipc = "secrets" /\ ipc' # "idle" => restored' = restored
           /\ ipc' = "idle" => restored' = {}
           /\ ipc' # "idle" /\ ipc # "secrets" => restored' = restored
           /\ whole' \in BOOLEAN
           /\ ipc' # "idle" /\ whole => whole'
           /\ \A r : Accounted(r)' = Accounted(r)
<1>1. LakeInv'
  BY LakeInvNext DEF Frame, InspectionInv
<1>2. store' = store /\ deleted' = deleted
  BY DEF Frame, vars, namespaceVars
<1>3. {s \in Secrets : ~Exists(s) /\ Exists(s)'} = {}
  BY <1>2 DEF Exists
<1> QED
  BY <1>1, <1>2, <1>3 DEF Frame, Histories, InspectionInv, InspectionTypeOK,
     Accounted, Exists

LEMMA FindLakeKept ==
    ASSUME Frame, FindLake
    PROVE  InspectionInv'
<1>1. /\ ipc = "idle" /\ ipc' = "secrets" /\ lake' = store[StateMap].holds
      /\ iat' = iat /\ existing' = existing /\ absent' = absent /\ report' = report
      /\ Exists(StateMap)
      /\ InspectionInv
  BY DEF FindLake, Frame
<1>2. /\ existing = {} /\ absent = {} /\ restored' = {} /\ report = "none" /\ iat = 1
      /\ LakeInv' /\ whole' \in BOOLEAN /\ LakeInv
  BY <1>1, FrameKept DEF InspectionInv
<1> DEFINE p == store[StateMap].holds
<1>3. /\ p \in Products /\ Len(BootstrapSecrets[p]) \in Nat \ {0}
      /\ \A k \in 1..Len(BootstrapSecrets[p]) :
           \/ store'[BootstrapSecrets[p][k]] # NoObject
           \/ \E d \in deleted' : d.res = BootstrapSecrets[p][k]
  <2>1. p \in Products
        /\ \A k \in 1..Len(BootstrapSecrets[p]) : Accounted(BootstrapSecrets[p][k])
    BY <1>1, <1>2, RecordedAccounted
  <2>2. store' = store /\ deleted' = deleted
    BY DEF Frame, vars, namespaceVars
  <2> QED
    BY <2>1, <2>2, NamesAreSecrets DEF Accounted, Exists
<1>4. Snapshot'
  <2>1. CASE Together'
    BY <1>1, <2>1 DEF Frame, Histories, Snapshot
  <2>2. CASE ~Together'
    BY <1>1, <1>2, <2>2 DEF Together, ExpectedSecrets, Snapshot, SecretOf
  <2> QED
    BY <2>1, <2>2
<1>5. Reading'
  <2>1. \A k : SecretOf(k)' = BootstrapSecrets[p][k]
    BY <1>1 DEF SecretOf
  <2>2. lake' = p
    BY <1>1
  <2> HIDE DEF p
  <2>3. ASSUME NEW k \in 1..Len(BootstrapSecrets[p])
        PROVE  Accounted(SecretOf(k))' /\ Covered(k)' /\ SecretOf(k)' \notin restored'
    <3>1. Accounted(SecretOf(k))'
      BY <1>3, <2>1 DEF Accounted, Exists
    <3>2. Covered(k)'
      BY <1>1, <1>2 DEF Covered
    <3> QED
      BY <1>2, <3>1, <3>2
  <2> QED
    BY <1>1, <1>2, <1>4, <2>2, <2>3 DEF Reading
<1>6. InspectionTypeOK'
  BY <1>1, <1>2, <1>3 DEF InspectionTypeOK, StatusTypeOK
<1> QED
  BY <1>1, <1>2, <1>5, <1>6
  DEF InspectionInv, MissingSecretsWereDeleted, BootstrappedIsASnapshot

(* One Secret is read.                                                     *)
LEMMA SecretRead ==
    ASSUME Frame, InspectSecret
    PROVE  LET s == SecretOf(iat) IN
           /\ ipc = "secrets" /\ lake' = lake /\ lake \in Products
           /\ iat \in 1..Len(BootstrapSecrets[lake])
           /\ Len(BootstrapSecrets[lake]) \in Nat
           /\ s \in Secrets
           /\ existing' = (IF Exists(s) THEN existing \cup {s} ELSE existing)
           /\ absent' = (IF Exists(s) THEN absent ELSE absent \cup {s})
           /\ store' = store /\ deleted' = deleted
           /\ Reading /\ LakeInv' /\ whole' \in BOOLEAN
           /\ ipc' # "idle" => restored' = restored /\ (whole => whole')
<1>1. InspectionInv /\ ipc = "secrets" /\ lake' = lake /\ Reading
  BY DEF Frame, InspectSecret, InspectionInv
<1>2. /\ existing' = (IF Exists(SecretOf(iat)) THEN existing \cup {SecretOf(iat)}
                      ELSE existing)
      /\ absent' = (IF Exists(SecretOf(iat)) THEN absent
                    ELSE absent \cup {SecretOf(iat)})
  BY DEF InspectSecret, SecretOf, ExpectedSecrets
<1>3. store' = store /\ deleted' = deleted
  BY DEF Frame, vars, namespaceVars
<1> QED
  BY <1>1, <1>2, <1>3, FrameKept, ExpectedAreSecrets

LEMMA MissingKept ==
    ASSUME Frame, InspectSecret
    PROVE  MissingSecretsWereDeleted'
<1>1. ~Exists(SecretOf(iat)) => Gone(SecretOf(iat))
  BY SecretRead DEF Reading, Accounted, Gone
<1> QED
  BY <1>1, SecretRead
  DEF Frame, InspectionInv, MissingSecretsWereDeleted, Gone

(* After a read that is not the last.                                      *)
LEMMA ReadOn ==
    ASSUME Frame, InspectSecret, iat < Len(BootstrapSecrets[lake])
    PROVE  InspectionInv'
<1>1. ipc' = "secrets" /\ iat' = iat + 1 /\ report' = report /\ report = "none"
  BY SecretRead DEF InspectSecret, ExpectedSecrets, Reading
<1>2. \A k \in 1..Len(BootstrapSecrets[lake]) : Covered(k)'
  <2> SUFFICES ASSUME NEW k \in 1..Len(BootstrapSecrets[lake]), k < iat + 1
               PROVE  SecretOf(k) \in existing' \cup absent'
    BY <1>1, SecretRead DEF Covered, SecretOf
  <2>1. CASE k < iat
    BY <2>1, SecretRead DEF Reading, Covered
  <2>2. CASE k = iat
    BY <2>2, SecretRead
  <2> QED
    BY <2>1, <2>2, SecretRead
<1>3. Snapshot'
  <2>1. CASE whole
    BY <1>1, <2>1, SecretRead DEF Snapshot
  <2>2. ASSUME NEW k \in 1..Len(BootstrapSecrets[lake]),
               \/ SecretOf(k) \in restored
               \/ SecretOf(k) \notin existing /\ ~Exists(SecretOf(k))
        PROVE  Snapshot'
    <3>1. \/ SecretOf(k) \in restored'
          \/ SecretOf(k) \notin existing' /\ store'[SecretOf(k)] = NoObject
      BY <1>1, <2>2, SecretRead DEF Exists
    <3> QED
      BY <3>1, SecretRead DEF Snapshot, SecretOf, Exists
  <2> QED
    BY <2>1, <2>2, SecretRead DEF Reading, Snapshot
<1>4. Reading'
  BY <1>1, <1>2, <1>3, SecretRead DEF Reading, SecretOf, Accounted, Exists, Gone
<1>5. InspectionTypeOK'
  BY <1>1, SecretRead
  DEF Frame, InspectionInv, InspectionTypeOK, StatusTypeOK
<1> QED
  BY <1>1, <1>4, <1>5, MissingKept, SecretRead
  DEF InspectionInv, BootstrappedIsASnapshot

(* After the last.                                                         *)
LEMMA ReadLast ==
    ASSUME Frame, InspectSecret, iat = Len(BootstrapSecrets[lake])
    PROVE  InspectionInv'
<1>1. /\ ipc' = "done" /\ iat' = iat
      /\ report' = BootstrapState(existing', absent')
  BY SecretRead DEF InspectSecret, ExpectedSecrets
<1>2. \A k \in 1..Len(BootstrapSecrets[lake]) : SecretOf(k) \in existing' \cup absent'
  <2> TAKE k \in 1..Len(BootstrapSecrets[lake])
  <2>1. CASE k < iat
    BY <2>1, SecretRead DEF Reading, Covered
  <2>2. CASE k = iat
    BY <2>2, SecretRead
  <2> QED
    BY <2>1, <2>2, SecretRead
<1>3. BootstrappedIsASnapshot'
  <2> SUFFICES ASSUME absent' = {}, ~whole
               PROVE  \E s \in existing' \cap restored' : \E d \in deleted' : d.res = s
    BY <1>1, SecretRead DEF BootstrappedIsASnapshot, BootstrapState
  <2>1. PICK k \in 1..Len(BootstrapSecrets[lake]) :
              \/ SecretOf(k) \in restored
              \/ SecretOf(k) \notin existing /\ ~Exists(SecretOf(k))
    BY SecretRead DEF Reading, Snapshot
  <2>2. SecretOf(k) \in existing'
    BY <1>2
  <2>3. SecretOf(k) \in restored
    BY <2>1, <2>2, SecretRead
  <2> QED
    BY <1>1, <2>2, <2>3, SecretRead DEF Reading, Gone
<1>4. InspectionTypeOK'
  BY <1>1, SecretRead
  DEF Frame, InspectionInv, InspectionTypeOK, StatusTypeOK, BootstrapState, BootstrapStates
<1> QED
  BY <1>1, <1>3, <1>4, MissingKept, SecretRead DEF InspectionInv

(* The other steps report what they know, or begin again.                  *)
LEMMA OtherStepsKept ==
    ASSUME Frame, FindNoLake \/ InspectRefused \/ InspectFails \/ InspectAgain
    PROVE  InspectionInv'
<1>1. /\ InspectionInv /\ LakeInv' /\ whole' \in BOOLEAN
      /\ store' = store /\ deleted' = deleted
      /\ restored' \subseteq Secrets
  BY FrameKept DEF Frame, vars, namespaceVars, InspectionInv, InspectionTypeOK
<1>2. CASE FindNoLake
  BY <1>1, <1>2 DEF FindNoLake, InspectionInv, InspectionTypeOK, StatusTypeOK,
     MissingSecretsWereDeleted, BootstrappedIsASnapshot, BootstrapStates
<1>3. CASE InspectRefused
  BY <1>1, <1>3 DEF InspectRefused, InspectionInv, InspectionTypeOK, StatusTypeOK,
     MissingSecretsWereDeleted, BootstrappedIsASnapshot, BootstrapStates
<1>4. CASE InspectFails
  BY <1>1, <1>4 DEF InspectFails, InspectionInv, InspectionTypeOK, StatusTypeOK,
     MissingSecretsWereDeleted, BootstrappedIsASnapshot
<1>5. CASE InspectAgain
  BY <1>1, <1>5, FrameKept DEF InspectAgain, InspectionInv, InspectionTypeOK, StatusTypeOK,
     MissingSecretsWereDeleted, BootstrappedIsASnapshot
<1> QED
  BY <1>2, <1>3, <1>4, <1>5

-----------------------------------------------------------------------------
LEMMA InspectionStep == InspectionInv /\ [InspectionNext]_inspectionVars => InspectionInv'
<1> SUFFICES ASSUME InspectionInv, [InspectionNext]_inspectionVars
             PROVE  InspectionInv'
  OBVIOUS
<1>1. CASE Next /\ UNCHANGED statusVars /\ InspectionNext
  BY <1>1, InvKeptByCommands DEF InspectionNext, Histories
<1>2. CASE StatusStep /\ UNCHANGED <<bootstrapVars, unbootstrapVars>> /\ InspectionNext
  <2>1. Frame
    BY <1>2 DEF StatusStep, FindNoLake, FindLake, InspectSecret, InspectRefused,
       InspectFails, InspectAgain, InspectionNext, Histories, Frame, vars
  <2>2. CASE FindLake
    BY <2>1, <2>2, FindLakeKept
  <2>3. CASE InspectSecret
    <3>1. iat < Len(BootstrapSecrets[lake]) \/ iat = Len(BootstrapSecrets[lake])
      BY <2>3 DEF InspectSecret, ExpectedSecrets
    <3> QED
      BY <2>1, <2>3, <3>1, ReadOn, ReadLast
  <2> QED
    BY <1>2, <2>1, <2>2, <2>3, OtherStepsKept DEF StatusStep
<1>3. CASE UNCHANGED inspectionVars
  BY <1>3, LakeInvNext DEF inspectionVars, statusVars, vars, namespaceVars, InspectionInv,
     InspectionTypeOK, StatusTypeOK, Reading, Snapshot, Covered, SecretOf, Gone,
     Accounted, Exists, MissingSecretsWereDeleted, BootstrappedIsASnapshot
<1> QED
  BY <1>1, <1>2, <1>3 DEF InspectionNext

(* The variables of the inspection keep their types: it never reads past   *)
(* the Secrets of the lake it found.                                       *)
THEOREM InspectionType == InspectionSpec => []InspectionTypeOK
<1>1. InspectionInv => InspectionTypeOK
  BY DEF InspectionInv
<1> QED
  BY <1>1, InspectionInitially, InspectionStep, PTL DEF InspectionSpec

(* A Secret lake status does not find was deleted by an unbootstrap.       *)
THEOREM MissingWereDeleted == InspectionSpec => []MissingSecretsWereDeleted
<1>1. InspectionInv => MissingSecretsWereDeleted
  BY DEF InspectionInv
<1> QED
  BY <1>1, InspectionInitially, InspectionStep, PTL DEF InspectionSpec

(* A lake called bootstrapped was whole at one moment, or one of its       *)
(* Secrets was deleted and created again.                                  *)
THEOREM BootstrappedSnapshot == InspectionSpec => []BootstrappedIsASnapshot
<1>1. InspectionInv => BootstrappedIsASnapshot
  BY DEF InspectionInv
<1> QED
  BY <1>1, InspectionInitially, InspectionStep, PTL DEF InspectionSpec
=============================================================================
