------------------------- MODULE LakeClusterProofs -------------------------
(***************************************************************************)
(* Proofs about LakeCluster for every number of commands, products,        *)
(* Secrets and edits, and whether or not operators take turns.             *)
(***************************************************************************)
EXTENDS LakeCluster, TLAPS

-----------------------------------------------------------------------------
(* The inductive invariant.                                                *)

(* A running command works on a real product, at an index of its names.    *)
BootstrapInRange(b) ==
    /\ bpc[b] = "idle" => step[b] = 1
    /\ bpc[b] \in {"idle", "guard", "apply"} => mode[b] = "checked"
    /\ Bootstrapping(b) =>
         product[b] \in Products /\ step[b] \in 1..Len(Names(b))

UnbootstrapInRange(u) ==
    /\ upc[u] = "idle" => at[u] = 1
    /\ Unbootstrapping(u) =>
         plan[u].product \in Products /\ at[u] \in 1..Len(Candidates(plan[u]))

InRange ==
    /\ \A b \in Bootstraps : BootstrapInRange(b)
    /\ \A u \in Unbootstraps : UnbootstrapInRange(u)

(* The Secrets a bootstrap is past.                                        *)
Passed(b) ==
    IF bpc[b] \in {"apply", "create"} THEN 1..(step[b] - 1)
    ELSE IF bpc[b] = "record" THEN 1..Len(Names(b)) ELSE {}

(* A Secret b is past exists or was deleted, and if b is blind it made it. *)
Applied(b, k) ==
    /\ Accounted(Names(b)[k])
    /\ mode[b] = "blind" => Made(Names(b)[k], b)

PassedApplied ==
    \A b \in Bootstraps : \A k \in Passed(b) : Applied(b, k)

(* Only a bootstrap that is over and is past all its Secrets has recorded. *)
RecorderFinished ==
    \A b \in Bootstraps :
        Made(StateMap, b) =>
            /\ bpc[b] \in {"done", "failed"}
            /\ product[b] \in Products
            /\ \A k \in 1..Len(Names(b)) : Applied(b, k)

StateIsOfRecorder ==
    Exists(StateMap) =>
        /\ store[StateMap].by \in Bootstraps
        /\ store[StateMap].holds = product[store[StateMap].by]

LakeInv ==
    /\ TypeOK
    /\ InRange
    /\ PassedApplied
    /\ RecorderFinished
    /\ StateIsOfRecorder
    /\ SuccessIsRecorded

-----------------------------------------------------------------------------
(* Names and candidates are resources.                                     *)
LEMMA NamesAreSecrets ==
    ASSUME NEW p \in Products
    PROVE  /\ BootstrapSecrets[p] \in Seq(Secrets)
           /\ Len(BootstrapSecrets[p]) \in Nat \ {0}
           /\ \A k \in 1..Len(BootstrapSecrets[p]) :
                /\ BootstrapSecrets[p][k] \in Secrets
                /\ BootstrapSecrets[p][k] \in Resources
                /\ BootstrapSecrets[p][k] # StateMap
  <1>1. BootstrapSecrets[p] \in Seq(Secrets) /\ Len(BootstrapSecrets[p]) > 0
    BY NamespaceAssumption
  <1>2. Len(BootstrapSecrets[p]) \in Nat \ {0}
    BY <1>1
  <1>3. \A k \in 1..Len(BootstrapSecrets[p]) : BootstrapSecrets[p][k] \in Secrets
    BY <1>1
  <1> QED
    BY <1>1, <1>2, <1>3, NamespaceAssumption DEF Resources

LEMMA InitNamesAreNotState ==
    ASSUME NEW p \in Products
    PROVE  /\ InitResources[p] \in Seq(Secrets \cup ConfigMaps)
           /\ Len(InitResources[p]) \in Nat
           /\ \A k \in 1..Len(InitResources[p]) :
                /\ InitResources[p][k] \in Resources
                /\ InitResources[p][k] # StateMap
  <1>1. InitResources[p] \in Seq(Secrets \cup ConfigMaps)
    BY NamespaceAssumption
  <1>2. \A k \in 1..Len(InitResources[p]) :
          InitResources[p][k] \in Secrets \cup ConfigMaps
    BY <1>1
  <1> QED
    BY <1>1, <1>2, NamespaceAssumption DEF Resources

LEMMA CandidatesAreResources ==
    ASSUME NEW pl \in Plan, pl.product \in Products
    PROVE  /\ Len(Candidates(pl)) \in Nat \ {0}
           /\ \A k \in 1..Len(Candidates(pl)) :
                /\ Candidates(pl)[k] \in Resources
                /\ Candidates(pl)[k] = StateMap =>
                     pl.stateful /\ k = Len(Candidates(pl))
  <1> DEFINE B == BootstrapSecrets[pl.product]
             I == InitResources[pl.product]
             S == IF pl.stateful THEN <<StateMap>> ELSE <<>>
  <1>1. /\ B \in Seq(Secrets) /\ Len(B) \in Nat \ {0}
        /\ \A k \in 1..Len(B) : B[k] \in Resources /\ B[k] # StateMap
    BY NamesAreSecrets
  <1>2. /\ I \in Seq(Secrets \cup ConfigMaps) /\ Len(I) \in Nat
        /\ \A k \in 1..Len(I) : I[k] \in Resources /\ I[k] # StateMap
    BY InitNamesAreNotState
  <1>3. /\ S \in Seq({StateMap})
        /\ Len(S) = IF pl.stateful THEN 1 ELSE 0
        /\ \A k \in 1..Len(S) : S[k] = StateMap
    <2>1. CASE pl.stateful
      BY <2>1
    <2>2. CASE ~pl.stateful
      BY <2>2
    <2> QED
      BY <2>1, <2>2
  <1>4. Candidates(pl) = B \o I \o S
    BY DEF Candidates
  <1>5. B \in Seq(Resources) /\ I \in Seq(Resources) /\ S \in Seq(Resources)
    BY <1>1, <1>2, <1>3 DEF Resources
  <1> HIDE DEF B, I, S
  <1>6. /\ B \o I \in Seq(Resources)
        /\ Len(B \o I) = Len(B) + Len(I)
        /\ \A k \in 1..Len(B) + Len(I) :
             (B \o I)[k] = IF k <= Len(B) THEN B[k] ELSE I[k - Len(B)]
    BY <1>5
  <1>7. \A k \in 1..Len(B \o I) :
          (B \o I)[k] \in Resources /\ (B \o I)[k] # StateMap
    BY <1>1, <1>2, <1>6
  <1>8. /\ Len(Candidates(pl)) = Len(B \o I) + Len(S)
        /\ \A k \in 1..Len(Candidates(pl)) :
             Candidates(pl)[k] =
               IF k <= Len(B \o I) THEN (B \o I)[k] ELSE S[k - Len(B \o I)]
    BY <1>4, <1>5, <1>6
  <1>9. StateMap \in Resources
    BY DEF Resources
  <1>10. Len(Candidates(pl)) \in Nat \ {0}
    BY <1>1, <1>2, <1>3, <1>6, <1>8
  <1>11. ASSUME NEW k \in 1..Len(Candidates(pl))
         PROVE  /\ Candidates(pl)[k] \in Resources
                /\ Candidates(pl)[k] = StateMap =>
                     pl.stateful /\ k = Len(Candidates(pl))
    <2>1. CASE k <= Len(B \o I)
      <3>1. k \in 1..Len(B \o I)
        BY <2>1, <1>1, <1>2, <1>6
      <3> QED
        BY <3>1, <2>1, <1>7, <1>8
    <2>2. CASE ~(k <= Len(B \o I))
      <3>1. /\ Len(B \o I) \in Nat
            /\ Len(S) \in Nat
            /\ k \in Nat
        BY <1>1, <1>2, <1>3, <1>6, <1>10
      <3>2. k - Len(B \o I) \in 1..Len(S)
        BY <3>1, <2>2, <1>8
      <3>3. pl.stateful /\ k = Len(Candidates(pl))
        BY <3>1, <3>2, <1>3, <1>8
      <3>4. Candidates(pl)[k] = StateMap
        BY <3>2, <2>2, <1>3, <1>8
      <3> QED
        BY <3>3, <3>4, <1>9
    <2> QED
      BY <2>1, <2>2
  <1> QED
    BY <1>10, <1>11


-----------------------------------------------------------------------------
(* What a step does to the namespace.                                      *)
NewObject(r, o) ==
    /\ ~Exists(r)
    /\ store' = [store EXCEPT ![r] = o]
    /\ UNCHANGED deleted

GoneObject(r, u) ==
    /\ Exists(r)
    /\ store' = [store EXCEPT ![r] = NoObject]
    /\ deleted' = deleted \cup {[res |-> r, by |-> store[r].by, via |-> u]}

EditedObject(r) ==
    /\ Exists(r)
    /\ store[r].rev < MaxEdits
    /\ store' = [store EXCEPT ![r].rev = @ + 1]
    /\ UNCHANGED deleted

StoreEffect ==
    \/ UNCHANGED <<store, deleted>>
    \/ \E r \in Resources, o \in Object : NewObject(r, o)
    \/ \E r \in Resources, u \in Unbootstraps : GoneObject(r, u)
    \/ \E r \in Resources : EditedObject(r)

LEMMA ObjectIsNotNothing == \A o \in Object : o # NoObject
  BY NoObjectAssumption

(* A step of a command in range touches the namespace in one of these ways *)
LEMMA BootstrapStoreEffect ==
    ASSUME TypeOK, InRange, NEW b \in Bootstraps, BootstrapStep(b)
    PROVE  /\ active' = active /\ ran' = ran
           /\ \/ UNCHANGED <<store, deleted>>
              \/ /\ bpc[b] = "create"
                 /\ product[b] \in Products
                 /\ step[b] \in 1..Len(Names(b))
                 /\ Current(b) \in Resources
                 /\ Current(b) # StateMap
                 /\ NewObject(Current(b), [by |-> b, rev |-> 0, holds |-> NoProduct])
              \/ /\ bpc[b] = "record"
                 /\ product[b] \in Products
                 /\ NewObject(StateMap, [by |-> b, rev |-> 0, holds |-> product[b]])
  <1> USE DEF NewObject, Create, Goto, namespaceVars
  <1>1. CASE UNCHANGED namespaceVars
    BY <1>1
  <1>2. CASE bpc[b] = "create" /\ Create(Current(b), b, NoProduct)
    <2>1. product[b] \in Products /\ step[b] \in 1..Len(Names(b))
      BY <1>2 DEF InRange, BootstrapInRange, Bootstrapping
    <2>2. Current(b) \in Resources /\ Current(b) # StateMap
      BY <2>1, NamesAreSecrets DEF Current, Names
    <2> QED
      BY <1>2, <2>1, <2>2
  <1>3. CASE bpc[b] = "record" /\ Create(StateMap, b, product[b])
    BY <1>3 DEF InRange, BootstrapInRange, Bootstrapping
  <1>4. \/ UNCHANGED namespaceVars
        \/ bpc[b] = "create" /\ Create(Current(b), b, NoProduct)
        \/ bpc[b] = "record" /\ Create(StateMap, b, product[b])
    <2> HIDE DEF NewObject, Create, Goto, namespaceVars
    <2> QED
      BY DEF BootstrapStep, BeginBootstrap, StartBootstrap, RejectBootstrapped,
         ContinueBootstrap, GuardRead, ApplyRead, CreateSecret, CreateConflict,
         RecordState, RecordConflict, FailBootstrap, GuardForbidden,
         CreateUnanswered, AbortBootstrap
  <1> QED
    BY <1>1, <1>2, <1>3, <1>4

LEMMA UnbootstrapStoreEffect ==
    ASSUME TypeOK, InRange, NEW u \in Unbootstraps, UnbootstrapStep(u)
    PROVE  /\ active' = active /\ ran' = ran
           /\ \/ UNCHANGED <<store, deleted>>
              \/ /\ upc[u] = "delete"
                 /\ plan[u].product \in Products
                 /\ at[u] \in 1..Len(Candidates(plan[u]))
                 /\ Candidate(u) \in Resources
                 /\ store[Candidate(u)] = bound[u][Candidate(u)]
                 /\ GoneObject(Candidate(u), u)
  <1> USE DEF GoneObject, namespaceVars
  <1>1. CASE UNCHANGED namespaceVars
    BY <1>1
  <1>2. CASE /\ upc[u] = "delete"
             /\ DeleteIfSame(Candidate(u), bound[u][Candidate(u)], u)
    <2>1. /\ plan[u].product \in Products
          /\ at[u] \in 1..Len(Candidates(plan[u]))
      BY <1>2 DEF InRange, UnbootstrapInRange, Unbootstrapping
    <2>2. plan[u] \in Plan
      BY DEF TypeOK, UnbootstrapTypeOK
    <2>3. Candidate(u) \in Resources
      BY <2>1, <2>2, CandidatesAreResources DEF Candidate
    <2> QED
      BY <1>2, <2>1, <2>3 DEF DeleteIfSame
  <1>3. \/ UNCHANGED namespaceVars
        \/ /\ upc[u] = "delete"
           /\ DeleteIfSame(Candidate(u), bound[u][Candidate(u)], u)
    <2> HIDE DEF namespaceVars
    <2> QED
      BY DEF UnbootstrapStep, BeginUnbootstrap, PlanFromState, PlanFromSelection,
         PlanImpossible, ContinueUnbootstrap, Inspect, SkipMissing,
         DeleteCandidate, DeleteConflict, FailUnbootstrap, DeleteUnanswered,
         AbortUnbootstrap
  <1> QED
    BY <1>1, <1>2, <1>3

LEMMA EnvironmentStoreEffect ==
    ASSUME TypeOK, EnvironmentStep
    PROVE  \/ UNCHANGED <<store, deleted>>
           \/ \E r \in Resources, o \in Object :
                r # StateMap /\ o.by \in InitJobs /\ NewObject(r, o)
           \/ \E r \in Resources : EditedObject(r)
  <1>1. CASE \E p \in Products : SelectProduct(p)
    BY <1>1 DEF SelectProduct
  <1>2. CASE \E j \in InitJobs : InitJobCreates(j)
    <2> PICK j \in InitJobs : InitJobCreates(j)
      BY <1>2
    <2> PICK p \in Products :
          \E k \in 1..Len(InitResources[p]) :
            /\ ~Exists(InitResources[p][k])
            /\ store' = [store EXCEPT ![InitResources[p][k]] =
                           [by |-> j, rev |-> 0, holds |-> NoProduct]]
      BY DEF InitJobCreates
    <2> PICK k \in 1..Len(InitResources[p]) :
          /\ ~Exists(InitResources[p][k])
          /\ store' = [store EXCEPT ![InitResources[p][k]] =
                         [by |-> j, rev |-> 0, holds |-> NoProduct]]
      OBVIOUS
    <2>1. [by |-> j, rev |-> 0, holds |-> NoProduct] \in Object
      BY NamespaceAssumption DEF Object, Creators
    <2>2. /\ InitResources[p][k] \in Resources
          /\ InitResources[p][k] # StateMap
      BY InitNamesAreNotState
    <2>3. deleted' = deleted
      BY DEF InitJobCreates
    <2>4. NewObject(InitResources[p][k], [by |-> j, rev |-> 0, holds |-> NoProduct])
      BY <2>3 DEF NewObject
    <2> QED
      BY <2>1, <2>2, <2>4
  <1>3. CASE \E r \in Resources : Edit(r)
    BY <1>3 DEF Edit, EditedObject
  <1> QED
    BY <1>1, <1>2, <1>3 DEF EnvironmentStep, NamespaceStep

LEMMA NextStoreEffect ==
    ASSUME TypeOK, InRange, [Next]_vars
    PROVE  StoreEffect
  <1>1. ASSUME NEW b \in Bootstraps, BootstrapStep(b)
        PROVE  StoreEffect
    <2>1. ASSUME product[b] \in Products
          PROVE  /\ [by |-> b, rev |-> 0, holds |-> NoProduct] \in Object
                 /\ [by |-> b, rev |-> 0, holds |-> product[b]] \in Object
      BY <2>1, NamespaceAssumption DEF Object, Creators
    <2>2. StateMap \in Resources
      BY DEF Resources
    <2> QED
      BY <1>1, <2>1, <2>2, BootstrapStoreEffect DEF StoreEffect
  <1>2. ASSUME NEW u \in Unbootstraps, UnbootstrapStep(u)
        PROVE  StoreEffect
    BY <1>2, UnbootstrapStoreEffect DEF StoreEffect
  <1>3. CASE EnvironmentStep
    BY <1>3, EnvironmentStoreEffect DEF StoreEffect
  <1>4. CASE UNCHANGED vars
    BY <1>4 DEF vars, namespaceVars, StoreEffect
  <1> QED
    BY <1>1, <1>2, <1>3, <1>4 DEF Next

(* What is accounted for stays so, and who made an object does not change. *)
LEMMA AccountsPersist ==
    ASSUME TypeOK, StoreEffect, NEW r \in Resources
    PROVE  /\ Accounted(r) => Accounted(r)'
           /\ \A i : Made(r, i) => Made(r, i)'
  <1> USE DEF Accounted, Made, Exists
  <1>0. store \in [Resources -> Object \cup {NoObject}]
    BY DEF TypeOK, NamespaceTypeOK
  <1>1. CASE UNCHANGED <<store, deleted>>
    BY <1>1
  <1>2. ASSUME NEW q \in Resources, NEW o \in Object, NewObject(q, o)
        PROVE  /\ Accounted(r) => Accounted(r)'
               /\ \A i : Made(r, i) => Made(r, i)'
    BY <1>0, <1>2, ObjectIsNotNothing DEF NewObject
  <1>3. ASSUME NEW q \in Resources, NEW u \in Unbootstraps, GoneObject(q, u)
        PROVE  /\ Accounted(r) => Accounted(r)'
               /\ \A i : Made(r, i) => Made(r, i)'
    <2>1. CASE q = r
      <3>1. [res |-> r, by |-> store[r].by, via |-> u] \in deleted'
        BY <1>3, <2>1 DEF GoneObject
      <3>2. \A d \in deleted : d \in deleted'
        BY <1>3 DEF GoneObject
      <3> QED
        BY <3>1, <3>2
    <2>2. CASE q # r
      BY <1>0, <1>3, <2>2 DEF GoneObject
    <2> QED
      BY <2>1, <2>2
  <1>4. ASSUME NEW q \in Resources, EditedObject(q)
        PROVE  /\ Accounted(r) => Accounted(r)'
               /\ \A i : Made(r, i) => Made(r, i)'
    <2>1. CASE q = r
      <3>1. store[r] \in Object
        BY <1>0, <1>4, <2>1 DEF EditedObject
      <3>2. store'[r] \in Object /\ store'[r].by = store[r].by
        <4>1. store'[r] = [store[r] EXCEPT !.rev = @ + 1] /\ store[r].rev < MaxEdits
          BY <1>0, <1>4, <2>1 DEF EditedObject
        <4>2. MaxEdits \in Nat
          BY NamespaceAssumption
        <4> QED
          BY <3>1, <4>1, <4>2 DEF Object
      <3> QED
        BY <1>4, <3>2, ObjectIsNotNothing DEF EditedObject
    <2>2. CASE q # r
      BY <1>0, <1>4, <2>2 DEF EditedObject
    <2> QED
      BY <2>1, <2>2
  <1> QED
    BY <1>1, <1>2, <1>3, <1>4 DEF StoreEffect

-----------------------------------------------------------------------------
(* A step of one command leaves the others where they are.                 *)
LEMMA BootstrapFrame ==
    ASSUME TypeOK, NEW b \in Bootstraps, BootstrapStep(b)
    PROVE  /\ bpc[b] \notin {"done", "failed"}
           /\ UNCHANGED unbootstrapVars
           /\ \A c \in Bootstraps \ {b} :
                /\ bpc'[c] = bpc[c] /\ product'[c] = product[c]
                /\ step'[c] = step[c] /\ mode'[c] = mode[c]
           /\ bpc[b] # "idle" => product' = product
           /\ bpc[b] = "record" =>
                bpc'[b] \in {"done", "failed"} /\ UNCHANGED <<step, mode>>
  <1> USE DEF Goto, Advance, TypeOK, BootstrapTypeOK
  <1>1. CASE BeginBootstrap(b)
    BY <1>1 DEF BeginBootstrap, StartBootstrap, RejectBootstrapped, BootstrapStep
  <1>2. CASE ContinueBootstrap(b)
    BY <1>2 DEF ContinueBootstrap, GuardRead, ApplyRead, CreateSecret,
       CreateConflict, RecordState, RecordConflict, BootstrapStep
  <1>3. CASE FailBootstrap(b)
    BY <1>3 DEF FailBootstrap, GuardForbidden, CreateUnanswered, AbortBootstrap,
       Bootstrapping, BootstrapStep
  <1> QED
    BY <1>1, <1>2, <1>3 DEF BootstrapStep

(* A step of bootstrap b keeps the types and the ranges of bootstraps.     *)
LEMMA BootstrapTyped ==
    ASSUME TypeOK, InRange, NEW b \in Bootstraps, BootstrapStep(b)
    PROVE  BootstrapTypeOK' /\ BootstrapInRange(b)'
  <1> USE DEF Goto, Names, Bootstrapping, BootstrapPhases, BootstrapInRange
  <1>0. /\ BootstrapTypeOK
        /\ active \in Products \cup {NoProduct}
        /\ BootstrapInRange(b)
    BY DEF TypeOK, NamespaceTypeOK, InRange
  <1>a. ASSUME NEW p \in Products
        PROVE  1 \in 1..Len(BootstrapSecrets[p])
    <2>1. Len(BootstrapSecrets[p]) \in Nat \ {0}
      BY NamesAreSecrets
    <2> QED
      BY <2>1
  <1>b. ASSUME Advance(b), product' = product, bpc[b] \in {"apply", "create"},
               mode' = mode, found' = found
        PROVE  BootstrapTypeOK' /\ BootstrapInRange(b)'
    <2>1. product[b] \in Products /\ step[b] \in 1..Len(Names(b))
      BY <1>0, <1>b
    <2>2. Len(Names(b)) \in Nat
      BY <2>1, NamesAreSecrets
    <2>3. ~AtLast(b) => step[b] + 1 \in 1..Len(Names(b))
      BY <2>1, <2>2 DEF AtLast
    <2>4. CASE ~AtLast(b)
      <3>1. /\ step' = [step EXCEPT ![b] = step[b] + 1]
            /\ bpc' = [bpc EXCEPT ![b] = ApplyPhase(mode[b])]
            /\ ApplyPhase(mode[b]) \in {"apply", "create"}
            /\ ApplyPhase(mode[b]) = "apply" => mode[b] = "checked"
            /\ step[b] + 1 \in Nat \ {0}
        BY <1>0, <1>b, <2>1, <2>4 DEF Advance, ApplyPhase, BootstrapTypeOK
      <3>2. bpc'[b] = ApplyPhase(mode[b]) /\ step'[b] = step[b] + 1
        BY <1>0, <3>1 DEF BootstrapTypeOK
      <3>3. BootstrapInRange(b)'
        BY <1>b, <2>1, <2>3, <2>4, <3>1, <3>2
      <3>4. BootstrapTypeOK'
        BY <1>0, <1>b, <3>1 DEF BootstrapTypeOK
      <3> QED
        BY <3>3, <3>4
    <2>5. CASE AtLast(b)
      BY <1>0, <1>b, <2>1, <2>5 DEF Advance, BootstrapTypeOK
    <2> QED
      BY <2>4, <2>5
  <1>1. CASE StartBootstrap(b)
    BY <1>0, <1>1, <1>a DEF StartBootstrap, BootstrapTypeOK
  <1>2. CASE RejectBootstrapped(b)
    BY <1>0, <1>2 DEF RejectBootstrapped, BootstrapTypeOK
  <1>3. CASE GuardRead(b)
    <2>1. product[b] \in Products /\ step[b] \in 1..Len(Names(b))
      BY <1>0, <1>3 DEF GuardRead
    <2>2. Len(Names(b)) \in Nat
      BY <2>1, NamesAreSecrets
    <2>3. ~AtLast(b) => step[b] + 1 \in 1..Len(Names(b))
      BY <2>1, <2>2 DEF AtLast
    <2>4. found[b] \/ Exists(Current(b)) \in BOOLEAN
      BY <1>0 DEF Exists, BootstrapTypeOK
    <2>5. found' \in [Bootstraps -> BOOLEAN]
      BY <1>0, <1>3, <2>4 DEF GuardRead, BootstrapTypeOK
    <2>6. CASE ~AtLast(b)
      <3>1. step' = [step EXCEPT ![b] = step[b] + 1] /\ bpc' = bpc
        BY <1>3, <2>6 DEF GuardRead
      <3>2. bpc'[b] = "guard" /\ step'[b] = step[b] + 1 /\ mode'[b] = "checked"
        BY <1>0, <1>3, <3>1 DEF GuardRead, BootstrapTypeOK
      <3>3. BootstrapInRange(b)'
        BY <1>3, <2>1, <2>3, <2>6, <3>2 DEF GuardRead
      <3>4. BootstrapTypeOK'
        BY <1>0, <1>3, <2>5, <3>1 DEF GuardRead, BootstrapTypeOK
      <3> QED
        BY <3>3, <3>4
    <2>7. CASE AtLast(b)
      <3>1. 1 \in 1..Len(Names(b)) /\ mode[b] = "checked"
        BY <1>0, <1>3, <1>a, <2>1 DEF GuardRead
      <3>2. CASE Goto(b, "failed") /\ UNCHANGED step
        BY <1>0, <1>3, <2>1, <2>5, <2>7, <3>2 DEF GuardRead, BootstrapTypeOK
      <3>3. CASE step' = [step EXCEPT ![b] = 1] /\ Goto(b, "apply")
        <4>1. bpc'[b] = "apply" /\ step'[b] = 1
          BY <1>0, <3>3 DEF BootstrapTypeOK
        <4>2. BootstrapInRange(b)'
          BY <1>3, <2>1, <3>1, <4>1 DEF GuardRead
        <4>3. BootstrapTypeOK'
          BY <1>0, <1>3, <2>5, <3>3 DEF GuardRead, BootstrapTypeOK
        <4> QED
          BY <4>2, <4>3
      <3> QED
        BY <1>3, <2>7, <3>2, <3>3 DEF GuardRead, ApplyPhase
    <2> QED
      BY <2>6, <2>7
  <1>4. CASE ApplyRead(b)
    <2>1. CASE Advance(b)
      BY <1>4, <1>b, <2>1 DEF ApplyRead
    <2>2. CASE ~Advance(b)
      BY <1>0, <1>4, <2>2 DEF ApplyRead, BootstrapTypeOK
    <2> QED
      BY <2>1, <2>2
  <1>5. CASE CreateSecret(b)
    BY <1>5, <1>b DEF CreateSecret
  <1>6. CASE CreateConflict(b)
    <2>1. CASE Advance(b)
      BY <1>6, <1>b, <2>1 DEF CreateConflict
    <2>2. CASE ~Advance(b)
      BY <1>0, <1>6, <2>2 DEF CreateConflict, BootstrapTypeOK
    <2> QED
      BY <2>1, <2>2
  <1>7. CASE RecordState(b)
    BY <1>0, <1>7 DEF RecordState, BootstrapTypeOK
  <1>8. CASE RecordConflict(b)
    BY <1>0, <1>8 DEF RecordConflict, BootstrapTypeOK
  <1>9. CASE GuardForbidden(b)
    BY <1>0, <1>9, <1>a DEF GuardForbidden, ApplyPhase, BootstrapTypeOK
  <1>10. CASE CreateUnanswered(b)
    BY <1>0, <1>10 DEF CreateUnanswered, BootstrapTypeOK
  <1>11. CASE AbortBootstrap(b)
    BY <1>0, <1>11 DEF AbortBootstrap, BootstrapTypeOK
  <1> QED
    BY <1>1, <1>2, <1>3, <1>4, <1>5, <1>6, <1>7, <1>8, <1>9, <1>10, <1>11
       DEF BootstrapStep, BeginBootstrap, ContinueBootstrap, FailBootstrap

(* A step of unbootstrap u keeps the types and the ranges of unbootstraps. *)
LEMMA UnbootstrapTyped ==
    ASSUME LakeInv, NEW u \in Unbootstraps, UnbootstrapStep(u)
    PROVE  UnbootstrapTypeOK' /\ \A v \in Unbootstraps : UnbootstrapInRange(v)'
  <1> USE DEF MoveTo, Unbootstrapping, UnbootstrapPhases, UnbootstrapInRange
  <1>0. /\ UnbootstrapTypeOK
        /\ active \in Products \cup {NoProduct}
        /\ store \in [Resources -> Object \cup {NoObject}]
        /\ \A v \in Unbootstraps : UnbootstrapInRange(v)
    BY DEF LakeInv, TypeOK, NamespaceTypeOK, InRange
  <1>a. \A pl \in Plan :
          pl.product \in Products =>
            Len(Candidates(pl)) \in Nat /\ 1 \in 1..Len(Candidates(pl))
    BY CandidatesAreResources
  <1>b. Exists(StateMap) => store[StateMap].holds \in Products
    <2>1. Exists(StateMap) => Made(StateMap, store[StateMap].by)
      BY DEF Made
    <2> QED
      BY <2>1 DEF LakeInv, RecorderFinished, StateIsOfRecorder
  <1>c. ASSUME Unbootstrapping(u)
        PROVE  /\ plan[u].product \in Products
               /\ at[u] \in 1..Len(Candidates(plan[u]))
               /\ ~AtLastCandidate(u) => at[u] + 1 \in 1..Len(Candidates(plan[u]))
    BY <1>0, <1>a, <1>c DEF AtLastCandidate, UnbootstrapTypeOK
  <1>d. ASSUME NextCandidate(u), upc[u] = "delete", plan' = plan,
               bound' \in [Unbootstraps -> [Resources -> Object \cup {NoObject}]]
        PROVE  UnbootstrapTypeOK' /\ \A v \in Unbootstraps : UnbootstrapInRange(v)'
    <2>1. CASE ~AtLastCandidate(u)
      <3>1. /\ at' = [at EXCEPT ![u] = at[u] + 1]
            /\ upc' = upc
            /\ at[u] + 1 \in Nat \ {0}
        BY <1>0, <1>d, <2>1 DEF NextCandidate, UnbootstrapTypeOK
      <3> QED
        BY <1>0, <1>c, <1>d, <2>1, <3>1 DEF UnbootstrapTypeOK
    <2>2. CASE AtLastCandidate(u)
      BY <1>0, <1>d, <2>2 DEF NextCandidate, UnbootstrapTypeOK
    <2> QED
      BY <2>1, <2>2
  <1>1. CASE PlanFromState(u)
    <2> DEFINE pl == [product |-> store[StateMap].holds, stateful |-> TRUE]
    <2>1. pl \in Plan /\ pl.product \in Products
      BY <1>1, <1>b DEF Plan, PlanFromState
    <2>2. 1 \in 1..Len(Candidates(pl))
      BY <1>a, <2>1
    <2>3. plan' = [plan EXCEPT ![u] = pl]
      BY <1>1 DEF PlanFromState
    <2> HIDE DEF pl
    <2> QED
      BY <1>0, <1>1, <2>1, <2>2, <2>3 DEF PlanFromState, UnbootstrapTypeOK
  <1>2. CASE PlanFromSelection(u)
    <2> DEFINE pl == [product |-> active, stateful |-> FALSE]
    <2>1. pl \in Plan /\ pl.product \in Products
      BY <1>0, <1>2 DEF Plan, PlanFromSelection
    <2>2. 1 \in 1..Len(Candidates(pl))
      BY <1>a, <2>1
    <2>3. plan' = [plan EXCEPT ![u] = pl]
      BY <1>2 DEF PlanFromSelection
    <2> HIDE DEF pl
    <2> QED
      BY <1>0, <1>2, <2>1, <2>2, <2>3 DEF PlanFromSelection, UnbootstrapTypeOK
  <1>3. CASE PlanImpossible(u)
    BY <1>0, <1>3 DEF PlanImpossible, UnbootstrapTypeOK
  <1>4. CASE Inspect(u)
    <2>1. bound' \in [Unbootstraps -> [Resources -> Object \cup {NoObject}]]
      <3>1. Candidate(u) \in Resources
        BY <1>0, <1>4, <1>c, CandidatesAreResources
           DEF Candidate, Inspect, UnbootstrapTypeOK
      <3>2. store[Candidate(u)] \in Object \cup {NoObject}
        BY <1>0, <3>1
      <3> QED
        BY <1>0, <1>4, <3>2 DEF Inspect, UnbootstrapTypeOK
    <2>2. 1 \in 1..Len(Candidates(plan[u]))
      BY <1>0, <1>4, <1>a, <1>c DEF Inspect, UnbootstrapTypeOK
    <2> QED
      BY <1>0, <1>4, <1>c, <2>1, <2>2 DEF Inspect, UnbootstrapTypeOK
  <1>5. CASE SkipMissing(u)
    BY <1>0, <1>5, <1>d DEF SkipMissing, UnbootstrapTypeOK
  <1>6. CASE DeleteCandidate(u)
    BY <1>0, <1>6, <1>d DEF DeleteCandidate, UnbootstrapTypeOK
  <1>7. CASE DeleteConflict(u)
    BY <1>0, <1>7 DEF DeleteConflict, UnbootstrapTypeOK
  <1>8. CASE DeleteUnanswered(u)
    BY <1>0, <1>8 DEF DeleteUnanswered, UnbootstrapTypeOK
  <1>9. CASE AbortUnbootstrap(u)
    BY <1>0, <1>9 DEF AbortUnbootstrap, UnbootstrapTypeOK
  <1> QED
    BY <1>1, <1>2, <1>3, <1>4, <1>5, <1>6, <1>7, <1>8, <1>9
       DEF UnbootstrapStep, BeginUnbootstrap, ContinueUnbootstrap, FailUnbootstrap

-----------------------------------------------------------------------------
(* Each part of the invariant is kept.                                     *)
LEMMA TypeOKKept ==
    ASSUME LakeInv, [Next]_vars
    PROVE  TypeOK' /\ InRange'
  <1>0. TypeOK /\ InRange
    BY DEF LakeInv
  <1>1. store' \in [Resources -> Object \cup {NoObject}]
        /\ deleted' \subseteq [res : Resources, by : Creators, via : Unbootstraps]
    <2>0. /\ store \in [Resources -> Object \cup {NoObject}]
          /\ deleted \subseteq [res : Resources, by : Creators, via : Unbootstraps]
      BY <1>0 DEF TypeOK, NamespaceTypeOK
    <2>1. CASE UNCHANGED <<store, deleted>>
      BY <2>0, <2>1
    <2>2. ASSUME NEW r \in Resources, NEW o \in Object, NewObject(r, o)
          PROVE  <1>1!1 /\ <1>1!2
      BY <2>0, <2>2 DEF NewObject
    <2>3. ASSUME NEW r \in Resources, NEW u \in Unbootstraps, GoneObject(r, u)
          PROVE  <1>1!1 /\ <1>1!2
      <3>1. store[r] \in Object
        BY <2>0, <2>3 DEF GoneObject, Exists
      <3>2. [res |-> r, by |-> store[r].by, via |-> u]
              \in [res : Resources, by : Creators, via : Unbootstraps]
        BY <3>1 DEF Object
      <3> QED
        BY <2>0, <2>3, <3>2 DEF GoneObject
    <2>4. ASSUME NEW r \in Resources, EditedObject(r)
          PROVE  <1>1!1 /\ <1>1!2
      <3>1. store[r] \in Object /\ store[r].rev < MaxEdits
        BY <2>0, <2>4 DEF EditedObject, Exists
      <3>2. [store[r] EXCEPT !.rev = @ + 1] \in Object
        <4>1. MaxEdits \in Nat
          BY NamespaceAssumption
        <4> QED
          BY <3>1, <4>1 DEF Object
      <3>3. store' = [store EXCEPT ![r] = [store[r] EXCEPT !.rev = @ + 1]]
        BY <2>0, <2>4 DEF EditedObject
      <3> QED
        BY <2>0, <2>4, <3>2, <3>3 DEF EditedObject
    <2> QED
      BY <1>0, <2>1, <2>2, <2>3, <2>4, NextStoreEffect DEF StoreEffect
  <1>2. CASE UNCHANGED vars
    BY <1>0, <1>2 DEF vars, namespaceVars, bootstrapVars, unbootstrapVars, TypeOK,
       NamespaceTypeOK, BootstrapTypeOK, UnbootstrapTypeOK, InRange, Bootstrapping,
       BootstrapInRange, UnbootstrapInRange, Unbootstrapping, Names
  <1>3. ASSUME NEW b \in Bootstraps, BootstrapStep(b)
        PROVE  TypeOK' /\ InRange'
    <2>1. active' = active /\ ran' = ran
      BY <1>0, <1>3, BootstrapStoreEffect
    <2>2. BootstrapTypeOK' /\ BootstrapInRange(b)'
      BY <1>0, <1>3, BootstrapTyped
    <2>3. UNCHANGED unbootstrapVars
      BY <1>0, <1>3, BootstrapFrame
    <2>4. ASSUME NEW c \in Bootstraps \ {b}
          PROVE  BootstrapInRange(c)'
      <3>1. /\ bpc'[c] = bpc[c] /\ product'[c] = product[c]
            /\ step'[c] = step[c] /\ mode'[c] = mode[c]
        BY <1>0, <1>3, BootstrapFrame
      <3>2. BootstrapInRange(c)
        BY <1>0 DEF InRange
      <3> QED
        BY <3>1, <3>2 DEF BootstrapInRange, Bootstrapping, Names
    <2>5. ASSUME NEW u \in Unbootstraps
          PROVE  UnbootstrapInRange(u)'
      BY <1>0, <2>3
         DEF unbootstrapVars, InRange, UnbootstrapInRange, Unbootstrapping
    <2>6. NamespaceTypeOK'
      BY <1>0, <1>1, <2>1 DEF TypeOK, NamespaceTypeOK
    <2>7. UnbootstrapTypeOK'
      BY <1>0, <2>3 DEF unbootstrapVars, TypeOK, UnbootstrapTypeOK
    <2>8. InRange'
      BY <2>2, <2>4, <2>5 DEF InRange
    <2> QED
      BY <2>2, <2>6, <2>7, <2>8 DEF TypeOK
  <1>4. ASSUME NEW u \in Unbootstraps, UnbootstrapStep(u)
        PROVE  TypeOK' /\ InRange'
    <2>1. active' = active /\ ran' = ran
      BY <1>0, <1>4, UnbootstrapStoreEffect
    <2>2. UnbootstrapTypeOK' /\ \A v \in Unbootstraps : UnbootstrapInRange(v)'
      BY <1>4, UnbootstrapTyped
    <2>3. UNCHANGED bootstrapVars
      BY <1>4 DEF UnbootstrapStep
    <2>4. ASSUME NEW c \in Bootstraps
          PROVE  BootstrapInRange(c)'
      BY <1>0, <2>3
         DEF bootstrapVars, InRange, BootstrapInRange, Bootstrapping, Names
    <2>5. NamespaceTypeOK'
      BY <1>0, <1>1, <2>1 DEF TypeOK, NamespaceTypeOK
    <2>6. BootstrapTypeOK'
      BY <1>0, <2>3 DEF bootstrapVars, TypeOK, BootstrapTypeOK
    <2>7. InRange'
      BY <2>2, <2>4 DEF InRange
    <2> QED
      BY <2>2, <2>5, <2>6, <2>7 DEF TypeOK
  <1>5. CASE EnvironmentStep
    <2>1. UNCHANGED <<bootstrapVars, unbootstrapVars>>
      BY <1>5 DEF EnvironmentStep
    <2>2. active' \in Products \cup {NoProduct} /\ ran' \subseteq InitJobs
      BY <1>0, <1>5 DEF EnvironmentStep, NamespaceStep, SelectProduct,
         InitJobCreates, Edit, TypeOK, NamespaceTypeOK
    <2>3. NamespaceTypeOK'
      BY <1>1, <2>2 DEF NamespaceTypeOK
    <2>4. BootstrapTypeOK' /\ UnbootstrapTypeOK'
      BY <1>0, <2>1 DEF bootstrapVars, unbootstrapVars, TypeOK, BootstrapTypeOK,
         UnbootstrapTypeOK
    <2>5. InRange'
      BY <1>0, <2>1 DEF bootstrapVars, unbootstrapVars, InRange, BootstrapInRange,
         Bootstrapping, Names, UnbootstrapInRange, Unbootstrapping
    <2> QED
      BY <2>3, <2>4, <2>5 DEF TypeOK
  <1> QED
    BY <1>2, <1>3, <1>4, <1>5 DEF Next

(* A bootstrap that is over stays over, with its product and mode.         *)
LEMMA FinishedStays ==
    ASSUME TypeOK, [Next]_vars, NEW b \in Bootstraps, bpc[b] \in {"done", "failed"}
    PROVE  bpc'[b] = bpc[b] /\ product'[b] = product[b] /\ mode'[b] = mode[b]
  <1>1. CASE UNCHANGED bootstrapVars
    BY <1>1 DEF bootstrapVars
  <1>2. ASSUME NEW c \in Bootstraps, BootstrapStep(c)
        PROVE  bpc'[b] = bpc[b] /\ product'[b] = product[b] /\ mode'[b] = mode[b]
    BY <1>2, BootstrapFrame
  <1> QED
    BY <1>1, <1>2 DEF Next, UnbootstrapStep, EnvironmentStep, vars

(* A name that is applied stays applied.                                   *)
LEMMA AppliedPersists ==
    ASSUME TypeOK, InRange, [Next]_vars, NEW b \in Bootstraps,
           product[b] \in Products, product'[b] = product[b],
           mode'[b] = mode[b], NEW k \in 1..Len(Names(b)), Applied(b, k)
    PROVE  Applied(b, k)'
  <1>1. Names(b)[k] \in Resources
    BY NamesAreSecrets DEF Names
  <1>2. Names(b)' = Names(b)
    BY DEF Names
  <1>3. StoreEffect
    BY NextStoreEffect
  <1> PICK r \in Resources : r = Names(b)[k]
    BY <1>1
  <1>4. /\ Accounted(r) => Accounted(r)'
        /\ Made(r, b) => Made(r, b)'
    BY <1>3, AccountsPersist
  <1> QED
    BY <1>2, <1>4 DEF Applied, Accounted, Made, Exists

(* Advancing passes the current name only.                                 *)
LEMMA AdvancePassesOne ==
    ASSUME TypeOK, InRange, NEW b \in Bootstraps, Advance(b), product' = product,
           bpc[b] \in {"apply", "create"}, NEW k \in Passed(b)'
    PROVE  k \in 1..Len(Names(b)) /\ (k \in Passed(b) \/ k = step[b])
  <1>1. product[b] \in Products /\ step[b] \in 1..Len(Names(b))
    BY DEF InRange, BootstrapInRange, Bootstrapping
  <1>2. Len(Names(b)) \in Nat
    BY <1>1, NamesAreSecrets DEF Names
  <1>3. Names(b)' = Names(b)
    BY DEF Names
  <1>4. Passed(b) = 1..(step[b] - 1)
    BY DEF Passed
  <1>5. bpc \in [Bootstraps -> BootstrapPhases] /\ step \in [Bootstraps -> Nat \ {0}]
    BY DEF TypeOK, BootstrapTypeOK
  <1>6. CASE AtLast(b)
    <2>1. Passed(b)' = 1..Len(Names(b))
      BY <1>3, <1>5, <1>6 DEF Advance, Goto, Passed
    <2> QED
      BY <1>1, <1>2, <1>4, <1>6, <2>1 DEF AtLast
  <1>7. CASE ~AtLast(b)
    <2>1. Passed(b)' = 1..step[b]
      <3>1. bpc'[b] \in {"apply", "create"} /\ step'[b] = step[b] + 1
        BY <1>5, <1>7 DEF Advance, Goto, ApplyPhase
      <3>2. Passed(b)' = 1..(step'[b] - 1)
        BY <3>1 DEF Passed
      <3> QED
        BY <1>5, <3>1, <3>2
    <2> QED
      BY <1>1, <1>2, <1>4, <2>1
  <1> QED
    BY <1>6, <1>7

(* A step of b keeps what b has passed applied.                            *)
LEMMA PassedKeptByStep ==
    ASSUME LakeInv, NEW b \in Bootstraps, BootstrapStep(b)
    PROVE  \A k \in Passed(b)' : Applied(b, k)'
  <1>0. /\ TypeOK /\ InRange /\ [Next]_vars
        /\ BootstrapTypeOK /\ BootstrapInRange(b)
        /\ \A k \in Passed(b) : Applied(b, k)
    BY DEF LakeInv, TypeOK, InRange, PassedApplied, Next
  <1>p. Bootstrapping(b) => product[b] \in Products
    BY <1>0 DEF BootstrapInRange
  <1>a. ASSUME product' = product, mode' = mode, bpc[b] \in {"apply", "create"},
               Passed(b)' = Passed(b)
        PROVE  \A k \in Passed(b)' : Applied(b, k)'
    <2> TAKE k \in Passed(b)'
    <2>1. k \in 1..Len(Names(b))
      <3>1. step[b] \in 1..Len(Names(b)) /\ Passed(b) = 1..(step[b] - 1)
        BY <1>0, <1>a DEF BootstrapInRange, Bootstrapping, Passed
      <3>2. Len(Names(b)) \in Nat
        BY <1>a, <1>p, NamesAreSecrets DEF Names, Bootstrapping
      <3> QED
        BY <1>a, <3>1, <3>2
    <2> QED
      BY <1>0, <1>a, <1>p, <2>1, AppliedPersists DEF Bootstrapping
  <1>b. ASSUME Advance(b), product' = product, mode' = mode,
               bpc[b] \in {"apply", "create"},
               NEW r, r = Current(b), Accounted(r)',
               mode[b] = "blind" => Made(r, b)'
        PROVE  \A k \in Passed(b)' : Applied(b, k)'
    <2> TAKE k \in Passed(b)'
    <2>1. k \in 1..Len(Names(b)) /\ (k \in Passed(b) \/ k = step[b])
      BY <1>0, <1>b, AdvancePassesOne
    <2>2. CASE k \in Passed(b)
      BY <1>0, <1>b, <1>p, <2>1, <2>2, AppliedPersists DEF Bootstrapping
    <2>3. CASE k = step[b]
      BY <1>b, <2>3 DEF Applied, Current, Names, Accounted, Made, Exists
    <2> QED
      BY <2>1, <2>2, <2>3
  <1>c. bpc'[b] \notin {"apply", "create", "record"} => Passed(b)' = {}
    BY DEF Passed
  <1>d. bpc'[b] \in {"apply", "create"} /\ step'[b] = 1 => Passed(b)' = {}
    BY DEF Passed
  <1>1. CASE BeginBootstrap(b) \/ RecordState(b) \/ RecordConflict(b)
             \/ CreateUnanswered(b) \/ AbortBootstrap(b)
    BY <1>0, <1>1, <1>c DEF BeginBootstrap, StartBootstrap, RejectBootstrapped,
       RecordState, RecordConflict, CreateUnanswered, AbortBootstrap, Goto,
       BootstrapTypeOK
  <1>2. CASE GuardRead(b)
    BY <1>0, <1>2, <1>c, <1>d DEF GuardRead, Goto, ApplyPhase, BootstrapTypeOK
  <1>3. CASE GuardForbidden(b)
    BY <1>0, <1>3, <1>d DEF GuardForbidden, Goto, ApplyPhase, BootstrapTypeOK
  <1>4. CASE ApplyRead(b)
    <2>1. CASE Exists(Current(b)) /\ Advance(b)
      <3> PICK r : r = Current(b)
        OBVIOUS
      <3>1. Accounted(r)' /\ mode[b] = "checked"
        BY <1>0, <1>4, <2>1
           DEF ApplyRead, BootstrapInRange, Accounted, Exists, namespaceVars
      <3> QED
        BY <1>4, <1>b, <2>1, <3>1 DEF ApplyRead
    <2>2. CASE ~Exists(Current(b)) /\ Goto(b, "create") /\ UNCHANGED step
      <3>1. /\ product' = product /\ mode' = mode /\ bpc[b] = "apply"
            /\ bpc'[b] = "create"
        BY <1>0, <1>4, <2>2 DEF ApplyRead, Goto, BootstrapTypeOK
      <3>2. Passed(b)' = Passed(b)
        BY <2>2, <3>1 DEF Passed
      <3> QED
        BY <1>a, <3>1, <3>2
    <2> QED
      BY <1>4, <2>1, <2>2 DEF ApplyRead
  <1>5. CASE CreateSecret(b)
    <2> PICK r : r = Current(b)
      OBVIOUS
    <2>1. r \in Resources
      BY <1>0, <1>5, <1>p, NamesAreSecrets
         DEF CreateSecret, BootstrapInRange, Bootstrapping, Current, Names
    <2>2. store'[r] = [by |-> b, rev |-> 0, holds |-> NoProduct]
      BY <1>0, <1>5, <2>1 DEF CreateSecret, Create, TypeOK, NamespaceTypeOK
    <2>3. store'[r] \in Object
      BY <2>2, NamespaceAssumption DEF Object, Creators
    <2>4. Accounted(r)' /\ Made(r, b)'
      BY <2>2, <2>3, ObjectIsNotNothing DEF Accounted, Made, Exists
    <2> QED
      BY <1>5, <1>b, <2>4 DEF CreateSecret
  <1>6. CASE CreateConflict(b)
    <2>1. CASE mode[b] = "checked" /\ Advance(b)
      <3> PICK r : r = Current(b)
        OBVIOUS
      <3>1. Accounted(r)'
        BY <1>6 DEF CreateConflict, Accounted, Exists, namespaceVars
      <3> QED
        BY <1>6, <1>b, <2>1, <3>1 DEF CreateConflict
    <2>2. CASE Goto(b, "failed")
      BY <1>0, <1>6, <1>c, <2>2 DEF Goto, BootstrapTypeOK
    <2> QED
      BY <1>6, <2>1, <2>2 DEF CreateConflict
  <1> QED
    BY <1>1, <1>2, <1>3, <1>4, <1>5, <1>6
       DEF BootstrapStep, ContinueBootstrap, FailBootstrap

LEMMA PassedAppliedKept ==
    ASSUME LakeInv, [Next]_vars
    PROVE  PassedApplied'
  <1>1. SUFFICES ASSUME NEW b \in Bootstraps
                 PROVE  \A k \in Passed(b)' : Applied(b, k)'
    BY DEF PassedApplied
  <1>2. CASE BootstrapStep(b)
    BY <1>2, PassedKeptByStep
  <1>3. CASE /\ bpc'[b] = bpc[b] /\ product'[b] = product[b]
             /\ step'[b] = step[b] /\ mode'[b] = mode[b]
    <2>1. Passed(b)' = Passed(b)
      BY <1>3 DEF Passed, Names
    <2> TAKE k \in Passed(b)'
    <2>2. TypeOK /\ InRange /\ Applied(b, k)
      BY <2>1 DEF LakeInv, PassedApplied
    <2>3. /\ product[b] \in Products
          /\ step[b] \in 1..Len(Names(b))
          /\ k \in 1..(step[b] - 1) \/ k \in 1..Len(Names(b))
      BY <2>1, <2>2 DEF Passed, InRange, BootstrapInRange, Bootstrapping
    <2>4. Len(Names(b)) \in Nat
      BY <2>3, NamesAreSecrets DEF Names
    <2>5. k \in 1..Len(Names(b))
      BY <2>3, <2>4
    <2> QED
      BY <1>3, <2>2, <2>3, <2>5, AppliedPersists
  <1>4. \/ BootstrapStep(b)
        \/ /\ bpc'[b] = bpc[b] /\ product'[b] = product[b]
           /\ step'[b] = step[b] /\ mode'[b] = mode[b]
    <2>1. CASE UNCHANGED bootstrapVars
      BY <2>1 DEF bootstrapVars
    <2>2. ASSUME NEW c \in Bootstraps, BootstrapStep(c), c # b
          PROVE  /\ bpc'[b] = bpc[b] /\ product'[b] = product[b]
                 /\ step'[b] = step[b] /\ mode'[b] = mode[b]
      BY <2>2, BootstrapFrame DEF LakeInv
    <2> QED
      BY <2>1, <2>2 DEF Next, UnbootstrapStep, EnvironmentStep, vars
  <1> QED
    BY <1>2, <1>3, <1>4

(* Only a recording step of b makes a state ConfigMap in the name of b.    *)
LEMMA WhoRecords ==
    ASSUME LakeInv, [Next]_vars, NEW b \in Bootstraps,
           Made(StateMap, b)', ~Made(StateMap, b)
    PROVE  /\ BootstrapStep(b) /\ bpc[b] = "record"
           /\ store'[StateMap] = [by |-> b, rev |-> 0, holds |-> product[b]]
  <1>0. /\ TypeOK /\ InRange
        /\ store \in [Resources -> Object \cup {NoObject}]
        /\ StateMap \in Resources
    BY DEF LakeInv, TypeOK, NamespaceTypeOK, Resources
  <1>u. ~UNCHANGED <<store, deleted>>
    BY DEF Made, Exists
  <1>1. ASSUME NEW c \in Bootstraps, BootstrapStep(c)
        PROVE  /\ BootstrapStep(b) /\ bpc[b] = "record"
               /\ store'[StateMap] = [by |-> b, rev |-> 0, holds |-> product[b]]
    <2>1. CASE Current(c) # StateMap /\ Current(c) \in Resources
               /\ NewObject(Current(c), [by |-> c, rev |-> 0, holds |-> NoProduct])
      <3>1. store'[StateMap] = store[StateMap] /\ deleted' = deleted
        BY <1>0, <2>1 DEF NewObject
      <3> QED
        BY <3>1 DEF Made, Exists
    <2>2. CASE /\ bpc[c] = "record"
               /\ NewObject(StateMap, [by |-> c, rev |-> 0, holds |-> product[c]])
      <3>1. /\ store'[StateMap] = [by |-> c, rev |-> 0, holds |-> product[c]]
            /\ deleted' = deleted
        BY <1>0, <2>2 DEF NewObject
      <3>2. b = c
        BY <3>1 DEF Made, Exists
      <3> QED
        BY <1>1, <2>2, <3>1, <3>2
    <2> QED
      BY <1>0, <1>1, <1>u, <2>1, <2>2, BootstrapStoreEffect
  <1>2. ASSUME NEW r \in Resources, NEW u \in Unbootstraps, GoneObject(r, u)
        PROVE  FALSE
    <2>1. CASE r = StateMap
      <3>1. store'[StateMap] = NoObject
        BY <1>0, <1>2, <2>1 DEF GoneObject
      <3>2. PICK d \in deleted' : d.res = StateMap /\ d.by = b
        BY <3>1 DEF Made, Exists
      <3>3. d \notin deleted
        BY <3>2 DEF Made
      <3>4. d.by = store[StateMap].by
        BY <1>2, <2>1, <3>3 DEF GoneObject
      <3> QED
        BY <1>2, <2>1, <3>2, <3>4 DEF GoneObject, Made
    <2>2. CASE r # StateMap
      <3>1. store'[StateMap] = store[StateMap]
        BY <1>0, <1>2, <2>2 DEF GoneObject
      <3>2. \A d \in deleted' : d.res = StateMap => d \in deleted
        BY <1>2, <2>2 DEF GoneObject
      <3> QED
        BY <3>1, <3>2 DEF Made, Exists
    <2> QED
      BY <2>1, <2>2
  <1>3. ASSUME NEW r \in Resources, NEW o \in Object, r # StateMap, NewObject(r, o)
        PROVE  FALSE
    <2>1. store'[StateMap] = store[StateMap] /\ deleted' = deleted
      BY <1>0, <1>3 DEF NewObject
    <2> QED
      BY <2>1 DEF Made, Exists
  <1>4. ASSUME NEW r \in Resources, EditedObject(r)
        PROVE  FALSE
    <2>1. deleted' = deleted
      BY <1>4 DEF EditedObject
    <2>2. CASE r = StateMap
      <3>1. store[StateMap] \in Object
        BY <1>0, <1>4, <2>2 DEF EditedObject, Exists
      <3>2. store'[StateMap] = [store[StateMap] EXCEPT !.rev = @ + 1]
        BY <1>0, <1>4, <2>2 DEF EditedObject
      <3>3. store'[StateMap].by = store[StateMap].by
        BY <3>1, <3>2 DEF Object
      <3> QED
        BY <1>4, <2>1, <2>2, <3>3 DEF EditedObject, Made, Exists
    <2>3. CASE r # StateMap
      <3>1. store'[StateMap] = store[StateMap]
        BY <1>0, <1>4, <2>3 DEF EditedObject
      <3> QED
        BY <2>1, <3>1 DEF Made, Exists
    <2> QED
      BY <2>2, <2>3
  <1>5. ASSUME NEW u \in Unbootstraps, UnbootstrapStep(u)
        PROVE  FALSE
    BY <1>0, <1>2, <1>5, <1>u, UnbootstrapStoreEffect
  <1>6. CASE EnvironmentStep
    BY <1>0, <1>3, <1>4, <1>6, <1>u, EnvironmentStoreEffect
  <1>7. CASE UNCHANGED vars
    BY <1>7, <1>u DEF vars, namespaceVars
  <1> QED
    BY <1>1, <1>5, <1>6, <1>7 DEF Next

LEMMA RecorderFinishedKept ==
    ASSUME LakeInv, [Next]_vars
    PROVE  RecorderFinished'
  <1>1. SUFFICES ASSUME NEW b \in Bootstraps, Made(StateMap, b)'
                 PROVE  /\ bpc'[b] \in {"done", "failed"}
                        /\ product'[b] \in Products
                        /\ \A k \in 1..Len(Names(b)') : Applied(b, k)'
    BY DEF RecorderFinished
  <1>2. TypeOK /\ InRange
    BY DEF LakeInv
  <1>3. CASE Made(StateMap, b)
    <2>1. /\ bpc[b] \in {"done", "failed"}
          /\ product[b] \in Products
          /\ \A k \in 1..Len(Names(b)) : Applied(b, k)
      BY <1>3 DEF LakeInv, RecorderFinished
    <2>2. bpc'[b] = bpc[b] /\ product'[b] = product[b] /\ mode'[b] = mode[b]
      BY <1>2, <2>1, FinishedStays
    <2>3. Names(b)' = Names(b)
      BY <2>2 DEF Names
    <2>4. \A k \in 1..Len(Names(b)) : Applied(b, k)'
      BY <1>2, <2>1, <2>2, AppliedPersists
    <2> QED
      BY <2>1, <2>2, <2>3, <2>4
  <1>4. CASE ~Made(StateMap, b)
    <2>1. BootstrapStep(b) /\ bpc[b] = "record"
      BY <1>1, <1>4, WhoRecords
    <2>2. /\ bpc'[b] \in {"done", "failed"}
          /\ product' = product /\ mode' = mode
      BY <1>2, <2>1, BootstrapFrame
    <2>3. product[b] \in Products
      BY <1>2, <2>1 DEF InRange, BootstrapInRange, Bootstrapping
    <2>4. \A k \in 1..Len(Names(b)) : Applied(b, k)
      BY <2>1 DEF LakeInv, PassedApplied, Passed
    <2>5. Names(b)' = Names(b)
      BY <2>2 DEF Names
    <2>6. \A k \in 1..Len(Names(b)) : Applied(b, k)'
      BY <1>2, <2>2, <2>3, <2>4, AppliedPersists
    <2> QED
      BY <2>2, <2>3, <2>5, <2>6
  <1> QED
    BY <1>3, <1>4

LEMMA StateIsOfRecorderKept ==
    ASSUME LakeInv, [Next]_vars
    PROVE  StateIsOfRecorder'
  <1>0. /\ TypeOK /\ InRange
        /\ store \in [Resources -> Object \cup {NoObject}]
        /\ StateMap \in Resources
    BY DEF LakeInv, TypeOK, NamespaceTypeOK, Resources
  <1>1. ASSUME Exists(StateMap), store'[StateMap].by = store[StateMap].by,
               store'[StateMap].holds = store[StateMap].holds
        PROVE  StateIsOfRecorder'
    <2>1. /\ store[StateMap].by \in Bootstraps
          /\ store[StateMap].holds = product[store[StateMap].by]
          /\ Made(StateMap, store[StateMap].by)
      BY <1>1 DEF LakeInv, StateIsOfRecorder, Made
    <2> PICK b \in Bootstraps : b = store[StateMap].by
      BY <2>1
    <2>2. bpc[b] \in {"done", "failed"}
      BY <2>1 DEF LakeInv, RecorderFinished
    <2>3. product'[b] = product[b]
      BY <1>0, <2>2, FinishedStays
    <2> QED
      BY <1>1, <2>1, <2>3 DEF StateIsOfRecorder
  <1>2. CASE UNCHANGED <<store, deleted>>
    <2>1. CASE Exists(StateMap)
      BY <1>1, <1>2, <2>1
    <2>2. CASE ~Exists(StateMap)
      BY <1>2, <2>2 DEF StateIsOfRecorder, Exists
    <2> QED
      BY <2>1, <2>2
  <1>3. ASSUME NEW r \in Resources, NEW o \in Object, NewObject(r, o)
        PROVE  StateIsOfRecorder'
    <2>1. CASE r # StateMap
      <3>1. store'[StateMap] = store[StateMap]
        BY <1>0, <1>3, <2>1 DEF NewObject
      <3> QED
        BY <1>1, <3>1 DEF StateIsOfRecorder, Exists
    <2>2. CASE r = StateMap
      <3>1. store'[StateMap] = o /\ ~Exists(StateMap) /\ o # NoObject
        BY <1>0, <1>3, <2>2, ObjectIsNotNothing DEF NewObject
      <3>2. ASSUME NEW c \in Bootstraps, BootstrapStep(c)
            PROVE  StateIsOfRecorder'
        <4>1. CASE Current(c) # StateMap /\ Current(c) \in Resources
               /\ NewObject(Current(c), [by |-> c, rev |-> 0, holds |-> NoProduct])
          <5>1. store'[StateMap] = store[StateMap]
            BY <1>0, <4>1 DEF NewObject
          <5> QED
            BY <3>1, <5>1 DEF Exists
        <4>2. CASE /\ bpc[c] = "record"
               /\ NewObject(StateMap, [by |-> c, rev |-> 0, holds |-> product[c]])
          <5>1. store'[StateMap] = [by |-> c, rev |-> 0, holds |-> product[c]]
            BY <1>0, <4>2 DEF NewObject
          <5>2. product' = product
            BY <1>0, <3>2, <4>2, BootstrapFrame
          <5> QED
            BY <5>1, <5>2 DEF StateIsOfRecorder
        <4>3. CASE UNCHANGED <<store, deleted>>
          BY <3>1, <4>3 DEF Exists
        <4> QED
          BY <1>0, <3>2, <4>1, <4>2, <4>3, BootstrapStoreEffect
      <3>3. ASSUME NEW u \in Unbootstraps, UnbootstrapStep(u)
            PROVE  FALSE
        <4>1. CASE UNCHANGED <<store, deleted>>
          BY <3>1, <4>1 DEF Exists
        <4>2. ASSUME NEW q \in Resources, GoneObject(q, u)
              PROVE  FALSE
          BY <1>0, <3>1, <4>2 DEF Exists, GoneObject
        <4> QED
          BY <1>0, <3>3, <4>1, <4>2, UnbootstrapStoreEffect
      <3>4. CASE EnvironmentStep
        <4>1. CASE UNCHANGED <<store, deleted>>
          BY <3>1, <4>1 DEF Exists
        <4>2. ASSUME NEW q \in Resources, NEW x \in Object, q # StateMap,
                     NewObject(q, x)
              PROVE  FALSE
          BY <1>0, <3>1, <4>2 DEF Exists, NewObject
        <4>3. ASSUME NEW q \in Resources, EditedObject(q)
              PROVE  FALSE
          <5>1. q # StateMap
            BY <3>1, <4>3 DEF EditedObject
          <5> QED
            BY <1>0, <3>1, <4>3, <5>1 DEF Exists, EditedObject
        <4> QED
          BY <1>0, <3>4, <4>1, <4>2, <4>3, EnvironmentStoreEffect
      <3>5. CASE UNCHANGED vars
        BY <3>1, <3>5 DEF vars, namespaceVars, Exists
      <3> QED
        BY <3>2, <3>3, <3>4, <3>5 DEF Next
    <2> QED
      BY <2>1, <2>2
  <1>4. ASSUME NEW r \in Resources, NEW u \in Unbootstraps, GoneObject(r, u)
        PROVE  StateIsOfRecorder'
    <2>1. CASE r = StateMap
      BY <1>0, <1>4, <2>1 DEF GoneObject, StateIsOfRecorder, Exists
    <2>2. CASE r # StateMap
      <3>1. store'[StateMap] = store[StateMap]
        BY <1>0, <1>4, <2>2 DEF GoneObject
      <3> QED
        BY <1>1, <3>1 DEF StateIsOfRecorder, Exists
    <2> QED
      BY <2>1, <2>2
  <1>5. ASSUME NEW r \in Resources, EditedObject(r)
        PROVE  StateIsOfRecorder'
    <2>1. CASE r = StateMap
      <3>1. store[StateMap] \in Object
        BY <1>0, <1>5, <2>1 DEF EditedObject, Exists
      <3>2. store'[StateMap] = [store[StateMap] EXCEPT !.rev = @ + 1]
        BY <1>0, <1>5, <2>1 DEF EditedObject
      <3>3. /\ store'[StateMap].by = store[StateMap].by
            /\ store'[StateMap].holds = store[StateMap].holds
        BY <3>1, <3>2 DEF Object
      <3> QED
        BY <1>1, <1>5, <2>1, <3>3 DEF EditedObject
    <2>2. CASE r # StateMap
      <3>1. store'[StateMap] = store[StateMap]
        BY <1>0, <1>5, <2>2 DEF EditedObject
      <3> QED
        BY <1>1, <3>1 DEF StateIsOfRecorder, Exists
    <2> QED
      BY <2>1, <2>2
  <1> QED
    BY <1>0, <1>2, <1>3, <1>4, <1>5, NextStoreEffect DEF StoreEffect

LEMMA SuccessIsRecordedKept ==
    ASSUME LakeInv, [Next]_vars
    PROVE  SuccessIsRecorded'
  <1>1. SUFFICES ASSUME NEW b \in Bootstraps, bpc'[b] = "done"
                 PROVE  Made(StateMap, b)'
    BY DEF SuccessIsRecorded
  <1>2. /\ TypeOK /\ InRange
        /\ store \in [Resources -> Object \cup {NoObject}]
        /\ bpc \in [Bootstraps -> BootstrapPhases]
        /\ StateMap \in Resources
    BY DEF LakeInv, TypeOK, NamespaceTypeOK, BootstrapTypeOK, Resources
  <1>3. CASE bpc[b] = "done"
    <2>1. Made(StateMap, b)
      BY <1>3 DEF LakeInv, SuccessIsRecorded
    <2> QED
      BY <1>2, <2>1, NextStoreEffect, AccountsPersist
  <1>4. CASE bpc[b] # "done"
    <2>1. ~UNCHANGED bpc
      BY <1>1, <1>4
    <2>2. PICK c \in Bootstraps : BootstrapStep(c)
      BY <2>1 DEF Next, UnbootstrapStep, EnvironmentStep, bootstrapVars, vars
    <2>3. b = c
      BY <1>1, <1>2, <1>4, <2>2, BootstrapFrame
    <2>4. RecordState(b)
      BY <1>1, <1>2, <1>4, <2>2, <2>3 DEF BootstrapStep, BeginBootstrap,
         StartBootstrap, RejectBootstrapped, ContinueBootstrap, GuardRead,
         ApplyRead, CreateSecret, CreateConflict, RecordConflict, FailBootstrap,
         GuardForbidden, CreateUnanswered, AbortBootstrap, Goto, Advance, ApplyPhase
    <2>5. store'[StateMap] = [by |-> b, rev |-> 0, holds |-> product[b]]
      BY <1>2, <2>4 DEF RecordState, Create
    <2>6. store'[StateMap] \in Object
      BY <1>2, <2>4, <2>5, NamespaceAssumption DEF RecordState, Object, Creators,
         InRange, BootstrapInRange, Bootstrapping
    <2> QED
      BY <2>5, <2>6, ObjectIsNotNothing DEF Made, Exists
  <1> QED
    BY <1>3, <1>4

-----------------------------------------------------------------------------
(* The theorems.                                                           *)

(* LakeInv holds initially: no command has begun, nothing exists.          *)
LEMMA LakeInvInit == Init => LakeInv
  <1> SUFFICES ASSUME Init PROVE LakeInv
    OBVIOUS
  <1> USE DEF Init, NamespaceInit, BootstrapInit, UnbootstrapInit
  <1>0. StateMap \in Resources
    BY DEF Resources
  <1>1. NamespaceTypeOK
    BY DEF NamespaceTypeOK
  <1>2. BootstrapTypeOK
    BY DEF BootstrapTypeOK, BootstrapPhases
  <1>3. UnbootstrapTypeOK
    BY DEF UnbootstrapTypeOK, UnbootstrapPhases, Plan
  <1>4. InRange
    BY DEF InRange, BootstrapInRange, Bootstrapping, UnbootstrapInRange,
       Unbootstrapping
  <1>5. PassedApplied
    BY DEF PassedApplied, Passed
  <1>6. ~Exists(StateMap) /\ \A b \in Bootstraps : ~Made(StateMap, b)
    BY <1>0 DEF Exists, Made
  <1> QED
    BY <1>1, <1>2, <1>3, <1>4, <1>5, <1>6 DEF LakeInv, TypeOK, RecorderFinished,
       StateIsOfRecorder, SuccessIsRecorded

LEMMA LakeInvNext == LakeInv /\ [Next]_vars => LakeInv'
  BY TypeOKKept, PassedAppliedKept, RecorderFinishedKept, StateIsOfRecorderKept,
     SuccessIsRecordedKept DEF LakeInv

(* LakeInv is an invariant of every behaviour of the commands.             *)
THEOREM LakeInvariant == Spec => []LakeInv
  BY LakeInvInit, LakeInvNext, PTL DEF Spec

(* Every variable keeps its type: an index never runs past its product's   *)
(* names and a plan never lacks the fullspec its names come from.          *)
THEOREM TypeCorrect == Spec => [](TypeOK /\ InRange)
  <1>1. LakeInv => TypeOK /\ InRange
    BY DEF LakeInv
  <1> QED
    BY <1>1, LakeInvariant, PTL

(* cluster.py, bootstrap_lake: the lake a state ConfigMap records has all  *)
(* its bootstrap Secrets, save those an unbootstrap has deleted since.     *)
THEOREM RecordedComplete == Spec => []RecordedLakeIsComplete
  <1>1. LakeInv => RecordedLakeIsComplete
    <2> SUFFICES ASSUME LakeInv, Exists(StateMap)
                 PROVE  RecordedLakeIsComplete
      BY DEF RecordedLakeIsComplete
    <2>1. /\ store[StateMap].by \in Bootstraps
          /\ store[StateMap].holds = product[store[StateMap].by]
          /\ Made(StateMap, store[StateMap].by)
      BY DEF LakeInv, StateIsOfRecorder, Made
    <2>2. \A k \in 1..Len(Names(store[StateMap].by)) :
            Applied(store[StateMap].by, k)
      BY <2>1 DEF LakeInv, RecorderFinished
    <2> QED
      BY <2>1, <2>2 DEF RecordedLakeIsComplete, Applied, Names
  <1> QED
    BY <1>1, LakeInvariant, PTL

(* kubernetes_secrets.py, create_or_skip_secret with allow_conflict=False: *)
(* a bootstrap that may not read Secrets records only Secrets of its own.  *)
THEOREM BlindOwn == Spec => []BlindRecordIsOwn
  <1>1. LakeInv => BlindRecordIsOwn
    BY DEF LakeInv, RecorderFinished, BlindRecordIsOwn, Applied
  <1> QED
    BY <1>1, LakeInvariant, PTL

(* lake_state_configmap.py: a bootstrap that reports success has recorded, *)
(* and only an unbootstrap removes what it recorded.                       *)
THEOREM SuccessRecorded == Spec => []SuccessIsRecorded
  <1>1. LakeInv => SuccessIsRecorded
    BY DEF LakeInv
  <1> QED
    BY <1>1, LakeInvariant, PTL

(* lake_unbootstrap.py, _delete_candidate: DELETE carries the UID and the  *)
(* resourceVersion of the preflight, so nothing else is ever removed.      *)
THEOREM OnlyInspected == Spec => OnlyInspectedObjectsGo
  <1> DEFINE Removal(r) == \E u \in Unbootstraps :
                             upc[u] = "delete" /\ bound[u][r] = store[r]
  <1>1. ASSUME LakeInv, [Next]_vars, NEW r \in Resources, Exists(r),
               store'[r] = NoObject
        PROVE  Removal(r)
    <2>0. /\ TypeOK /\ InRange
          /\ store \in [Resources -> Object \cup {NoObject}]
      BY <1>1 DEF LakeInv, TypeOK, NamespaceTypeOK
    <2>1. ~UNCHANGED <<store, deleted>>
      BY <1>1 DEF Exists
    <2>2. ASSUME NEW q \in Resources, NEW o \in Object, NewObject(q, o)
          PROVE  FALSE
      BY <1>1, <2>0, <2>2, ObjectIsNotNothing DEF NewObject, Exists
    <2>3. ASSUME NEW q \in Resources, EditedObject(q)
          PROVE  FALSE
      <3>1. CASE q = r
        <4>1. store[r] \in Object
          BY <1>1, <2>0 DEF Exists
        <4>2. store'[r] = [store[r] EXCEPT !.rev = @ + 1] /\ store[r].rev < MaxEdits
          BY <2>0, <2>3, <3>1 DEF EditedObject
        <4>3. MaxEdits \in Nat
          BY NamespaceAssumption
        <4>4. store'[r] \in Object
          BY <4>1, <4>2, <4>3 DEF Object
        <4> QED
          BY <1>1, <4>4, ObjectIsNotNothing
      <3>2. CASE q # r
        BY <1>1, <2>0, <2>3, <3>2 DEF EditedObject, Exists
      <3> QED
        BY <3>1, <3>2
    <2>4. ASSUME NEW u \in Unbootstraps, UnbootstrapStep(u)
          PROVE  Removal(r)
      <3>1. /\ upc[u] = "delete"
            /\ Candidate(u) \in Resources
            /\ store[Candidate(u)] = bound[u][Candidate(u)]
            /\ GoneObject(Candidate(u), u)
        BY <2>0, <2>1, <2>4, UnbootstrapStoreEffect
      <3>2. r = Candidate(u)
        BY <1>1, <2>0, <3>1 DEF GoneObject, Exists
      <3> QED
        BY <3>1, <3>2
    <2>5. ASSUME NEW b \in Bootstraps, BootstrapStep(b)
          PROVE  FALSE
      <3>1. \E q \in Resources, o \in Object : NewObject(q, o)
        <4>1. product[b] \in Products =>
                /\ [by |-> b, rev |-> 0, holds |-> NoProduct] \in Object
                /\ [by |-> b, rev |-> 0, holds |-> product[b]] \in Object
          BY NamespaceAssumption DEF Object, Creators
        <4>2. StateMap \in Resources
          BY DEF Resources
        <4> QED
          BY <2>0, <2>1, <2>5, <4>1, <4>2, BootstrapStoreEffect
      <3> QED
        BY <2>2, <3>1
    <2>6. CASE EnvironmentStep
      BY <2>0, <2>1, <2>2, <2>3, <2>6, EnvironmentStoreEffect
    <2>7. CASE UNCHANGED vars
      BY <2>1, <2>7 DEF vars, namespaceVars
    <2> QED
      BY <1>1, <2>4, <2>5, <2>6, <2>7 DEF Next
  <1>2. LakeInv /\ [Next]_vars =>
          [\A r \in Resources : Exists(r) /\ store'[r] = NoObject =>
             \E u \in Unbootstraps : upc[u] = "delete" /\ bound[u][r] = store[r]]_vars
    BY <1>1
  <1> QED
    BY <1>2, LakeInvariant, PTL DEF Spec, OnlyInspectedObjectsGo

-----------------------------------------------------------------------------
(* The refinement: the commands implement LakeRecord.                      *)
LEMMA RecordInit == Init => LakeRecord!Init
  <1> SUFFICES ASSUME Init PROVE LakeRecord!Init
    OBVIOUS
  <1>1. StateMap \in Resources
    BY DEF Resources
  <1> QED
    BY <1>1 DEF LakeRecord!Init, AbstractRecord, AbstractOutcome, Init,
       NamespaceInit, BootstrapInit, Exists

(* What a step of bootstrap b does to its outcome and to the others'.      *)
LEMMA OutcomeStep ==
    ASSUME LakeInv, NEW b \in Bootstraps, BootstrapStep(b)
    PROVE  /\ AbstractOutcome[b] = "pending"
           /\ bpc'[b] = "done" =>
                AbstractOutcome' = [AbstractOutcome EXCEPT ![b] = "success"]
           /\ bpc'[b] = "failed" =>
                AbstractOutcome' = [AbstractOutcome EXCEPT ![b] = "failure"]
           /\ bpc'[b] \notin {"done", "failed"} => UNCHANGED AbstractOutcome
  <1>1. /\ bpc[b] \notin {"done", "failed"}
        /\ \A c \in Bootstraps \ {b} : bpc'[c] = bpc[c]
    BY BootstrapFrame DEF LakeInv
  <1> QED
    BY <1>1 DEF AbstractOutcome

(* The abstract record follows the state ConfigMap.                        *)
LEMMA RecordSame ==
    ASSUME StateMap \in Resources, store'[StateMap] = store[StateMap]
    PROVE  UNCHANGED AbstractRecord
  BY DEF AbstractRecord, Exists

LEMMA RecordStep ==
    ASSUME LakeInv, [Next]_vars
    PROVE  LakeRecord!Next \/ UNCHANGED <<AbstractRecord, AbstractOutcome>>
  <1>0. /\ TypeOK /\ InRange
        /\ store \in [Resources -> Object \cup {NoObject}]
        /\ StateMap \in Resources
    BY DEF LakeInv, TypeOK, NamespaceTypeOK, Resources
  <1>1. ASSUME NEW b \in Bootstraps, BootstrapStep(b)
        PROVE  LakeRecord!Next \/ UNCHANGED <<AbstractRecord, AbstractOutcome>>
    <2>1. CASE /\ bpc[b] = "record"
               /\ product[b] \in Products
               /\ NewObject(StateMap, [by |-> b, rev |-> 0, holds |-> product[b]])
      <3>1. AbstractRecord = NoObject
        BY <2>1 DEF AbstractRecord, NewObject
      <3>2. AbstractRecord' = [by |-> b, holds |-> product[b]]
        <4>1. store'[StateMap] = [by |-> b, rev |-> 0, holds |-> product[b]]
          BY <1>0, <2>1 DEF NewObject
        <4>2. store'[StateMap] \in Object
          BY <2>1, <4>1, NamespaceAssumption DEF Object, Creators
        <4> QED
          BY <4>1, <4>2, ObjectIsNotNothing DEF AbstractRecord, Exists
      <3>3. bpc'[b] \in {"done", "failed"}
        BY <1>0, <1>1, <2>1, BootstrapFrame
      <3>4. LakeRecord!Record(b)
        BY <1>1, <2>1, <3>1, <3>2, <3>3, OutcomeStep DEF LakeRecord!Record
      <3> QED
        BY <3>4 DEF LakeRecord!Next
    <2>2. CASE store'[StateMap] = store[StateMap]
      <3>1. UNCHANGED AbstractRecord
        BY <1>0, <2>2, RecordSame
      <3>2. CASE bpc'[b] = "failed"
        BY <1>1, <3>1, <3>2, OutcomeStep DEF LakeRecord!Fail, LakeRecord!Next
      <3>3. CASE bpc'[b] = "done"
        <4>1. Made(StateMap, b)'
          BY <3>3, SuccessIsRecordedKept DEF SuccessIsRecorded
        <4>2. bpc[b] \notin {"done", "failed"}
          BY <1>0, <1>1, BootstrapFrame
        <4>3. ~Made(StateMap, b)
          BY <4>2 DEF LakeInv, RecorderFinished
        <4>4. store'[StateMap] = [by |-> b, rev |-> 0, holds |-> product[b]]
              /\ bpc[b] = "record"
          BY <4>1, <4>3, WhoRecords
        <4>5. store[StateMap].by = b /\ store[StateMap] \in Object
          <5>1. product[b] \in Products
            BY <1>0, <4>4 DEF InRange, BootstrapInRange, Bootstrapping
          <5> QED
            BY <2>2, <4>4, <5>1, NamespaceAssumption DEF Object, Creators
        <4> QED
          BY <4>3, <4>5, ObjectIsNotNothing DEF Made, Exists
      <3>4. CASE bpc'[b] \notin {"done", "failed"}
        BY <1>1, <3>1, <3>4, OutcomeStep
      <3> QED
        BY <3>2, <3>3, <3>4
    <2>3. CASE /\ Current(b) \in Resources /\ Current(b) # StateMap
               /\ NewObject(Current(b), [by |-> b, rev |-> 0, holds |-> NoProduct])
      <3>1. store'[StateMap] = store[StateMap]
        BY <1>0, <2>3 DEF NewObject
      <3> QED
        BY <2>2, <3>1
    <2>4. CASE UNCHANGED <<store, deleted>>
      BY <2>2, <2>4
    <2> QED
      BY <1>0, <1>1, <2>1, <2>3, <2>4, BootstrapStoreEffect
  <1>2. ASSUME NEW u \in Unbootstraps, UnbootstrapStep(u)
        PROVE  LakeRecord!Next \/ UNCHANGED <<AbstractRecord, AbstractOutcome>>
    <2>1. UNCHANGED AbstractOutcome
      BY <1>2 DEF UnbootstrapStep, bootstrapVars, AbstractOutcome
    <2>2. ASSUME NEW r \in Resources, GoneObject(r, u)
          PROVE  LakeRecord!Next \/ UNCHANGED AbstractRecord
      <3>1. CASE r = StateMap
        <4>1. store'[StateMap] = NoObject /\ Exists(StateMap)
          BY <1>0, <2>2, <3>1 DEF GoneObject
        <4>2. AbstractRecord' = NoObject
          BY <4>1 DEF AbstractRecord, Exists
        <4> QED
          BY <2>1, <4>2 DEF LakeRecord!Erase, LakeRecord!Next
      <3>2. CASE r # StateMap
        <4>1. store'[StateMap] = store[StateMap]
          BY <1>0, <2>2, <3>2 DEF GoneObject
        <4> QED
          BY <1>0, <4>1, RecordSame
      <3> QED
        BY <3>1, <3>2
    <2>3. CASE UNCHANGED <<store, deleted>>
      BY <1>0, <2>1, <2>3, RecordSame
    <2> QED
      BY <1>0, <1>2, <2>1, <2>2, <2>3, UnbootstrapStoreEffect
  <1>3. CASE EnvironmentStep
    <2>1. UNCHANGED AbstractOutcome
      BY <1>3 DEF EnvironmentStep, bootstrapVars, AbstractOutcome
    <2>2. CASE UNCHANGED <<store, deleted>>
      BY <1>0, <2>1, <2>2, RecordSame
    <2>3. ASSUME NEW r \in Resources, NEW o \in Object, r # StateMap, NewObject(r, o)
          PROVE  UNCHANGED AbstractRecord
      <3>1. store'[StateMap] = store[StateMap]
        BY <1>0, <2>3 DEF NewObject
      <3> QED
        BY <1>0, <3>1, RecordSame
    <2>4. ASSUME NEW r \in Resources, EditedObject(r)
          PROVE  UNCHANGED AbstractRecord
      <3>1. CASE r = StateMap
        <4>1. store[StateMap] \in Object /\ store[StateMap].rev < MaxEdits
          BY <1>0, <2>4, <3>1 DEF EditedObject, Exists
        <4>2. store'[StateMap] = [store[StateMap] EXCEPT !.rev = @ + 1]
          BY <1>0, <2>4, <3>1 DEF EditedObject
        <4>3. MaxEdits \in Nat
          BY NamespaceAssumption
        <4>4. /\ store'[StateMap] \in Object
              /\ store'[StateMap].by = store[StateMap].by
              /\ store'[StateMap].holds = store[StateMap].holds
          BY <4>1, <4>2, <4>3 DEF Object
        <4> QED
          BY <4>1, <4>4, ObjectIsNotNothing DEF AbstractRecord, Exists
      <3>2. CASE r # StateMap
        <4>1. store'[StateMap] = store[StateMap]
          BY <1>0, <2>4, <3>2 DEF EditedObject
        <4> QED
          BY <1>0, <4>1, RecordSame
      <3> QED
        BY <3>1, <3>2
    <2> QED
      BY <1>0, <1>3, <2>1, <2>2, <2>3, <2>4, EnvironmentStoreEffect
  <1>4. CASE UNCHANGED vars
    BY <1>4 DEF vars, namespaceVars, bootstrapVars, AbstractRecord,
       AbstractOutcome, Exists
  <1> QED
    BY <1>1, <1>2, <1>3, <1>4 DEF Next

(* Seen from the state ConfigMap and the results commands report, lakes    *)
(* are recorded once, by one bootstrap, and erased: LakeRecord.            *)
THEOREM Refinement == Spec => ImplementsLakeRecord
  <1>1. LakeInv /\ [Next]_vars =>
          [LakeRecord!Next]_<<AbstractRecord, AbstractOutcome>>
    BY RecordStep
  <1> QED
    BY <1>1, RecordInit, LakeInvariant, PTL
       DEF Spec, ImplementsLakeRecord, LakeRecord!Spec

-----------------------------------------------------------------------------
(* The state marker goes last.                                             *)

(* Invocation or init job i will never create an object of name r again.   *)
Spent(i, r) ==
    IF i \in Bootstraps
    THEN \/ bpc[i] \in {"done", "failed"}
         \/ /\ bpc[i] \in {"apply", "create", "record"}
            /\ r # StateMap
            /\ \A k \in 1..Len(Names(i)) : Names(i)[k] = r => k \in Passed(i)
    ELSE i \in ran

(* u read r, and the object it read there is not there any more.           *)
Outlived(u, r) == bound[u][r] # NoObject => store[r] # bound[u][r]

(* Identities are not used twice: a name never returns to an object that   *)
(* was once there.                                                         *)
CreatorsSpent ==
    \A r \in Resources : Exists(r) => Spent(store[r].by, r)

BoundIsOfThePast ==
    \A u \in Unbootstraps : \A r \in Resources : bound[u][r] # NoObject =>
        /\ Spent(bound[u][r].by, r)
        /\ Exists(r) /\ store[r].by = bound[u][r].by =>
             bound[u][r].rev <= store[r].rev

BoundIsCandidate ==
    \A u \in Unbootstraps : \A r \in Resources : bound[u][r] # NoObject =>
        /\ upc[u] # "idle"
        /\ \E k \in 1..Len(Candidates(plan[u])) : Candidates(plan[u])[k] = r

(* Whatever a deleting unbootstrap is past is gone, or is another object.  *)
PassedOutlived ==
    \A u \in Unbootstraps : upc[u] = "delete" =>
        \A k \in 1..(at[u] - 1) : Outlived(u, Candidates(plan[u])[k])

MarkerEndsCommand ==
    \A d \in deleted : d.res = StateMap => upc[d.via] \in {"done", "failed"}

IdentityInv ==
    /\ CreatorsSpent
    /\ BoundIsOfThePast
    /\ BoundIsCandidate
    /\ PassedOutlived
    /\ MarkerEndsCommand
    /\ MarkerDeletedLast

(* Advancing passes the current name and keeps what was passed.            *)
LEMMA AdvanceKeepsPassed ==
    ASSUME TypeOK, InRange, NEW b \in Bootstraps, Advance(b), product' = product,
           bpc[b] \in {"apply", "create"}
    PROVE  /\ bpc'[b] \in {"apply", "create", "record"}
           /\ step[b] \in Passed(b)'
           /\ \A k \in Passed(b) : k \in Passed(b)'
  <1>1. product[b] \in Products /\ step[b] \in 1..Len(Names(b))
    BY DEF InRange, BootstrapInRange, Bootstrapping
  <1>2. Len(Names(b)) \in Nat
    BY <1>1, NamesAreSecrets DEF Names
  <1>3. Names(b)' = Names(b)
    BY DEF Names
  <1>4. Passed(b) = 1..(step[b] - 1)
    BY DEF Passed
  <1>5. bpc \in [Bootstraps -> BootstrapPhases] /\ step \in [Bootstraps -> Nat \ {0}]
    BY DEF TypeOK, BootstrapTypeOK
  <1>6. CASE AtLast(b)
    <2>1. bpc'[b] = "record"
      BY <1>5, <1>6 DEF Advance, Goto
    <2>2. Passed(b)' = 1..Len(Names(b))
      BY <1>3, <2>1 DEF Passed
    <2> QED
      BY <1>1, <1>2, <1>4, <2>1, <2>2
  <1>7. CASE ~AtLast(b)
    <2>1. bpc'[b] \in {"apply", "create"} /\ step'[b] = step[b] + 1
      BY <1>5, <1>7 DEF Advance, Goto, ApplyPhase
    <2>2. Passed(b)' = 1..(step'[b] - 1)
      BY <2>1 DEF Passed
    <2>3. Passed(b)' = 1..step[b]
      BY <1>5, <2>1, <2>2
    <2> QED
      BY <1>1, <1>2, <1>4, <2>1, <2>3
  <1> QED
    BY <1>6, <1>7

(* The steps of a bootstrap that is past its guard.                        *)
LEMMA StepPastGuard ==
    ASSUME TypeOK, NEW b \in Bootstraps, BootstrapStep(b),
           bpc[b] \in {"apply", "create", "record"}
    PROVE  /\ product' = product
           /\ \/ Advance(b) /\ bpc[b] \in {"apply", "create"}
              \/ /\ bpc[b] = "apply" /\ bpc'[b] = "create" /\ UNCHANGED step
                 /\ UNCHANGED <<store, deleted>>
              \/ bpc'[b] \in {"done", "failed"}
  <1>0. bpc \in [Bootstraps -> BootstrapPhases]
    BY DEF TypeOK, BootstrapTypeOK
  <1>1. product' = product
    BY BootstrapFrame
  <1>2. ~BeginBootstrap(b) /\ ~GuardRead(b) /\ ~GuardForbidden(b)
    BY DEF BeginBootstrap, StartBootstrap, RejectBootstrapped, GuardRead,
       GuardForbidden
  <1>3. CASE ApplyRead(b) \/ CreateSecret(b) \/ CreateConflict(b)
    BY <1>0, <1>1, <1>3
       DEF ApplyRead, CreateSecret, CreateConflict, Goto, namespaceVars
  <1>4. CASE RecordState(b) \/ RecordConflict(b) \/ CreateUnanswered(b)
             \/ AbortBootstrap(b)
    BY <1>0, <1>1, <1>4
       DEF RecordState, RecordConflict, CreateUnanswered, AbortBootstrap, Goto
  <1> QED
    BY <1>2, <1>3, <1>4 DEF BootstrapStep, ContinueBootstrap, FailBootstrap

(* Bootstraps that a step is not of are where they were.                   *)
LEMMA OtherBootstrapsStay ==
    ASSUME TypeOK, [Next]_vars, NEW b \in Bootstraps, ~BootstrapStep(b)
    PROVE  /\ bpc'[b] = bpc[b] /\ product'[b] = product[b]
           /\ step'[b] = step[b] /\ Passed(b)' = Passed(b)
  <1>1. CASE UNCHANGED bootstrapVars
    BY <1>1 DEF bootstrapVars, Passed, Names
  <1>2. ASSUME NEW c \in Bootstraps, BootstrapStep(c)
        PROVE  /\ bpc'[b] = bpc[b] /\ product'[b] = product[b]
               /\ step'[b] = step[b]
    BY <1>2, BootstrapFrame
  <1>3. /\ bpc'[b] = bpc[b] /\ product'[b] = product[b]
        /\ step'[b] = step[b]
    BY <1>1, <1>2 DEF Next, UnbootstrapStep, EnvironmentStep, vars, bootstrapVars
  <1> QED
    BY <1>3 DEF Passed, Names

(* An init job runs once, and ran only grows.                              *)
LEMMA RanGrows ==
    ASSUME TypeOK, InRange, [Next]_vars
    PROVE  ran \subseteq ran'
  <1>1. ASSUME NEW b \in Bootstraps, BootstrapStep(b) PROVE ran \subseteq ran'
    BY <1>1, BootstrapStoreEffect
  <1>2. ASSUME NEW u \in Unbootstraps, UnbootstrapStep(u) PROVE ran \subseteq ran'
    BY <1>2, UnbootstrapStoreEffect
  <1>3. CASE EnvironmentStep
    BY <1>3 DEF EnvironmentStep, NamespaceStep, SelectProduct, InitJobCreates, Edit
  <1>4. CASE UNCHANGED vars
    BY <1>4 DEF vars, namespaceVars
  <1> QED
    BY <1>1, <1>2, <1>3, <1>4 DEF Next

(* What will not be created again never will.                              *)
LEMMA SpentStays ==
    ASSUME TypeOK, InRange, [Next]_vars, NEW i, NEW r, Spent(i, r)
    PROVE  Spent(i, r)'
  <1>1. CASE i \notin Bootstraps
    BY <1>1, RanGrows DEF Spent
  <1>2. CASE i \in Bootstraps /\ ~BootstrapStep(i)
    <2>1. Names(i)' = Names(i)
      BY <1>2, OtherBootstrapsStay DEF Names
    <2>2. bpc'[i] = bpc[i] /\ Passed(i)' = Passed(i)
      BY <1>2, OtherBootstrapsStay
    <2> QED
      BY <1>2, <2>1, <2>2 DEF Spent
  <1>3. CASE i \in Bootstraps /\ BootstrapStep(i)
    <2>1. /\ bpc[i] \in {"apply", "create", "record"}
          /\ r # StateMap
          /\ \A k \in 1..Len(Names(i)) : Names(i)[k] = r => k \in Passed(i)
      BY <1>3, BootstrapFrame DEF Spent
    <2>2. product' = product
      BY <1>3, <2>1, StepPastGuard
    <2>3. Names(i)' = Names(i)
      BY <2>2 DEF Names
    <2>4. CASE Advance(i) /\ bpc[i] \in {"apply", "create"}
      <3>1. /\ bpc'[i] \in {"apply", "create", "record"}
            /\ \A k \in Passed(i) : k \in Passed(i)'
        BY <1>3, <2>2, <2>4, AdvanceKeepsPassed
      <3> QED
        BY <1>3, <2>1, <2>3, <3>1 DEF Spent
    <2>5. CASE bpc[i] = "apply" /\ bpc'[i] = "create" /\ UNCHANGED step
      <3>1. Passed(i)' = Passed(i)
        BY <2>5 DEF Passed
      <3> QED
        BY <1>3, <2>1, <2>3, <2>5, <3>1 DEF Spent
    <2>6. CASE bpc'[i] \in {"done", "failed"}
      BY <1>3, <2>6 DEF Spent
    <2> QED
      BY <1>3, <2>1, <2>4, <2>5, <2>6, StepPastGuard
  <1> QED
    BY <1>1, <1>2, <1>3

(* The names of a product are distinct.                                    *)
LEMMA NamesDistinct ==
    ASSUME NEW p \in Products, NEW j \in 1..Len(BootstrapSecrets[p]),
           NEW k \in 1..Len(BootstrapSecrets[p]),
           BootstrapSecrets[p][j] = BootstrapSecrets[p][k]
    PROVE  j = k
  <1> DEFINE B == BootstrapSecrets[p]
             I == InitResources[p]
  <1>1. /\ B \in Seq(Secrets) /\ I \in Seq(Secrets \cup ConfigMaps)
        /\ Distinct(B \o I)
    BY NamespaceAssumption
  <1>2. B \in Seq(Secrets \cup ConfigMaps)
    BY <1>1
  <1> HIDE DEF B, I
  <1>3. Len(B) \in Nat /\ Len(I) \in Nat /\ Len(B \o I) = Len(B) + Len(I)
    BY <1>1, <1>2
  <1>4. \A m \in 1..Len(B) : m \in 1..Len(B \o I) /\ (B \o I)[m] = B[m]
    BY <1>1, <1>2, <1>3
  <1>5. j \in 1..Len(B) /\ k \in 1..Len(B) /\ B[j] = B[k]
    BY DEF B
  <1> QED
    BY <1>1, <1>4, <1>5 DEF Distinct

(* A new object is its creator's first and last of that name.              *)
LEMMA BootstrapCreatesOnce ==
    ASSUME LakeInv, [Next]_vars, NEW b \in Bootstraps, BootstrapStep(b),
           NEW r \in Resources, NEW o, NewObject(r, o), o # NoObject
    PROVE  o \in Object /\ o.by = b /\ ~Spent(b, r) /\ Spent(b, r)'
  <1>0. /\ TypeOK /\ InRange
        /\ store \in [Resources -> Object \cup {NoObject}]
        /\ bpc \in [Bootstraps -> BootstrapPhases]
        /\ StateMap \in Resources
    BY DEF LakeInv, TypeOK, NamespaceTypeOK, BootstrapTypeOK, Resources
  <1>1. store'[r] = o /\ store[r] = NoObject
    BY <1>0 DEF NewObject, Exists
  <1>2. store' # store
    BY <1>1
  <1>3. CASE /\ bpc[b] = "create"
             /\ product[b] \in Products
             /\ step[b] \in 1..Len(Names(b))
             /\ Current(b) \in Resources
             /\ Current(b) # StateMap
             /\ NewObject(Current(b), [by |-> b, rev |-> 0, holds |-> NoProduct])
    <2> DEFINE n == [by |-> b, rev |-> 0, holds |-> NoProduct]
    <2>1. n \in Object /\ n.by = b
      BY NamespaceAssumption DEF Object, Creators
    <2>2. r = Current(b) /\ o = n
      BY <1>0, <1>1, <1>3 DEF NewObject
    <2>3. Passed(b) = 1..(step[b] - 1)
      BY <1>3 DEF Passed
    <2>4. step[b] \in Nat
      BY <1>0 DEF TypeOK, BootstrapTypeOK
    <2>5. ~Spent(b, r)
      BY <1>3, <2>2, <2>3, <2>4 DEF Spent, Current
    <2>6. product' = product
      BY <1>0, <1>3, StepPastGuard
    <2>7. Names(b)' = Names(b)
      BY <2>6 DEF Names
    <2>8. ASSUME Advance(b) PROVE Spent(b, r)'
      <3>1. bpc'[b] \in {"apply", "create", "record"} /\ step[b] \in Passed(b)'
        BY <1>0, <1>3, <2>6, <2>8, AdvanceKeepsPassed
      <3>2. \A k \in 1..Len(Names(b)) : Names(b)[k] = r => k = step[b]
        BY <1>3, <2>2, NamesDistinct DEF Names, Current
      <3> QED
        BY <1>3, <2>2, <2>7, <3>1, <3>2 DEF Spent
    <2>9. ASSUME bpc'[b] \in {"done", "failed"} PROVE Spent(b, r)'
      BY <2>9 DEF Spent
    <2>10. Advance(b) \/ bpc'[b] \in {"done", "failed"}
      BY <1>0, <1>2, <1>3, StepPastGuard
    <2> QED
      BY <2>1, <2>2, <2>5, <2>8, <2>9, <2>10
  <1>4. CASE /\ bpc[b] = "record"
             /\ product[b] \in Products
             /\ NewObject(StateMap, [by |-> b, rev |-> 0, holds |-> product[b]])
    <2> DEFINE n == [by |-> b, rev |-> 0, holds |-> product[b]]
    <2>1. n \in Object /\ n.by = b
      BY <1>4, NamespaceAssumption DEF Object, Creators
    <2>2. r = StateMap /\ o = n
      BY <1>0, <1>1, <1>4 DEF NewObject
    <2>3. ~Spent(b, r)
      BY <1>4, <2>2 DEF Spent
    <2>4. bpc'[b] \in {"done", "failed"}
      BY <1>0, <1>4, BootstrapFrame
    <2> QED
      BY <2>1, <2>2, <2>3, <2>4 DEF Spent
  <1> QED
    BY <1>0, <1>2, <1>3, <1>4, BootstrapStoreEffect

LEMMA InitJobCreatesOnce ==
    ASSUME TypeOK, NEW j \in InitJobs, InitJobCreates(j),
           NEW r \in Resources
    PROVE  \/ store'[r] = store[r]
           \/ /\ ~Exists(r) /\ store'[r] \in Object /\ store'[r].by = j
              /\ ~Spent(j, r) /\ Spent(j, r)'
  <1>0. /\ store \in [Resources -> Object \cup {NoObject}]
        /\ j \notin Bootstraps
    BY NamespaceAssumption DEF TypeOK, NamespaceTypeOK
  <1> PICK p \in Products : \E k \in 1..Len(InitResources[p]) :
          /\ ~Exists(InitResources[p][k])
          /\ store' = [store EXCEPT ![InitResources[p][k]] =
                         [by |-> j, rev |-> 0, holds |-> NoProduct]]
    BY DEF InitJobCreates
  <1>1. PICK k \in 1..Len(InitResources[p]) :
          /\ ~Exists(InitResources[p][k])
          /\ store' = [store EXCEPT ![InitResources[p][k]] =
                         [by |-> j, rev |-> 0, holds |-> NoProduct]]
    OBVIOUS
  <1>2. [by |-> j, rev |-> 0, holds |-> NoProduct] \in Object
    BY NamespaceAssumption DEF Object, Creators
  <1>3. j \notin ran /\ j \in ran'
    BY DEF InitJobCreates
  <1>4. ~Spent(j, r) /\ Spent(j, r)'
    BY <1>0, <1>3 DEF Spent
  <1>5. CASE r = InitResources[p][k]
    BY <1>0, <1>1, <1>2, <1>4, <1>5
  <1>6. CASE r # InitResources[p][k]
    BY <1>0, <1>1, <1>6
  <1> QED
    BY <1>5, <1>6

(* What a step can do to one name.                                         *)
NameChange(r) ==
    \/ store'[r] = store[r]
    \/ store'[r] = NoObject
    \/ /\ store'[r] \in Object /\ ~Exists(r)
       /\ \E i \in Creators :
            store'[r].by = i /\ ~Spent(i, r) /\ Spent(i, r)'
    \/ /\ store[r] \in Object /\ store'[r] \in Object
       /\ store'[r].by = store[r].by /\ store'[r].rev = store[r].rev + 1

LEMMA NameEffect ==
    ASSUME LakeInv, [Next]_vars, NEW r \in Resources
    PROVE  NameChange(r)
  <1>0. /\ TypeOK /\ InRange
        /\ store \in [Resources -> Object \cup {NoObject}]
        /\ StateMap \in Resources
    BY DEF LakeInv, TypeOK, NamespaceTypeOK, Resources
  <1>1. ASSUME NEW b \in Bootstraps, BootstrapStep(b)
        PROVE  NameChange(r)
    <2>1. ASSUME NEW q \in Resources, NEW o, NewObject(q, o)
          PROVE  NameChange(r)
      <3>1. CASE q # r
        BY <1>0, <2>1, <3>1 DEF NewObject, NameChange
      <3>2. CASE q = r
        <4>1. store'[r] = o /\ ~Exists(r)
          BY <1>0, <2>1, <3>2 DEF NewObject
        <4>2. CASE o = NoObject
          BY <4>1, <4>2 DEF NameChange
        <4>3. CASE o # NoObject
          <5>1. o \in Object /\ o.by = b /\ ~Spent(b, r) /\ Spent(b, r)'
            BY <1>1, <2>1, <3>2, <4>3, BootstrapCreatesOnce
          <5>2. store'[r].by = b /\ b \in Creators
            BY <4>1, <5>1 DEF Creators
          <5> QED
            BY <4>1, <5>1, <5>2 DEF NameChange
        <4> QED
          BY <4>2, <4>3
      <3> QED
        BY <3>1, <3>2
    <2>2. CASE UNCHANGED <<store, deleted>>
      BY <2>2 DEF NameChange
    <2> QED
      BY <1>0, <1>1, <2>1, <2>2, BootstrapStoreEffect
  <1>2. ASSUME NEW u \in Unbootstraps, UnbootstrapStep(u)
        PROVE  NameChange(r)
    <2>1. ASSUME NEW q \in Resources, GoneObject(q, u)
          PROVE  NameChange(r)
      BY <1>0, <2>1 DEF GoneObject, NameChange
    <2>2. CASE UNCHANGED <<store, deleted>>
      BY <2>2 DEF NameChange
    <2> QED
      BY <1>0, <1>2, <2>1, <2>2, UnbootstrapStoreEffect
  <1>3. CASE EnvironmentStep
    <2>1. ASSUME NEW p \in Products, SelectProduct(p)
          PROVE  NameChange(r)
      BY <2>1 DEF SelectProduct, NameChange
    <2>2. ASSUME NEW j \in InitJobs, InitJobCreates(j)
          PROVE  NameChange(r)
      <3>1. CASE store'[r] = store[r]
        BY <3>1 DEF NameChange
      <3>2. CASE /\ ~Exists(r) /\ store'[r] \in Object /\ store'[r].by = j
                 /\ ~Spent(j, r) /\ Spent(j, r)'
        <4>1. j \in Creators
          BY DEF Creators
        <4> QED
          BY <3>2, <4>1 DEF NameChange
      <3> QED
        BY <1>0, <2>2, <3>1, <3>2, InitJobCreatesOnce
    <2>3. ASSUME NEW q \in Resources, Edit(q)
          PROVE  NameChange(r)
      <3>1. CASE q # r
        BY <1>0, <2>3, <3>1 DEF Edit, NameChange
      <3>2. CASE q = r
        <4>1. store[r] \in Object /\ store[r].rev < MaxEdits /\ MaxEdits \in Nat
          BY <1>0, <2>3, <3>2, NamespaceAssumption DEF Edit, Exists
        <4>2. store'[r] = [store[r] EXCEPT !.rev = @ + 1]
          BY <1>0, <2>3, <3>2 DEF Edit
        <4>3. store'[r] \in Object /\ store'[r].by = store[r].by
              /\ store'[r].rev = store[r].rev + 1
          BY <4>1, <4>2 DEF Object
        <4> QED
          BY <4>1, <4>3 DEF NameChange
      <3> QED
        BY <3>1, <3>2
    <2> QED
      BY <1>3, <2>1, <2>2, <2>3 DEF EnvironmentStep, NamespaceStep
  <1>4. CASE UNCHANGED vars
    BY <1>4 DEF vars, namespaceVars, NameChange
  <1> QED
    BY <1>1, <1>2, <1>3, <1>4 DEF Next

(* An object that was read and is gone does not come back.                 *)
LEMMA OutlivedStays ==
    ASSUME LakeInv, IdentityInv, [Next]_vars, NEW u \in Unbootstraps,
           NEW r \in Resources, bound'[u][r] = bound[u][r], Outlived(u, r)
    PROVE  Outlived(u, r)'
  <1>0. /\ store \in [Resources -> Object \cup {NoObject}]
        /\ bound[u][r] \in Object \cup {NoObject}
    BY DEF LakeInv, TypeOK, NamespaceTypeOK, UnbootstrapTypeOK
  <1>1. SUFFICES ASSUME bound[u][r] # NoObject
                 PROVE  store'[r] # bound[u][r]
    BY DEF Outlived
  <1>2. /\ store[r] # bound[u][r]
        /\ Spent(bound[u][r].by, r)
        /\ Exists(r) /\ store[r].by = bound[u][r].by =>
             bound[u][r].rev <= store[r].rev
    BY <1>1 DEF Outlived, IdentityInv, BoundIsOfThePast
  <1>3. CASE store'[r] = store[r]
    BY <1>2, <1>3
  <1>4. CASE store'[r] = NoObject
    BY <1>1, <1>4
  <1>5. ASSUME NEW i \in Creators, store'[r].by = i, ~Spent(i, r)
        PROVE  store'[r] # bound[u][r]
    BY <1>2, <1>5
  <1>6. CASE /\ store[r] \in Object /\ store'[r] \in Object
             /\ store'[r].by = store[r].by /\ store'[r].rev = store[r].rev + 1
    <2>1. Exists(r) /\ store[r].rev \in Nat
      BY <1>6, ObjectIsNotNothing, NamespaceAssumption DEF Object, Exists
    <2>2. bound[u][r].rev \in Nat
      BY <1>0, <1>1, NamespaceAssumption DEF Object
    <2> QED
      BY <1>2, <1>6, <2>1, <2>2
  <1>7. NameChange(r)
    BY NameEffect
  <1> QED
    BY <1>3, <1>4, <1>5, <1>6, <1>7 DEF NameChange

LEMMA CreatorsSpentKept ==
    ASSUME LakeInv, IdentityInv, [Next]_vars
    PROVE  CreatorsSpent'
  <1>0. TypeOK /\ InRange
    BY DEF LakeInv
  <1>1. SUFFICES ASSUME NEW r \in Resources, Exists(r)', NEW i, i = store'[r].by
                 PROVE  Spent(i, r)'
    <2> SUFFICES ASSUME NEW r \in Resources, Exists(r)'
                 PROVE  Spent(store[r].by, r)'
      BY DEF CreatorsSpent
    <2>1. PICK i : i = store'[r].by
      OBVIOUS
    <2>2. Spent(i, r)'
      BY <2>1, <1>1
    <2> QED
      BY <2>1, <2>2 DEF Spent
  <1>2. CASE store'[r] = store[r] \/ (store[r] \in Object /\ store'[r].by = store[r].by)
    <2>1. Exists(r) /\ i = store[r].by
      BY <1>1, <1>2, ObjectIsNotNothing DEF Exists
    <2>2. Spent(i, r)
      BY <2>1 DEF IdentityInv, CreatorsSpent
    <2> QED
      BY <1>0, <2>2, SpentStays
  <1>3. ~(store'[r] = NoObject)
    BY <1>1 DEF Exists
  <1>4. NameChange(r)
    BY NameEffect
  <1> QED
    BY <1>1, <1>2, <1>3, <1>4 DEF NameChange

(* What the preflights have read changes by a preflight's reads only.      *)
LEMMA BoundStep ==
    ASSUME LakeInv, [Next]_vars, NEW u \in Unbootstraps
    PROVE  \/ /\ bound'[u] = bound[u]
              /\ upc[u] # "idle" => plan'[u] = plan[u] /\ upc'[u] # "idle"
              /\ upc'[u] = "delete" => upc[u] = "delete"
              /\ upc[u] \in {"done", "failed"} => upc'[u] = upc[u]
           \/ /\ Inspect(u)
              /\ plan[u].product \in Products
              /\ at[u] \in 1..Len(Candidates(plan[u]))
              /\ Candidate(u) \in Resources
              /\ upc[u] = "prepare" /\ upc'[u] \in {"prepare", "delete"}
              /\ upc'[u] = "delete" => at'[u] = 1
              /\ plan' = plan /\ store' = store /\ deleted' = deleted
              /\ bound'[u] = [bound[u] EXCEPT ![Candidate(u)] = store[Candidate(u)]]
  <1> DEFINE Kept ==
              /\ bound'[u] = bound[u]
              /\ upc[u] # "idle" => plan'[u] = plan[u] /\ upc'[u] # "idle"
              /\ upc'[u] = "delete" => upc[u] = "delete"
              /\ upc[u] \in {"done", "failed"} => upc'[u] = upc[u]
  <1>0. /\ upc \in [Unbootstraps -> UnbootstrapPhases]
        /\ plan \in [Unbootstraps -> Plan]
        /\ at \in [Unbootstraps -> Nat \ {0}]
        /\ bound \in [Unbootstraps -> [Resources -> Object \cup {NoObject}]]
        /\ UnbootstrapInRange(u)
    BY DEF LakeInv, TypeOK, UnbootstrapTypeOK, InRange
  <1>1. CASE UNCHANGED unbootstrapVars
    BY <1>1 DEF unbootstrapVars
  <1>2. ASSUME NEW v \in Unbootstraps, UnbootstrapStep(v), v # u
        PROVE  Kept
    BY <1>0, <1>2 DEF UnbootstrapStep, BeginUnbootstrap, PlanFromState,
       PlanFromSelection, PlanImpossible, ContinueUnbootstrap, Inspect,
       SkipMissing, DeleteCandidate, NextCandidate, DeleteConflict,
       FailUnbootstrap, DeleteUnanswered, AbortUnbootstrap, MoveTo
  <1>3. ASSUME UnbootstrapStep(u), ~Inspect(u)
        PROVE  Kept
    <2>1. CASE BeginUnbootstrap(u)
      BY <1>0, <2>1 DEF BeginUnbootstrap, PlanFromState,
         PlanFromSelection, PlanImpossible, MoveTo
    <2>2. CASE SkipMissing(u) \/ DeleteCandidate(u) \/ DeleteConflict(u)
               \/ DeleteUnanswered(u)
      BY <1>0, <2>2 DEF SkipMissing, DeleteCandidate, NextCandidate,
         DeleteConflict, DeleteUnanswered, MoveTo
    <2>3. CASE AbortUnbootstrap(u)
      BY <1>0, <2>3 DEF AbortUnbootstrap, Unbootstrapping, MoveTo
    <2> QED
      BY <1>3, <2>1, <2>2, <2>3
         DEF UnbootstrapStep, ContinueUnbootstrap, FailUnbootstrap
  <1>4. CASE Inspect(u)
    <2>1. upc[u] = "prepare"
      BY <1>4 DEF Inspect
    <2>2. plan[u].product \in Products /\ at[u] \in 1..Len(Candidates(plan[u]))
      BY <1>0, <2>1 DEF UnbootstrapInRange, Unbootstrapping
    <2>3. Candidate(u) \in Resources
      BY <1>0, <2>2, CandidatesAreResources DEF Candidate
    <2>4. /\ plan' = plan /\ store' = store /\ deleted' = deleted
          /\ bound'[u] = [bound[u] EXCEPT ![Candidate(u)] = store[Candidate(u)]]
      BY <1>0, <1>4 DEF Inspect, namespaceVars
    <2>5. /\ upc'[u] \in {"prepare", "delete"}
          /\ upc'[u] = "delete" => at'[u] = 1
      BY <1>0, <1>4, <2>1 DEF Inspect, MoveTo
    <2> QED
      BY <1>4, <2>1, <2>2, <2>3, <2>4, <2>5
  <1> QED
    BY <1>1, <1>2, <1>3, <1>4
       DEF Next, BootstrapStep, EnvironmentStep, vars

LEMMA BoundIsOfThePastKept ==
    ASSUME LakeInv, IdentityInv, [Next]_vars
    PROVE  BoundIsOfThePast'
  <1>0. /\ TypeOK /\ InRange
        /\ store \in [Resources -> Object \cup {NoObject}]
        /\ bound \in [Unbootstraps -> [Resources -> Object \cup {NoObject}]]
    BY DEF LakeInv, TypeOK, NamespaceTypeOK, UnbootstrapTypeOK
  <1> DEFINE Past(o, r) ==
        /\ Spent(o.by, r)
        /\ Exists(r) /\ store[r].by = o.by => o.rev <= store[r].rev
  <1>1. ASSUME NEW r \in Resources, NEW o \in Object, Past(o, r)
        PROVE  Past(o, r)'
    <2>1. Spent(o.by, r)'
      BY <1>0, <1>1, SpentStays
    <2>2. CASE store'[r] = store[r] \/ store'[r] = NoObject
      BY <1>1, <2>1, <2>2 DEF Exists
    <2>3. ASSUME NEW i \in Creators, store'[r].by = i, ~Spent(i, r)
          PROVE  Past(o, r)'
      BY <1>1, <2>1, <2>3
    <2>4. CASE /\ store[r] \in Object /\ store'[r] \in Object
               /\ store'[r].by = store[r].by /\ store'[r].rev = store[r].rev + 1
      <3>1. Exists(r) /\ store[r].rev \in Nat /\ o.rev \in Nat
        BY <2>4, ObjectIsNotNothing, NamespaceAssumption DEF Object, Exists
      <3> QED
        BY <1>1, <2>1, <2>4, <3>1
    <2>5. NameChange(r)
      BY NameEffect
    <2> QED
      BY <2>2, <2>3, <2>4, <2>5 DEF NameChange
  <1>2. SUFFICES ASSUME NEW u \in Unbootstraps, NEW r \in Resources,
                        bound'[u][r] # NoObject, NEW o, o = bound'[u][r]
                 PROVE  Past(o, r)'
    <2> SUFFICES ASSUME NEW u \in Unbootstraps, NEW r \in Resources,
                        bound'[u][r] # NoObject
                 PROVE  /\ Spent(bound[u][r].by, r)'
                        /\ (Exists(r) /\ store[r].by = bound[u][r].by =>
                             bound[u][r].rev <= store[r].rev)'
      BY DEF BoundIsOfThePast
    <2>1. PICK o : o = bound'[u][r]
      OBVIOUS
    <2>2. Past(o, r)'
      BY <1>2, <2>1
    <2> QED
      BY <2>1, <2>2 DEF Spent, Exists
  <1>3. CASE bound'[u][r] = bound[u][r]
    <2>1. o \in Object
      BY <1>0, <1>2, <1>3
    <2>2. Past(o, r)
      BY <1>2, <1>3 DEF IdentityInv, BoundIsOfThePast
    <2> QED
      BY <1>1, <2>1, <2>2
  <1>4. CASE bound'[u][r] = store[r]
    <2>1. o \in Object /\ o = store[r]
      BY <1>0, <1>2, <1>4
    <2>2. Exists(r) /\ o.rev \in Nat
      BY <2>1, ObjectIsNotNothing, NamespaceAssumption DEF Exists, Object
    <2>3. Spent(o.by, r)
      BY <2>1, <2>2 DEF IdentityInv, CreatorsSpent
    <2>4. Past(o, r)
      BY <2>1, <2>2, <2>3
    <2> QED
      BY <1>1, <2>1, <2>4
  <1>5. bound'[u][r] = bound[u][r] \/ bound'[u][r] = store[r]
    <2>1. ASSUME NEW c \in Resources,
                 bound'[u] = [bound[u] EXCEPT ![c] = store[c]]
          PROVE  bound'[u][r] = bound[u][r] \/ bound'[u][r] = store[r]
      BY <1>0, <2>1
    <2> QED
      BY <2>1, BoundStep
  <1> QED
    BY <1>3, <1>4, <1>5

LEMMA BoundIsCandidateKept ==
    ASSUME LakeInv, IdentityInv, [Next]_vars
    PROVE  BoundIsCandidate'
  <1>0. bound \in [Unbootstraps -> [Resources -> Object \cup {NoObject}]]
    BY DEF LakeInv, TypeOK, UnbootstrapTypeOK
  <1>1. SUFFICES ASSUME NEW u \in Unbootstraps, NEW r \in Resources,
                        bound'[u][r] # NoObject
                 PROVE  /\ upc'[u] # "idle"
                        /\ plan'[u] = plan[u]
                        /\ \E k \in 1..Len(Candidates(plan[u])) :
                             Candidates(plan[u])[k] = r
    <2> SUFFICES ASSUME NEW u \in Unbootstraps, NEW r \in Resources,
                        bound'[u][r] # NoObject
                 PROVE  /\ upc'[u] # "idle"
                        /\ \E k \in 1..Len(Candidates(plan[u])') :
                             Candidates(plan[u])'[k] = r
      BY DEF BoundIsCandidate
    <2>1. /\ upc'[u] # "idle"
          /\ plan'[u] = plan[u]
          /\ \E k \in 1..Len(Candidates(plan[u])) :
               Candidates(plan[u])[k] = r
      BY <1>1
    <2>2. Candidates(plan[u])' = Candidates(plan[u])
      BY <2>1 DEF Candidates
    <2> QED
      BY <2>1, <2>2
  <1>2. CASE bound[u][r] # NoObject
    <2>1. /\ upc[u] # "idle"
          /\ \E k \in 1..Len(Candidates(plan[u])) : Candidates(plan[u])[k] = r
      BY <1>2 DEF IdentityInv, BoundIsCandidate
    <2> QED
      BY <2>1, BoundStep
  <1>3. CASE bound[u][r] = NoObject
    <2>1. ASSUME NEW c \in Resources,
                 bound'[u] = [bound[u] EXCEPT ![c] = store[c]]
          PROVE  r = c
      BY <1>0, <1>1, <1>3, <2>1
    <2>2. /\ r = Candidate(u)
          /\ plan' = plan
          /\ at[u] \in 1..Len(Candidates(plan[u]))
          /\ upc'[u] \in {"prepare", "delete"}
      BY <1>1, <1>3, <2>1, BoundStep
    <2> QED
      BY <2>2 DEF Candidate
  <1> QED
    BY <1>2, <1>3

(* A deletion goes on only past what it removed, or found gone.            *)
LEMMA DeletionAdvances ==
    ASSUME LakeInv, [Next]_vars, NEW u \in Unbootstraps,
           upc[u] = "delete", upc'[u] = "delete"
    PROVE  \/ at'[u] = at[u]
           \/ /\ at'[u] = at[u] + 1
              /\ \E r \in Resources : r = Candidate(u) /\ Outlived(u, r)'
  <1>0. /\ TypeOK /\ InRange
        /\ store \in [Resources -> Object \cup {NoObject}]
        /\ upc \in [Unbootstraps -> UnbootstrapPhases]
        /\ plan \in [Unbootstraps -> Plan]
        /\ at \in [Unbootstraps -> Nat \ {0}]
    BY DEF LakeInv, TypeOK, NamespaceTypeOK, UnbootstrapTypeOK
  <1>1. /\ plan[u].product \in Products
        /\ at[u] \in 1..Len(Candidates(plan[u]))
    BY <1>0 DEF InRange, UnbootstrapInRange, Unbootstrapping
  <1>2. PICK r \in Resources : r = Candidate(u)
    BY <1>0, <1>1, CandidatesAreResources DEF Candidate
  <1>3. ASSUME NEW v \in Unbootstraps, UnbootstrapStep(v), v # u
        PROVE  at'[u] = at[u]
    BY <1>0, <1>3 DEF UnbootstrapStep, BeginUnbootstrap, PlanFromState,
       PlanFromSelection, PlanImpossible, ContinueUnbootstrap, Inspect,
       SkipMissing, DeleteCandidate, NextCandidate, DeleteConflict,
       FailUnbootstrap, DeleteUnanswered, AbortUnbootstrap
  <1>4. ASSUME SkipMissing(u)
        PROVE  at'[u] = at[u] + 1 /\ bound' = bound /\ Outlived(u, r)'
    <2>1. at'[u] = at[u] + 1 /\ bound' = bound /\ store' = store
      BY <1>0, <1>4 DEF SkipMissing, NextCandidate, MoveTo, namespaceVars
    <2>2. bound[u][r] = NoObject \/ store[r] = NoObject
      BY <1>2, <1>4 DEF SkipMissing, Exists
    <2> QED
      BY <2>1, <2>2 DEF Outlived
  <1>5. ASSUME DeleteCandidate(u)
        PROVE  at'[u] = at[u] + 1 /\ bound' = bound /\ Outlived(u, r)'
    <2>1. at'[u] = at[u] + 1 /\ bound' = bound /\ bound[u][r] # NoObject
      BY <1>0, <1>2, <1>5 DEF DeleteCandidate, NextCandidate, MoveTo
    <2>2. store'[r] = NoObject
      BY <1>0, <1>2, <1>5 DEF DeleteCandidate, DeleteIfSame
    <2> QED
      BY <2>1, <2>2 DEF Outlived
  <1>6. CASE UnbootstrapStep(u)
    <2>1. SkipMissing(u) \/ DeleteCandidate(u)
      BY <1>0, <1>6 DEF UnbootstrapStep, BeginUnbootstrap, PlanFromState,
         PlanFromSelection, PlanImpossible, ContinueUnbootstrap, Inspect,
         DeleteConflict, FailUnbootstrap, DeleteUnanswered, AbortUnbootstrap,
         MoveTo
    <2>2. at'[u] = at[u] + 1 /\ bound' = bound /\ Outlived(u, r)'
      BY <1>4, <1>5, <2>1
    <2> QED
      BY <1>2, <2>2
  <1>7. CASE UNCHANGED unbootstrapVars
    BY <1>7 DEF unbootstrapVars
  <1> QED
    BY <1>3, <1>6, <1>7 DEF Next, BootstrapStep, EnvironmentStep, vars

LEMMA PassedOutlivedKept ==
    ASSUME LakeInv, IdentityInv, [Next]_vars
    PROVE  PassedOutlived'
  <1>0. /\ at \in [Unbootstraps -> Nat \ {0}]
        /\ plan \in [Unbootstraps -> Plan]
        /\ InRange
    BY DEF LakeInv, TypeOK, UnbootstrapTypeOK
  <1>1. SUFFICES ASSUME NEW u \in Unbootstraps, upc'[u] = "delete",
                        NEW k \in 1..(at'[u] - 1)
                 PROVE  /\ plan'[u] = plan[u]
                        /\ \A r : r = Candidates(plan[u])[k] => Outlived(u, r)'
    <2> SUFFICES ASSUME NEW u \in Unbootstraps, upc'[u] = "delete",
                        NEW k \in 1..(at'[u] - 1)
                 PROVE  Outlived(u, Candidates(plan[u])[k])'
      BY DEF PassedOutlived
    <2>1. PICK r : r = Candidates(plan[u])[k]
      OBVIOUS
    <2>2. plan'[u] = plan[u] /\ Outlived(u, r)'
      BY <1>1, <2>1
    <2>3. Candidates(plan[u])' = Candidates(plan[u])
      BY <2>2 DEF Candidates
    <2> QED
      BY <2>1, <2>2, <2>3 DEF Outlived
  <1>2. CASE upc[u] # "delete"
    <2>1. at'[u] = 1
      BY <1>1, <1>2, BoundStep
    <2> QED
      BY <2>1
  <1>3. CASE upc[u] = "delete"
    <2>1. plan'[u] = plan[u] /\ bound'[u] = bound[u]
      BY <1>3, BoundStep
    <2>2. \A j \in 1..(at[u] - 1) : Outlived(u, Candidates(plan[u])[j])
      BY <1>3 DEF IdentityInv, PassedOutlived
    <2>3. plan[u].product \in Products /\ at[u] \in 1..Len(Candidates(plan[u]))
      BY <1>0, <1>3 DEF InRange, UnbootstrapInRange, Unbootstrapping
    <2>4. ASSUME NEW r, r = Candidates(plan[u])[k], k \in 1..(at[u] - 1)
          PROVE  Outlived(u, r)'
      <3>1. /\ Len(Candidates(plan[u])) \in Nat
            /\ \A j \in 1..Len(Candidates(plan[u])) :
                 Candidates(plan[u])[j] \in Resources
        BY <1>0, <2>3, CandidatesAreResources
      <3>2. k \in 1..Len(Candidates(plan[u]))
        BY <1>0, <2>3, <2>4, <3>1
      <3>3. r \in Resources /\ Outlived(u, r)
        BY <2>2, <2>4, <3>1, <3>2
      <3> QED
        BY <2>1, <3>3, OutlivedStays
    <2>5. CASE at'[u] = at[u]
      BY <1>1, <2>1, <2>4, <2>5
    <2>6. CASE /\ at'[u] = at[u] + 1
               /\ \E r \in Resources : r = Candidate(u) /\ Outlived(u, r)'
      <3>1. k \in 1..(at[u] - 1) \/ k = at[u]
        BY <1>0, <1>1, <2>6
      <3>2. ASSUME NEW r, r = Candidates(plan[u])[k], k = at[u]
            PROVE  Outlived(u, r)'
        BY <2>6, <3>2 DEF Candidate
      <3> QED
        BY <2>1, <2>4, <3>1, <3>2
    <2> QED
      BY <1>1, <1>3, <2>5, <2>6, DeletionAdvances
  <1> QED
    BY <1>2, <1>3

(* An unbootstrap deletes the marker in its last step, past all it read.   *)
LEMMA MarkerStep ==
    ASSUME LakeInv, IdentityInv, [Next]_vars,
           NEW d \in deleted', d \notin deleted, d.res = StateMap
    PROVE  /\ d.via \in Unbootstraps
           /\ upc'[d.via] \in {"done", "failed"}
           /\ \A r \in Resources : Outlived(d.via, r)'
  <1>0. /\ TypeOK /\ InRange
        /\ store \in [Resources -> Object \cup {NoObject}]
        /\ upc \in [Unbootstraps -> UnbootstrapPhases]
        /\ plan \in [Unbootstraps -> Plan]
        /\ at \in [Unbootstraps -> Nat \ {0}]
    BY DEF LakeInv, TypeOK, NamespaceTypeOK, UnbootstrapTypeOK
  <1>1. ASSUME NEW b \in Bootstraps, BootstrapStep(b)
        PROVE  deleted' = deleted
    BY <1>0, <1>1, BootstrapStoreEffect DEF NewObject
  <1>2. ASSUME EnvironmentStep
        PROVE  deleted' = deleted
    BY <1>0, <1>2, EnvironmentStoreEffect DEF NewObject, EditedObject
  <1>3. PICK u \in Unbootstraps : UnbootstrapStep(u)
    BY <1>1, <1>2 DEF Next, vars, namespaceVars
  <1>4. /\ upc[u] = "delete"
        /\ plan[u].product \in Products
        /\ at[u] \in 1..Len(Candidates(plan[u]))
        /\ Candidate(u) \in Resources
        /\ GoneObject(Candidate(u), u)
    BY <1>0, <1>3, UnbootstrapStoreEffect
  <1>5. d.via = u /\ Candidate(u) = StateMap
    BY <1>4 DEF GoneObject
  <1>6. AtLastCandidate(u)
    BY <1>0, <1>4, <1>5, CandidatesAreResources DEF Candidate, AtLastCandidate
  <1>7. upc'[u] \in {"done", "failed"} /\ bound' = bound
    <2>1. ~(UNCHANGED namespaceVars)
      BY <1>4 DEF GoneObject, namespaceVars
    <2>2. DeleteCandidate(u) \/ DeleteUnanswered(u)
      BY <1>3, <2>1 DEF UnbootstrapStep, BeginUnbootstrap, PlanFromState,
         PlanFromSelection, PlanImpossible, ContinueUnbootstrap, Inspect,
         SkipMissing, DeleteConflict, FailUnbootstrap, AbortUnbootstrap
    <2> QED
      BY <1>0, <1>6, <2>2
         DEF DeleteCandidate, DeleteUnanswered, NextCandidate, MoveTo
  <1>8. ASSUME NEW r \in Resources
        PROVE  Outlived(u, r)'
    <2>1. CASE r = StateMap
      <3>1. store'[r] = NoObject
        BY <1>0, <1>4, <1>5, <2>1 DEF GoneObject
      <3> QED
        BY <3>1 DEF Outlived
    <2>2. CASE r # StateMap /\ bound[u][r] # NoObject
      <3>1. PICK k \in 1..Len(Candidates(plan[u])) : Candidates(plan[u])[k] = r
        BY <2>2 DEF IdentityInv, BoundIsCandidate
      <3>2. Len(Candidates(plan[u])) \in Nat
        BY <1>0, <1>4, CandidatesAreResources
      <3>3. k # at[u]
        BY <1>5, <2>2, <3>1 DEF Candidate
      <3>4. k \in 1..(at[u] - 1)
        BY <1>4, <1>6, <3>1, <3>2, <3>3 DEF AtLastCandidate
      <3>5. Outlived(u, r)
        BY <1>4, <3>1, <3>4 DEF IdentityInv, PassedOutlived
      <3> QED
        BY <1>7, <3>5, OutlivedStays
    <2>3. CASE bound[u][r] = NoObject
      BY <1>7, <2>3 DEF Outlived
    <2> QED
      BY <2>1, <2>2, <2>3
  <1> QED
    BY <1>5, <1>7, <1>8

LEMMA MarkerKept ==
    ASSUME LakeInv, IdentityInv, [Next]_vars
    PROVE  MarkerEndsCommand' /\ MarkerDeletedLast'
  <1>1. SUFFICES ASSUME NEW d \in deleted', d.res = StateMap
                 PROVE  /\ upc'[d.via] \in {"done", "failed"}
                        /\ \A r \in Resources : Outlived(d.via, r)'
    BY DEF MarkerEndsCommand, MarkerDeletedLast, Outlived
  <1>2. CASE d \notin deleted
    BY <1>1, <1>2, MarkerStep
  <1>3. CASE d \in deleted
    <2>1. d.via \in Unbootstraps
      BY <1>3 DEF LakeInv, TypeOK, NamespaceTypeOK
    <2> PICK u \in Unbootstraps : u = d.via
      BY <2>1
    <2>2. /\ upc[u] \in {"done", "failed"}
          /\ \A r \in Resources : Outlived(u, r)
      BY <1>1, <1>3
         DEF IdentityInv, MarkerEndsCommand, MarkerDeletedLast, Outlived
    <2>3. bound'[u] = bound[u] /\ upc'[u] = upc[u]
      BY <2>2, BoundStep
    <2>4. \A r \in Resources : Outlived(u, r)'
      BY <2>2, <2>3, OutlivedStays
    <2>5. upc'[u] \in {"done", "failed"}
      BY <2>2, <2>3
    <2> QED
      BY <2>4, <2>5
  <1> QED
    BY <1>2, <1>3

LEMMA IdentityInit == Init => IdentityInv
  <1> SUFFICES ASSUME Init PROVE IdentityInv
    OBVIOUS
  <1> USE DEF Init, NamespaceInit, BootstrapInit, UnbootstrapInit
  <1>1. CreatorsSpent
    BY DEF CreatorsSpent, Exists
  <1>2. BoundIsOfThePast /\ BoundIsCandidate
    BY DEF BoundIsOfThePast, BoundIsCandidate
  <1>3. PassedOutlived
    BY DEF PassedOutlived
  <1>4. MarkerEndsCommand /\ MarkerDeletedLast
    BY DEF MarkerEndsCommand, MarkerDeletedLast
  <1> QED
    BY <1>1, <1>2, <1>3, <1>4 DEF IdentityInv

(* Every step keeps it.                                                    *)
LEMMA IdentityNext == LakeInv /\ IdentityInv /\ [Next]_vars => IdentityInv'
  BY CreatorsSpentKept, BoundIsOfThePastKept, BoundIsCandidateKept,
     PassedOutlivedKept, MarkerKept DEF IdentityInv

(* LakeInv and IdentityInv together are inductive: identities are not      *)
(* reused, and deletions are outlived in the order of the candidates.      *)
THEOREM IdentityInvariant == Spec => []IdentityInv
  BY IdentityInit, IdentityNext, LakeInvariant, PTL DEF Spec

(* The state marker goes last, for every number of commands and whatever   *)
(* runs beside them: an unbootstrap that deleted stelar-lake-state has     *)
(* outlived every object its preflight read.                               *)
THEOREM MarkerLast == Spec => []MarkerDeletedLast
  <1>1. IdentityInv => MarkerDeletedLast
    BY DEF IdentityInv
  <1> QED
    BY <1>1, IdentityInvariant, PTL

-----------------------------------------------------------------------------
(* Operators taking turns.                                                 *)

(* While a command runs no other does.                                     *)
OneCommand ==
    /\ \A b, c \in Bootstraps : Bootstrapping(b) /\ Bootstrapping(c) => b = c
    /\ \A u, v \in Unbootstraps : Unbootstrapping(u) /\ Unbootstrapping(v) => u = v
    /\ \A b \in Bootstraps, u \in Unbootstraps :
         ~(Bootstrapping(b) /\ Unbootstrapping(u))

(* r is free, or an init job has taken it.                                 *)
Cleared(r) == Exists(r) => store[r].by \in InitJobs

(* What the preflight found missing stays cleared, and so does what the    *)
(* deletions are past.                                                     *)
CleanupClears ==
    \A u \in Unbootstraps : Unbootstrapping(u) =>
        \A k \in 1..Len(Candidates(plan[u])) :
            \/ k < at[u] /\ upc[u] = "delete"
            \/ /\ k < at[u] \/ upc[u] = "delete"
               /\ bound[u][Candidates(plan[u])[k]] = NoObject
            => Cleared(Candidates(plan[u])[k])

(* The record a running unbootstrap planned from is the only one there is. *)
PlanIsOfRecord ==
    \A u \in Unbootstraps : Unbootstrapping(u) /\ Exists(StateMap) =>
        plan[u].stateful /\ plan[u].product = store[StateMap].holds

TurnsInv ==
    Serial => OneCommand /\ CleanupClears /\ PlanIsOfRecord

(* Only bootstraps create bootstrap Secrets.                               *)
SecretsAreOfBootstraps ==
    \A p \in Products : \A k \in 1..Len(BootstrapSecrets[p]) :
        Exists(BootstrapSecrets[p][k]) =>
            store[BootstrapSecrets[p][k]].by \in Bootstraps

(* In checked mode the guard has seen every name free, and each stays free *)
(* until the bootstrap itself has created it.                              *)
GuardedNamesAreFree ==
    \A b \in Bootstraps : mode[b] = "checked" =>
        /\ bpc[b] = "guard" /\ ~found[b] =>
             \A k \in 1..(step[b] - 1) : ~Exists(Names(b)[k])
        /\ bpc[b] \in {"apply", "create"} =>
             \A k \in step[b]..Len(Names(b)) : ~Exists(Names(b)[k])

PassedIsOwn ==
    \A b \in Bootstraps : \A k \in Passed(b) : Made(Names(b)[k], b)

OwnershipInv ==
    Serial => SecretsAreOfBootstraps /\ GuardedNamesAreFree /\ PassedIsOwn

(* A command steps only when it runs, or when nobody does.                 *)
LEMMA BootstrapRuns ==
    ASSUME NEW b \in Bootstraps, BootstrapStep(b)
    PROVE  Bootstrapping(b) \/ MayBegin
  BY DEF BootstrapStep, ContinueBootstrap, FailBootstrap, GuardRead, ApplyRead,
     CreateSecret, CreateConflict, RecordState, RecordConflict, GuardForbidden,
     CreateUnanswered, AbortBootstrap, Bootstrapping

LEMMA UnbootstrapRuns ==
    ASSUME NEW u \in Unbootstraps, UnbootstrapStep(u)
    PROVE  Unbootstrapping(u) \/ MayBegin
  BY DEF UnbootstrapStep, ContinueUnbootstrap, FailUnbootstrap, Inspect,
     SkipMissing, DeleteCandidate, DeleteConflict, DeleteUnanswered,
     AbortUnbootstrap, Unbootstrapping

LEMMA UnbootstrapFrame ==
    ASSUME TypeOK, NEW u \in Unbootstraps, UnbootstrapStep(u)
    PROVE  /\ UNCHANGED bootstrapVars
           /\ \A v \in Unbootstraps \ {u} :
                /\ upc'[v] = upc[v] /\ plan'[v] = plan[v]
                /\ at'[v] = at[v] /\ bound'[v] = bound[v]
  <1> USE DEF MoveTo, NextCandidate, TypeOK, UnbootstrapTypeOK
  <1>1. CASE BeginUnbootstrap(u)
    BY <1>1 DEF BeginUnbootstrap, PlanFromState, PlanFromSelection,
       PlanImpossible, UnbootstrapStep
  <1>2. CASE ContinueUnbootstrap(u)
    BY <1>2 DEF ContinueUnbootstrap, Inspect, SkipMissing, DeleteCandidate,
       DeleteConflict, UnbootstrapStep
  <1>3. CASE FailUnbootstrap(u)
    BY <1>3 DEF FailUnbootstrap, DeleteUnanswered, AbortUnbootstrap,
       UnbootstrapStep
  <1> QED
    BY <1>1, <1>2, <1>3 DEF UnbootstrapStep

(* Beside a running command only its own steps and the environment's go on.*)
LEMMA BootstrapAlone ==
    ASSUME Serial, OneCommand, [Next]_vars,
           NEW b \in Bootstraps, Bootstrapping(b)
    PROVE  BootstrapStep(b) \/ EnvironmentStep \/ UNCHANGED vars
  <1>1. ~MayBegin
    BY DEF MayBegin
  <1>2. ASSUME NEW c \in Bootstraps, BootstrapStep(c)
        PROVE  c = b
    BY <1>1, <1>2, BootstrapRuns DEF OneCommand
  <1>3. ASSUME NEW u \in Unbootstraps, UnbootstrapStep(u)
        PROVE  FALSE
    BY <1>1, <1>3, UnbootstrapRuns DEF OneCommand
  <1> QED
    BY <1>2, <1>3 DEF Next

LEMMA UnbootstrapAlone ==
    ASSUME Serial, OneCommand, [Next]_vars,
           NEW u \in Unbootstraps, Unbootstrapping(u)
    PROVE  UnbootstrapStep(u) \/ EnvironmentStep \/ UNCHANGED vars
  <1>1. ~MayBegin
    BY DEF MayBegin
  <1>2. ASSUME NEW b \in Bootstraps, BootstrapStep(b)
        PROVE  FALSE
    BY <1>1, <1>2, BootstrapRuns DEF OneCommand
  <1>3. ASSUME NEW v \in Unbootstraps, UnbootstrapStep(v)
        PROVE  v = u
    BY <1>1, <1>3, UnbootstrapRuns DEF OneCommand
  <1> QED
    BY <1>2, <1>3 DEF Next

LEMMA OneCommandKept ==
    ASSUME TypeOK, Serial, OneCommand, [Next]_vars
    PROVE  OneCommand'
  <1> USE DEF Bootstrapping, Unbootstrapping
  <1>1. ASSUME NEW b \in Bootstraps, BootstrapStep(b)
        PROVE  OneCommand'
    <2>1. /\ \A u \in Unbootstraps : Unbootstrapping(u)' <=> Unbootstrapping(u)
          /\ \A c \in Bootstraps \ {b} : Bootstrapping(c)' <=> Bootstrapping(c)
      BY <1>1, BootstrapFrame DEF unbootstrapVars
    <2>2. Bootstrapping(b) \/ MayBegin
      BY <1>1, BootstrapRuns
    <2> HIDE DEF Bootstrapping, Unbootstrapping
    <2> QED
      BY <2>1, <2>2 DEF OneCommand, MayBegin
  <1>2. ASSUME NEW u \in Unbootstraps, UnbootstrapStep(u)
        PROVE  OneCommand'
    <2>1. /\ \A b \in Bootstraps : Bootstrapping(b)' <=> Bootstrapping(b)
          /\ \A v \in Unbootstraps \ {u} : Unbootstrapping(v)' <=> Unbootstrapping(v)
      BY <1>2, UnbootstrapFrame DEF bootstrapVars
    <2>2. Unbootstrapping(u) \/ MayBegin
      BY <1>2, UnbootstrapRuns
    <2> HIDE DEF Bootstrapping, Unbootstrapping
    <2> QED
      BY <2>1, <2>2 DEF OneCommand, MayBegin
  <1>3. CASE UNCHANGED <<bootstrapVars, unbootstrapVars>>
    BY <1>3 DEF OneCommand, bootstrapVars, unbootstrapVars
  <1> QED
    BY <1>1, <1>2, <1>3 DEF Next, EnvironmentStep, vars

(* The environment and the deletions keep what is cleared.                 *)
LEMMA ClearedStays ==
    ASSUME TypeOK, InRange, NEW r \in Resources, Cleared(r),
           \/ EnvironmentStep
           \/ UNCHANGED vars
           \/ \E u \in Unbootstraps : UnbootstrapStep(u)
    PROVE  Cleared(r)'
  <1>0. store \in [Resources -> Object \cup {NoObject}]
    BY DEF TypeOK, NamespaceTypeOK
  <1>1. CASE store' = store
    BY <1>1 DEF Cleared, Exists
  <1>2. ASSUME NEW q \in Resources, NEW o \in Object, o.by \in InitJobs,
               NewObject(q, o)
        PROVE  Cleared(r)'
    <2>1. CASE q = r
      BY <1>0, <1>2, <2>1 DEF NewObject, Cleared
    <2>2. CASE q # r
      BY <1>0, <1>2, <2>2 DEF NewObject, Cleared, Exists
    <2> QED
      BY <2>1, <2>2
  <1>3. ASSUME NEW q \in Resources, EditedObject(q)
        PROVE  Cleared(r)'
    <2>1. CASE q = r
      <3>1. store[r] \in Object
        BY <1>0, <1>3, <2>1 DEF EditedObject, Exists
      <3>2. store'[r] = [store[r] EXCEPT !.rev = @ + 1]
        BY <1>0, <1>3, <2>1 DEF EditedObject
      <3>3. store'[r].by = store[r].by
        BY <3>1, <3>2 DEF Object
      <3> QED
        BY <1>3, <2>1, <3>3 DEF EditedObject, Cleared
    <2>2. CASE q # r
      BY <1>0, <1>3, <2>2 DEF EditedObject, Cleared, Exists
    <2> QED
      BY <2>1, <2>2
  <1>4. ASSUME NEW u \in Unbootstraps, UnbootstrapStep(u)
        PROVE  Cleared(r)'
    <2>1. ASSUME NEW q \in Resources, GoneObject(q, u)
          PROVE  store'[r] = store[r] \/ store'[r] = NoObject
      BY <1>0, <2>1 DEF GoneObject
    <2>2. store'[r] = store[r] \/ store'[r] = NoObject
      BY <1>4, <2>1, UnbootstrapStoreEffect
    <2> QED
      BY <2>2 DEF Cleared, Exists
  <1>5. CASE EnvironmentStep
    BY <1>1, <1>2, <1>3, <1>5, EnvironmentStoreEffect
  <1> QED
    BY <1>1, <1>4, <1>5 DEF vars, namespaceVars

(* A command that starts to clean up has planned, and read nothing yet.    *)
LEMMA CleanupStarts ==
    ASSUME TypeOK, [Next]_vars, NEW u \in Unbootstraps,
           ~Unbootstrapping(u), Unbootstrapping(u)'
    PROVE  /\ upc[u] = "idle" /\ upc'[u] = "prepare" /\ at' = at
           /\ PlanFromState(u) \/ PlanFromSelection(u)
           /\ UnbootstrapStep(u)
  <1>0. /\ upc \in [Unbootstraps -> UnbootstrapPhases]
        /\ plan \in [Unbootstraps -> Plan]
    BY DEF TypeOK, UnbootstrapTypeOK
  <1>1. UnbootstrapStep(u)
    <2>1. ASSUME NEW v \in Unbootstraps, UnbootstrapStep(v), v # u
          PROVE  FALSE
      BY <2>1, UnbootstrapFrame DEF Unbootstrapping
    <2>2. ~UNCHANGED unbootstrapVars
      BY DEF unbootstrapVars, Unbootstrapping
    <2>3. ASSUME NEW b \in Bootstraps, BootstrapStep(b)
          PROVE  FALSE
      BY <2>2, <2>3 DEF BootstrapStep
    <2> QED
      BY <2>1, <2>2, <2>3 DEF Next, EnvironmentStep, vars
  <1>2. BeginUnbootstrap(u)
    BY <1>1 DEF UnbootstrapStep, ContinueUnbootstrap, FailUnbootstrap, Inspect,
       SkipMissing, DeleteCandidate, DeleteConflict, DeleteUnanswered,
       AbortUnbootstrap, Unbootstrapping
  <1>3. ~PlanImpossible(u)
    BY <1>0 DEF PlanImpossible, MoveTo, Unbootstrapping
  <1>4. PlanFromState(u) \/ PlanFromSelection(u)
    BY <1>2, <1>3 DEF BeginUnbootstrap
  <1>5. upc[u] = "idle" /\ upc'[u] = "prepare" /\ at' = at
    BY <1>0, <1>4 DEF PlanFromState, PlanFromSelection, MoveTo
  <1> QED
    BY <1>1, <1>4, <1>5

(* The steps of a running clean-up.                                        *)
InspectsOne(u) ==
    /\ upc[u] = "prepare" /\ store' = store
    /\ bound'[u] = [bound[u] EXCEPT ![Candidate(u)] = store[Candidate(u)]]
    /\ \/ upc'[u] = "prepare" /\ at'[u] = at[u] + 1
       \/ upc'[u] = "delete" /\ at'[u] = 1 /\ AtLastCandidate(u)

ClearsOne(u) ==
    /\ upc[u] = "delete" /\ bound' = bound
    /\ \A r \in Resources : r = Candidate(u) => Cleared(r)'
    /\ \/ upc'[u] = "delete" /\ at'[u] = at[u] + 1
       \/ upc'[u] = "done" /\ AtLastCandidate(u)

LEMMA CleanupSteps ==
    ASSUME LakeInv, CleanupClears, NEW u \in Unbootstraps,
           Unbootstrapping(u), UnbootstrapStep(u)
    PROVE  /\ plan' = plan
           /\ InspectsOne(u) \/ ClearsOne(u) \/ upc'[u] = "failed"
  <1>0. /\ TypeOK /\ InRange
        /\ store \in [Resources -> Object \cup {NoObject}]
        /\ upc \in [Unbootstraps -> UnbootstrapPhases]
        /\ plan \in [Unbootstraps -> Plan]
        /\ at \in [Unbootstraps -> Nat \ {0}]
        /\ bound \in [Unbootstraps -> [Resources -> Object \cup {NoObject}]]
    BY DEF LakeInv, TypeOK, NamespaceTypeOK, UnbootstrapTypeOK
  <1>1. /\ plan[u].product \in Products
        /\ at[u] \in 1..Len(Candidates(plan[u]))
    BY <1>0 DEF InRange, UnbootstrapInRange
  <1>2. Candidate(u) \in Resources
    BY <1>0, <1>1, CandidatesAreResources DEF Candidate
  <1> PICK r \in Resources : r = Candidate(u)
    BY <1>2
  <1>3. ~BeginUnbootstrap(u)
    BY DEF BeginUnbootstrap, PlanFromState, PlanFromSelection, PlanImpossible,
       Unbootstrapping
  <1>4. CASE Inspect(u)
    BY <1>0, <1>4 DEF Inspect, MoveTo, namespaceVars, InspectsOne
  <1>5. CASE SkipMissing(u)
    <2>1. Cleared(r)
      <3>1. CASE ~Exists(r)
        BY <3>1 DEF Cleared
      <3>2. CASE bound[u][r] = NoObject
        BY <1>1, <1>5, <3>2 DEF CleanupClears, SkipMissing, Candidate
      <3> QED
        BY <1>5, <3>1, <3>2 DEF SkipMissing
    <2>2. Cleared(r)'
      BY <1>0, <2>1, ClearedStays
    <2>3. /\ plan' = plan /\ upc[u] = "delete" /\ bound' = bound
          /\ \/ upc'[u] = "delete" /\ at'[u] = at[u] + 1
             \/ upc'[u] = "done" /\ AtLastCandidate(u)
      BY <1>0, <1>5 DEF SkipMissing, NextCandidate, MoveTo
    <2> QED
      BY <2>2, <2>3 DEF ClearsOne
  <1>6. CASE DeleteCandidate(u)
    <2>1. store'[r] = NoObject
      BY <1>0, <1>6 DEF DeleteCandidate, DeleteIfSame
    <2>2. Cleared(r)'
      BY <2>1 DEF Cleared, Exists
    <2>3. /\ plan' = plan /\ upc[u] = "delete" /\ bound' = bound
          /\ \/ upc'[u] = "delete" /\ at'[u] = at[u] + 1
             \/ upc'[u] = "done" /\ AtLastCandidate(u)
      BY <1>0, <1>6 DEF DeleteCandidate, NextCandidate, MoveTo
    <2> QED
      BY <2>2, <2>3 DEF ClearsOne
  <1>7. CASE DeleteConflict(u) \/ DeleteUnanswered(u) \/ AbortUnbootstrap(u)
    BY <1>0, <1>7 DEF DeleteConflict, DeleteUnanswered, AbortUnbootstrap, MoveTo
  <1> QED
    BY <1>3, <1>4, <1>5, <1>6, <1>7
       DEF UnbootstrapStep, ContinueUnbootstrap, FailUnbootstrap

LEMMA CleanupClearsKept ==
    ASSUME LakeInv, Serial, OneCommand, CleanupClears, [Next]_vars
    PROVE  CleanupClears'
  <1>0. /\ TypeOK /\ InRange
        /\ upc \in [Unbootstraps -> UnbootstrapPhases]
        /\ plan \in [Unbootstraps -> Plan]
        /\ at \in [Unbootstraps -> Nat \ {0}]
        /\ bound \in [Unbootstraps -> [Resources -> Object \cup {NoObject}]]
    BY DEF LakeInv, TypeOK, UnbootstrapTypeOK
  <1> SUFFICES ASSUME NEW u \in Unbootstraps, Unbootstrapping(u)',
                      NEW k \in 1..Len(Candidates(plan[u])'),
                      \/ k < at'[u] /\ upc'[u] = "delete"
                      \/ /\ k < at'[u] \/ upc'[u] = "delete"
                         /\ bound'[u][Candidates(plan[u])'[k]] = NoObject
               PROVE  Cleared(Candidates(plan[u])[k])'
    BY DEF CleanupClears
  <1>1. CASE ~Unbootstrapping(u)
    <2>1. upc[u] = "idle" /\ upc'[u] = "prepare" /\ at' = at
      BY <1>0, <1>1, CleanupStarts
    <2>2. at'[u] = 1
      BY <1>0, <2>1 DEF InRange, UnbootstrapInRange
    <2> QED
      BY <2>1, <2>2
  <1>2. CASE Unbootstrapping(u)
    <2>1. plan'[u] = plan[u]
      BY <1>2, BoundStep DEF Unbootstrapping
    <2>2. Candidates(plan[u])' = Candidates(plan[u])
      BY <2>1 DEF Candidates
    <2>3. /\ plan[u].product \in Products
          /\ at[u] \in 1..Len(Candidates(plan[u]))
      BY <1>0, <1>2 DEF InRange, UnbootstrapInRange
    <2>4. /\ Len(Candidates(plan[u])) \in Nat
          /\ Candidates(plan[u])[k] \in Resources
      BY <1>0, <2>2, <2>3, CandidatesAreResources
    <2> PICK r \in Resources : r = Candidates(plan[u])[k]
      BY <2>4
    <2>5. Cleared(r)' => Cleared(Candidates(plan[u])[k])'
      BY <2>2 DEF Cleared, Exists
    <2>6. /\ k \in 1..Len(Candidates(plan[u]))
          /\ \/ k < at'[u] /\ upc'[u] = "delete"
             \/ (k < at'[u] \/ upc'[u] = "delete") /\ bound'[u][r] = NoObject
      BY <2>2
    <2>7. ASSUME \/ k < at[u] /\ upc[u] = "delete"
                 \/ (k < at[u] \/ upc[u] = "delete") /\ bound[u][r] = NoObject
          PROVE  Cleared(r)'
      <3>1. Cleared(r)
        BY <1>2, <2>6, <2>7 DEF CleanupClears
      <3> QED
        BY <1>0, <1>2, <3>1, UnbootstrapAlone, ClearedStays
    <2>8. CASE UNCHANGED unbootstrapVars
      BY <2>5, <2>6, <2>7, <2>8 DEF unbootstrapVars
    <2>9. CASE UnbootstrapStep(u)
      <3>1. CASE InspectsOne(u)
        <4>1. k < at[u] \/ k = at[u]
          BY <1>0, <2>3, <2>4, <2>6, <3>1 DEF InspectsOne, AtLastCandidate
        <4>2. bound'[u][r] = NoObject
          BY <2>6, <3>1 DEF InspectsOne
        <4>3. CASE r = Candidate(u)
          <5>1. bound'[u][r] = store[r]
            BY <1>0, <3>1, <4>3 DEF InspectsOne
          <5>2. store'[r] = NoObject
            BY <3>1, <4>2, <5>1 DEF InspectsOne
          <5> QED
            BY <2>5, <5>2 DEF Cleared, Exists
        <4>4. CASE r # Candidate(u)
          <5>1. bound[u][r] = NoObject
            BY <1>0, <3>1, <4>2, <4>4 DEF InspectsOne
          <5>2. k < at[u]
            BY <4>1, <4>4 DEF Candidate
          <5> QED
            BY <2>5, <2>7, <5>1, <5>2
        <4> QED
          BY <4>3, <4>4
      <3>2. CASE ClearsOne(u)
        <4>1. upc[u] = "delete" /\ upc'[u] = "delete" /\ at'[u] = at[u] + 1
              /\ bound' = bound
          BY <3>2 DEF ClearsOne, Unbootstrapping
        <4>2. CASE k = at[u]
          BY <2>5, <3>2, <4>2 DEF ClearsOne, Candidate
        <4>3. CASE k # at[u]
          <5>1. k < at'[u] => k < at[u]
            BY <1>0, <2>6, <4>1, <4>3
          <5> QED
            BY <2>5, <2>6, <2>7, <4>1, <5>1
        <4> QED
          BY <4>2, <4>3
      <3>3. CASE upc'[u] = "failed"
        BY <3>3 DEF Unbootstrapping
      <3> QED
        BY <1>2, <2>9, <3>1, <3>2, <3>3, CleanupSteps
    <2> QED
      BY <1>2, <2>8, <2>9, UnbootstrapAlone DEF EnvironmentStep, vars
  <1> QED
    BY <1>1, <1>2

(* What a record holds changes by no edit and no deletion.                 *)
LEMMA RecordHeld ==
    ASSUME TypeOK, InRange, Exists(StateMap)',
           \/ EnvironmentStep
           \/ UNCHANGED vars
           \/ \E u \in Unbootstraps : UnbootstrapStep(u)
    PROVE  Exists(StateMap) /\ store'[StateMap].holds = store[StateMap].holds
  <1>0. /\ store \in [Resources -> Object \cup {NoObject}]
        /\ StateMap \in Resources
    BY DEF TypeOK, NamespaceTypeOK, Resources
  <1>1. CASE store'[StateMap] = store[StateMap]
    BY <1>1 DEF Exists
  <1>2. ASSUME NEW q \in Resources, NEW o, NewObject(q, o), q # StateMap
        PROVE  store'[StateMap] = store[StateMap]
    BY <1>0, <1>2 DEF NewObject
  <1>3. ASSUME NEW q \in Resources, EditedObject(q), q # StateMap
        PROVE  store'[StateMap] = store[StateMap]
    BY <1>0, <1>3 DEF EditedObject
  <1>4. ASSUME EditedObject(StateMap)
        PROVE  Exists(StateMap) /\ store'[StateMap].holds = store[StateMap].holds
    <2>1. store[StateMap] \in Object
      BY <1>0, <1>4 DEF EditedObject, Exists
    <2>2. store'[StateMap] = [store[StateMap] EXCEPT !.rev = @ + 1]
      BY <1>0, <1>4 DEF EditedObject
    <2>3. store'[StateMap].holds = store[StateMap].holds
      BY <2>1, <2>2 DEF Object
    <2> QED
      BY <1>4, <2>3 DEF EditedObject
  <1>5. ASSUME NEW u \in Unbootstraps, UnbootstrapStep(u)
        PROVE  store'[StateMap] = store[StateMap]
    <2>1. ASSUME NEW q \in Resources, GoneObject(q, u)
          PROVE  store'[StateMap] = store[StateMap] \/ store'[StateMap] = NoObject
      BY <1>0, <2>1 DEF GoneObject
    <2>2. store'[StateMap] = store[StateMap] \/ store'[StateMap] = NoObject
      BY <1>5, <2>1, UnbootstrapStoreEffect
    <2> QED
      BY <2>2 DEF Exists
  <1>6. CASE EnvironmentStep
    <2>1. CASE UNCHANGED <<store, deleted>>
      BY <1>1, <2>1
    <2>2. CASE \E r \in Resources, o \in Object :
                 r # StateMap /\ o.by \in InitJobs /\ NewObject(r, o)
      BY <1>1, <1>2, <2>2
    <2>3. CASE \E r \in Resources : EditedObject(r)
      BY <1>1, <1>3, <1>4, <2>3
    <2> QED
      BY <1>6, <2>1, <2>2, <2>3, EnvironmentStoreEffect
  <1> QED
    BY <1>1, <1>5, <1>6 DEF vars, namespaceVars

LEMMA PlanIsOfRecordKept ==
    ASSUME LakeInv, Serial, OneCommand, PlanIsOfRecord, [Next]_vars
    PROVE  PlanIsOfRecord'
  <1>0. /\ TypeOK /\ InRange
        /\ plan \in [Unbootstraps -> Plan]
    BY DEF LakeInv, TypeOK, UnbootstrapTypeOK
  <1> SUFFICES ASSUME NEW u \in Unbootstraps, Unbootstrapping(u)',
                      Exists(StateMap)'
               PROVE  /\ plan'[u].stateful
                      /\ plan'[u].product = store'[StateMap].holds
    BY DEF PlanIsOfRecord
  <1>1. CASE ~Unbootstrapping(u)
    <2>1. PlanFromState(u) \/ PlanFromSelection(u)
      BY <1>0, <1>1, CleanupStarts
    <2>2. store' = store
      BY <2>1 DEF PlanFromState, PlanFromSelection, namespaceVars
    <2>3. PlanFromState(u)
      BY <2>1, <2>2 DEF PlanFromSelection, Exists
    <2> QED
      BY <1>0, <2>2, <2>3 DEF PlanFromState
  <1>2. CASE Unbootstrapping(u)
    <2>1. plan'[u] = plan[u]
      BY <1>2, BoundStep DEF Unbootstrapping
    <2>2. Exists(StateMap) /\ store'[StateMap].holds = store[StateMap].holds
      BY <1>0, <1>2, UnbootstrapAlone, RecordHeld
    <2> QED
      BY <1>2, <2>1, <2>2 DEF PlanIsOfRecord
  <1> QED
    BY <1>1, <1>2

(* The bootstrap Secrets come first among the candidates, before the       *)
(* record.                                                                 *)
LEMMA NamesAreCandidates ==
    ASSUME NEW pl \in Plan, pl.product \in Products,
           NEW k \in 1..Len(BootstrapSecrets[pl.product])
    PROVE  /\ k \in 1..Len(Candidates(pl))
           /\ Candidates(pl)[k] = BootstrapSecrets[pl.product][k]
  <1> DEFINE B == BootstrapSecrets[pl.product]
             I == InitResources[pl.product]
             S == IF pl.stateful THEN <<StateMap>> ELSE <<>>
  <1>1. B \in Seq(Resources)
    BY NamesAreSecrets DEF Resources
  <1>2. I \in Seq(Resources)
    BY InitNamesAreNotState DEF Resources
  <1>3. S \in Seq(Resources)
    <2>1. CASE pl.stateful
      BY <2>1 DEF Resources
    <2>2. CASE ~pl.stateful
      BY <2>2
    <2> QED
      BY <2>1, <2>2
  <1>4. Candidates(pl) = B \o I \o S
    BY DEF Candidates
  <1>5. k \in 1..Len(B)
    OBVIOUS
  <1> HIDE DEF B, I, S
  <1>6. /\ B \o I \in Seq(Resources)
        /\ k \in 1..Len(B \o I)
        /\ (B \o I)[k] = B[k]
    BY <1>1, <1>2, <1>5
  <1>7. k \in 1..Len(B \o I \o S) /\ (B \o I \o S)[k] = (B \o I)[k]
    BY <1>3, <1>6
  <1> QED
    BY <1>4, <1>6, <1>7 DEF B

(* When a record goes, the Secrets of its lake are gone.                   *)
LEMMA RecordDeletion ==
    ASSUME LakeInv, Serial, CleanupClears, PlanIsOfRecord, [Next]_vars,
           NEW d \in deleted', d \notin deleted, d.res = StateMap,
           NEW b \in Bootstraps, d.by = b,
           NEW k \in 1..Len(Names(b)), NEW r, r = Names(b)[k]
    PROVE  Cleared(r)'
  <1>0. /\ TypeOK /\ InRange
        /\ plan \in [Unbootstraps -> Plan]
        /\ store \in [Resources -> Object \cup {NoObject}]
        /\ at \in [Unbootstraps -> Nat \ {0}]
    BY DEF LakeInv, TypeOK, UnbootstrapTypeOK, NamespaceTypeOK
  <1>1. ASSUME NEW c \in Bootstraps, BootstrapStep(c)
        PROVE  deleted' = deleted
    BY <1>0, <1>1, BootstrapStoreEffect DEF NewObject
  <1>2. ASSUME EnvironmentStep
        PROVE  deleted' = deleted
    BY <1>0, <1>2, EnvironmentStoreEffect DEF NewObject, EditedObject
  <1>3. PICK u \in Unbootstraps : UnbootstrapStep(u)
    BY <1>1, <1>2 DEF Next, vars, namespaceVars
  <1>4. /\ upc[u] = "delete"
        /\ plan[u].product \in Products
        /\ at[u] \in 1..Len(Candidates(plan[u]))
        /\ Candidate(u) \in Resources
        /\ GoneObject(Candidate(u), u)
    BY <1>0, <1>3, UnbootstrapStoreEffect
  <1>5. Candidate(u) = StateMap /\ Exists(StateMap) /\ store[StateMap].by = b
    BY <1>4 DEF GoneObject
  <1>6. plan[u].product = product[b]
    BY <1>4, <1>5 DEF LakeInv, StateIsOfRecorder, PlanIsOfRecord, Unbootstrapping
  <1>7. k \in 1..Len(BootstrapSecrets[plan[u].product])
    BY <1>6 DEF Names
  <1>8. /\ k \in 1..Len(Candidates(plan[u]))
        /\ r = Candidates(plan[u])[k]
    BY <1>0, <1>4, <1>6, <1>7, NamesAreCandidates DEF Names
  <1>9. r \in Resources /\ r # StateMap
    BY <1>4, <1>6, <1>7, NamesAreSecrets DEF Names
  <1>10. at[u] = Len(Candidates(plan[u]))
    BY <1>0, <1>4, <1>5, CandidatesAreResources DEF Candidate
  <1>11. k < at[u]
    BY <1>5, <1>8, <1>9, <1>10, <1>0 DEF Candidate
  <1>12. Cleared(r)
    BY <1>4, <1>8, <1>11 DEF CleanupClears, Unbootstrapping
  <1> QED
    BY <1>0, <1>3, <1>9, <1>12, ClearedStays

LEMMA ErasedWholeKept ==
    ASSUME LakeInv, Serial, CleanupClears, PlanIsOfRecord,
           SerialLakeIsErasedWhole, [Next]_vars
    PROVE  SerialLakeIsErasedWhole'
  <1>0. /\ TypeOK /\ InRange
        /\ store \in [Resources -> Object \cup {NoObject}]
    BY DEF LakeInv, TypeOK, NamespaceTypeOK
  <1> SUFFICES ASSUME NEW b \in Bootstraps,
                      NEW d \in deleted', d.res = StateMap, d.by = b,
                      NEW k \in 1..Len(Names(b)'), NEW r, r = Names(b)'[k]
               PROVE  ~(Exists(r)' /\ store'[r].by = b)
    <2> SUFFICES ASSUME NEW b \in Bootstraps,
                        NEW d \in deleted', d.res = StateMap, d.by = b,
                        NEW k \in 1..Len(Names(b)')
                 PROVE  ~(Exists(Names(b)[k]) /\ store[Names(b)[k]].by = b)'
      BY DEF SerialLakeIsErasedWhole
    <2>1. PICK r : r = Names(b)'[k]
      OBVIOUS
    <2> QED
      BY <2>1 DEF Exists
  <1>1. CASE d \notin deleted
    <2>1. UNCHANGED bootstrapVars
      <3>1. ASSUME NEW c \in Bootstraps, BootstrapStep(c)
            PROVE  deleted' = deleted
        BY <1>0, <3>1, BootstrapStoreEffect DEF NewObject
      <3> QED
        BY <1>1, <3>1 DEF Next, UnbootstrapStep, EnvironmentStep, vars
    <2>2. Names(b)' = Names(b)
      BY <2>1 DEF Names, bootstrapVars
    <2>3. Cleared(r)'
      BY <1>1, <2>2, RecordDeletion
    <2> QED
      BY <2>3, NamespaceAssumption DEF Cleared
  <1>2. CASE d \in deleted
    <2>1. Made(StateMap, b)
      BY <1>2 DEF Made
    <2>2. bpc[b] \in {"done", "failed"} /\ product[b] \in Products
      BY <2>1 DEF LakeInv, RecorderFinished
    <2>3. Names(b)' = Names(b)
      BY <1>0, <2>2, FinishedStays DEF Names
    <2>4. r \in Resources
      BY <2>2, <2>3, NamesAreSecrets DEF Names
    <2>5. ~(Exists(r) /\ store[r].by = b)
      BY <1>2, <2>3 DEF SerialLakeIsErasedWhole
    <2>6. Spent(b, r)
      BY <2>2 DEF Spent
    <2>7. NameChange(r)
      BY <2>4, NameEffect
    <2>8. CASE store'[r] = store[r] \/ store'[r] = NoObject
      BY <2>5, <2>8 DEF Exists
    <2>9. ASSUME NEW i \in Creators, store'[r].by = i, ~Spent(i, r)
          PROVE  store'[r].by # b
      BY <2>6, <2>9
    <2>10. CASE /\ store[r] \in Object
                /\ store'[r].by = store[r].by
      BY <2>5, <2>10, ObjectIsNotNothing DEF Exists
    <2> QED
      BY <2>7, <2>8, <2>9, <2>10 DEF NameChange
  <1> QED
    BY <1>1, <1>2

LEMMA TurnsInit == Init => TurnsInv /\ SerialLakeIsErasedWhole
  <1> SUFFICES ASSUME Init PROVE TurnsInv /\ SerialLakeIsErasedWhole
    OBVIOUS
  <1> USE DEF Init, NamespaceInit, BootstrapInit, UnbootstrapInit
  <1>1. /\ \A b \in Bootstraps : ~Bootstrapping(b)
        /\ \A u \in Unbootstraps : ~Unbootstrapping(u)
    BY DEF Bootstrapping, Unbootstrapping
  <1>2. OneCommand /\ CleanupClears /\ PlanIsOfRecord
    BY <1>1 DEF OneCommand, CleanupClears, PlanIsOfRecord
  <1>3. SerialLakeIsErasedWhole
    BY DEF SerialLakeIsErasedWhole
  <1> QED
    BY <1>2, <1>3 DEF TurnsInv

LEMMA TurnsNext ==
    LakeInv /\ TurnsInv /\ SerialLakeIsErasedWhole /\ [Next]_vars
        => (TurnsInv /\ SerialLakeIsErasedWhole)'
  <1> SUFFICES ASSUME LakeInv, TurnsInv, SerialLakeIsErasedWhole, [Next]_vars,
                      Serial
               PROVE  /\ OneCommand' /\ CleanupClears' /\ PlanIsOfRecord'
                      /\ SerialLakeIsErasedWhole'
    BY DEF TurnsInv, SerialLakeIsErasedWhole
  <1>1. OneCommand /\ CleanupClears /\ PlanIsOfRecord /\ TypeOK
    BY DEF TurnsInv, LakeInv
  <1> QED
    BY <1>1, OneCommandKept, CleanupClearsKept, PlanIsOfRecordKept,
       ErasedWholeKept

(* With operators taking turns, a clean-up keeps clear what it has read    *)
(* missing or is past, and works on the lake that is recorded.             *)
THEOREM TurnsInvariant == Spec => [](TurnsInv /\ SerialLakeIsErasedWhole)
  BY TurnsInit, TurnsNext, LakeInvariant, PTL DEF Spec

(* A lake whose record an unbootstrap deleted has none of its bootstrap    *)
(* Secrets left, for every number of commands, products, init jobs and     *)
(* edits, when operators take turns.                                       *)
THEOREM LakeErasedWhole == Spec => []SerialLakeIsErasedWhole
  BY TurnsInvariant, PTL

(* Nothing but a bootstrap puts an object under a bootstrap Secret's name. *)
LEMMA OthersMakeNoSecrets ==
    ASSUME KindsApart, TypeOK, InRange,
           \/ EnvironmentStep
           \/ UNCHANGED vars
           \/ \E u \in Unbootstraps : UnbootstrapStep(u),
           NEW p \in Products, NEW k \in 1..Len(BootstrapSecrets[p]),
           NEW r, r = BootstrapSecrets[p][k], Exists(r)'
    PROVE  Exists(r) /\ store'[r].by = store[r].by
  <1>0. /\ store \in [Resources -> Object \cup {NoObject}]
        /\ r \in Resources
    BY NamesAreSecrets DEF TypeOK, NamespaceTypeOK
  <1>1. CASE store'[r] = store[r]
    BY <1>1 DEF Exists
  <1>2. ASSUME NEW j \in InitJobs, InitJobCreates(j)
        PROVE  store'[r] = store[r]
    <2> PICK q \in Products : \E m \in 1..Len(InitResources[q]) :
            /\ ~Exists(InitResources[q][m])
            /\ store' = [store EXCEPT ![InitResources[q][m]] =
                           [by |-> j, rev |-> 0, holds |-> NoProduct]]
      BY <1>2 DEF InitJobCreates
    <2> PICK m \in 1..Len(InitResources[q]) :
            /\ ~Exists(InitResources[q][m])
            /\ store' = [store EXCEPT ![InitResources[q][m]] =
                           [by |-> j, rev |-> 0, holds |-> NoProduct]]
      OBVIOUS
    <2>1. r # InitResources[q][m]
      BY DEF KindsApart
    <2> QED
      BY <1>0, <2>1
  <1>3. ASSUME NEW q \in Resources, Edit(q)
        PROVE  Exists(r) /\ store'[r].by = store[r].by
    <2>1. CASE q = r
      <3>1. store[r] \in Object
        BY <1>0, <1>3, <2>1 DEF Edit, Exists
      <3>2. store'[r] = [store[r] EXCEPT !.rev = @ + 1]
        BY <1>0, <1>3, <2>1 DEF Edit
      <3>3. store'[r].by = store[r].by
        BY <3>1, <3>2 DEF Object
      <3> QED
        BY <1>3, <2>1, <3>3 DEF Edit
    <2>2. CASE q # r
      BY <1>0, <1>1, <1>3, <2>2 DEF Edit
    <2> QED
      BY <2>1, <2>2
  <1>4. ASSUME NEW q \in Products, SelectProduct(q)
        PROVE  store'[r] = store[r]
    BY <1>4 DEF SelectProduct
  <1>5. ASSUME NEW u \in Unbootstraps, UnbootstrapStep(u)
        PROVE  store'[r] = store[r]
    <2>1. ASSUME NEW q \in Resources, GoneObject(q, u)
          PROVE  store'[r] = store[r] \/ store'[r] = NoObject
      BY <1>0, <2>1 DEF GoneObject
    <2>2. store'[r] = store[r] \/ store'[r] = NoObject
      BY <1>5, <2>1, UnbootstrapStoreEffect
    <2> QED
      BY <2>2 DEF Exists
  <1>6. CASE EnvironmentStep
    BY <1>1, <1>2, <1>3, <1>4, <1>6 DEF EnvironmentStep, NamespaceStep
  <1>7. CASE UNCHANGED vars
    BY <1>1, <1>7 DEF vars, namespaceVars
  <1> QED
    BY <1>1, <1>5, <1>6, <1>7

LEMMA SecretsAreOfBootstrapsKept ==
    ASSUME KindsApart, LakeInv, SecretsAreOfBootstraps, [Next]_vars
    PROVE  SecretsAreOfBootstraps'
  <1>0. /\ TypeOK /\ InRange
        /\ store \in [Resources -> Object \cup {NoObject}]
    BY DEF LakeInv, TypeOK, NamespaceTypeOK
  <1> SUFFICES ASSUME NEW p \in Products, NEW k \in 1..Len(BootstrapSecrets[p]),
                      NEW r, r = BootstrapSecrets[p][k], Exists(r)'
               PROVE  store'[r].by \in Bootstraps
    BY DEF SecretsAreOfBootstraps, Exists
  <1>1. r \in Resources
    BY NamesAreSecrets
  <1>2. ASSUME Exists(r), store'[r].by = store[r].by
        PROVE  store'[r].by \in Bootstraps
    BY <1>2 DEF SecretsAreOfBootstraps
  <1>3. ASSUME NEW b \in Bootstraps, BootstrapStep(b)
        PROVE  store'[r].by \in Bootstraps
    <2>1. ASSUME NEW q \in Resources, NEW o, o.by = b, NewObject(q, o)
          PROVE  store'[r].by \in Bootstraps
      <3>1. CASE q = r
        BY <1>0, <2>1, <3>1 DEF NewObject
      <3>2. CASE q # r
        <4>1. store'[r] = store[r]
          BY <1>0, <2>1, <3>2 DEF NewObject
        <4> QED
          BY <1>2, <4>1 DEF Exists
      <3> QED
        BY <3>1, <3>2
    <2>2. CASE UNCHANGED <<store, deleted>>
      BY <1>2, <2>2 DEF Exists
    <2>3. StateMap \in Resources
      BY DEF Resources
    <2> QED
      BY <1>0, <1>3, <2>1, <2>2, <2>3, BootstrapStoreEffect
  <1>4. CASE \/ EnvironmentStep
             \/ UNCHANGED vars
             \/ \E u \in Unbootstraps : UnbootstrapStep(u)
    BY <1>0, <1>2, <1>4, OthersMakeNoSecrets
  <1> QED
    BY <1>3, <1>4 DEF Next

(* A bootstrap that starts has read none of its Secrets yet.               *)
LEMMA BootstrapStarts ==
    ASSUME TypeOK, InRange, [Next]_vars, NEW b \in Bootstraps,
           ~Bootstrapping(b), Bootstrapping(b)'
    PROVE  bpc'[b] = "guard" /\ step'[b] = 1
  <1>0. /\ bpc \in [Bootstraps -> BootstrapPhases]
        /\ step \in [Bootstraps -> Nat \ {0}]
    BY DEF TypeOK, BootstrapTypeOK
  <1>1. BootstrapStep(b)
    BY OtherBootstrapsStay DEF Bootstrapping
  <1>2. BeginBootstrap(b)
    BY <1>1 DEF BootstrapStep, ContinueBootstrap, FailBootstrap, GuardRead,
       ApplyRead, CreateSecret, CreateConflict, RecordState, RecordConflict,
       GuardForbidden, CreateUnanswered, AbortBootstrap, Bootstrapping
  <1>3. StartBootstrap(b)
    BY <1>0, <1>2 DEF BeginBootstrap, RejectBootstrapped, Bootstrapping, Goto
  <1> QED
    BY <1>0, <1>3 DEF StartBootstrap, Goto, InRange, BootstrapInRange

(* The steps of a running bootstrap whose names nobody else takes: it      *)
(* creates every one of its Secrets.                                       *)
GuardsOne(b) ==
    /\ bpc[b] = "guard" /\ bpc'[b] = "guard" /\ step'[b] = step[b] + 1
    /\ mode' = mode /\ store' = store
    /\ ~found'[b] => ~found[b] /\ ~Exists(Current(b))

GuardsLast(b) ==
    /\ bpc[b] = "guard" /\ bpc'[b] = "apply" /\ step'[b] = 1
    /\ AtLast(b) /\ mode' = mode /\ store' = store
    /\ ~found[b] /\ ~Exists(Current(b))

GoesBlind(b) ==
    bpc[b] = "guard" /\ bpc'[b] = "create" /\ step'[b] = 1 /\ mode'[b] = "blind"

FindsFree(b) ==
    /\ bpc[b] = "apply" /\ bpc'[b] = "create"
    /\ step' = step /\ mode' = mode /\ store' = store

CreatesOne(b) ==
    /\ bpc[b] = "create" /\ Advance(b) /\ mode' = mode
    /\ Create(Current(b), b, NoProduct)

LEMMA GuardedSteps ==
    ASSUME LakeInv, GuardedNamesAreFree, NEW b \in Bootstraps,
           Bootstrapping(b), BootstrapStep(b)
    PROVE  /\ product' = product
           /\ \/ GuardsOne(b) \/ GuardsLast(b) \/ GoesBlind(b)
              \/ FindsFree(b) \/ CreatesOne(b)
              \/ bpc'[b] \in {"done", "failed"}
  <1>0. /\ TypeOK /\ InRange
        /\ bpc \in [Bootstraps -> BootstrapPhases]
        /\ step \in [Bootstraps -> Nat \ {0}]
        /\ mode \in [Bootstraps -> {"checked", "blind"}]
        /\ found \in [Bootstraps -> BOOLEAN]
    BY DEF LakeInv, TypeOK, BootstrapTypeOK
  <1>1. /\ product[b] \in Products /\ step[b] \in 1..Len(Names(b))
        /\ bpc[b] \in {"guard", "apply"} => mode[b] = "checked"
    BY <1>0 DEF InRange, BootstrapInRange
  <1>2. Len(Names(b)) \in Nat
    BY <1>1, NamesAreSecrets DEF Names
  <1>3. ASSUME mode[b] = "checked", bpc[b] \in {"apply", "create"}
        PROVE  ~Exists(Current(b))
    <2>1. step[b] \in step[b]..Len(Names(b))
      BY <1>0, <1>1, <1>2
    <2> QED
      BY <1>3, <2>1 DEF GuardedNamesAreFree, Current
  <1>4. product' = product
    BY <1>0, BootstrapFrame DEF Bootstrapping
  <1>5. ~BeginBootstrap(b)
    BY DEF BeginBootstrap, StartBootstrap, RejectBootstrapped, Bootstrapping
  <1>6. CASE GuardRead(b)
    BY <1>0, <1>6 DEF GuardRead, Goto, ApplyPhase, namespaceVars, GuardsOne,
       GuardsLast
  <1>7. CASE ApplyRead(b)
    <2>1. ~Exists(Current(b))
      BY <1>1, <1>3, <1>7 DEF ApplyRead
    <2> QED
      BY <1>0, <1>4, <1>7, <2>1 DEF ApplyRead, Goto, namespaceVars, FindsFree
  <1>8. CASE CreateSecret(b)
    BY <1>4, <1>8 DEF CreateSecret, CreatesOne
  <1>9. CASE CreateConflict(b)
    <2>1. mode[b] # "checked"
      BY <1>3, <1>9 DEF CreateConflict
    <2> QED
      BY <1>0, <1>4, <1>9, <2>1 DEF CreateConflict, Goto
  <1>10. CASE GuardForbidden(b)
    BY <1>0, <1>4, <1>10 DEF GuardForbidden, Goto, ApplyPhase, GoesBlind
  <1>11. CASE RecordState(b) \/ RecordConflict(b) \/ CreateUnanswered(b)
              \/ AbortBootstrap(b)
    BY <1>0, <1>4, <1>11
       DEF RecordState, RecordConflict, CreateUnanswered, AbortBootstrap, Goto
  <1> QED
    BY <1>5, <1>6, <1>7, <1>8, <1>9, <1>10, <1>11
       DEF BootstrapStep, ContinueBootstrap, FailBootstrap

LEMMA GuardedNamesAreFreeKept ==
    ASSUME KindsApart, LakeInv, Serial, OneCommand, GuardedNamesAreFree,
           [Next]_vars
    PROVE  GuardedNamesAreFree'
  <1>0. /\ TypeOK /\ InRange
        /\ store \in [Resources -> Object \cup {NoObject}]
        /\ bpc \in [Bootstraps -> BootstrapPhases]
        /\ step \in [Bootstraps -> Nat \ {0}]
        /\ mode \in [Bootstraps -> {"checked", "blind"}]
    BY DEF LakeInv, TypeOK, NamespaceTypeOK, BootstrapTypeOK
  <1> SUFFICES ASSUME NEW b \in Bootstraps, mode'[b] = "checked",
                      NEW k \in Nat, NEW r, r = Names(b)'[k],
                      \/ /\ bpc'[b] = "guard" /\ ~found'[b]
                         /\ k \in 1..(step'[b] - 1)
                      \/ /\ bpc'[b] \in {"apply", "create"}
                         /\ k \in step'[b]..Len(Names(b)')
               PROVE  ~Exists(r)'
    <2> SUFFICES ASSUME NEW b \in Bootstraps, mode'[b] = "checked"
                 PROVE  /\ bpc'[b] = "guard" /\ ~found'[b] =>
                             \A k \in 1..(step'[b] - 1) : ~Exists(Names(b)[k])'
                        /\ bpc'[b] \in {"apply", "create"} =>
                             \A k \in step'[b]..Len(Names(b)') : ~Exists(Names(b)[k])'
      BY DEF GuardedNamesAreFree
    <2>1. step'[b] \in Nat \ {0}
      BY <1>0, TypeOKKept DEF LakeInv, TypeOK, BootstrapTypeOK
    <2>2. ASSUME NEW k \in Nat, 
                      \/ /\ bpc'[b] = "guard" /\ ~found'[b]
                         /\ k \in 1..(step'[b] - 1)
                      \/ /\ bpc'[b] \in {"apply", "create"}
                         /\ k \in step'[b]..Len(Names(b)')
          PROVE ~Exists(Names(b)[k])'
      <3>1. PICK r : r = Names(b)'[k]
        OBVIOUS
      <3>2. ~Exists(r)'
        BY <2>2, <3>1
      <3> QED
        BY <3>1, <3>2 DEF Exists
    <2>3. /\ \A k \in 1..(step'[b] - 1) : k \in Nat
          /\ \A k \in step'[b]..Len(Names(b)') : k \in Nat
      BY <2>1
    <2> QED
      BY <2>2, <2>3
  <1>1. CASE ~Bootstrapping(b)
    <2>1. bpc'[b] = "guard" /\ step'[b] = 1
      BY <1>0, <1>1, BootstrapStarts DEF Bootstrapping
    <2> QED
      BY <2>1
  <1>2. CASE Bootstrapping(b)
    <2>1. /\ product[b] \in Products /\ step[b] \in 1..Len(Names(b))
      BY <1>0, <1>2 DEF InRange, BootstrapInRange
    <2>2. Len(Names(b)) \in Nat
      BY <2>1, NamesAreSecrets DEF Names
    <2>3. ASSUME UNCHANGED bootstrapVars,
                 EnvironmentStep \/ UNCHANGED vars
          PROVE  ~Exists(r)'
      <3>1. Names(b)' = Names(b)
        BY <2>3 DEF bootstrapVars, Names
      <3>2. ~Exists(r) /\ k \in 1..Len(Names(b))
        BY <1>0, <2>1, <2>2, <2>3, <3>1 DEF bootstrapVars, GuardedNamesAreFree
      <3> QED
        BY <1>0, <2>1, <2>3, <3>1, <3>2, OthersMakeNoSecrets DEF Names
    <2>4. CASE BootstrapStep(b)
      <3>1. product' = product /\ Names(b)' = Names(b)
        BY <1>2, <2>4, GuardedSteps DEF Names
      <3>2. CASE GuardsOne(b)
        <4>1. k \in 1..(step[b] - 1) \/ k = step[b]
          BY <1>0, <3>2 DEF GuardsOne
        <4>2. ~Exists(r)
          BY <3>1, <3>2, <4>1 DEF GuardsOne, GuardedNamesAreFree, Current
        <4> QED
          BY <3>2, <4>2 DEF GuardsOne, Exists
      <3>3. CASE GuardsLast(b)
        <4>1. k \in 1..(step[b] - 1) \/ k = step[b]
          BY <1>0, <2>1, <2>2, <3>1, <3>3 DEF GuardsLast, AtLast
        <4>2. ~Exists(r)
          BY <3>1, <3>3, <4>1 DEF GuardsLast, GuardedNamesAreFree, Current
        <4> QED
          BY <3>3, <4>2 DEF GuardsLast, Exists
      <3>4. CASE FindsFree(b)
        BY <3>1, <3>4 DEF FindsFree, GuardedNamesAreFree, Exists
      <3>5. CASE CreatesOne(b)
        <4>1. /\ bpc'[b] \in {"apply", "create"}
              /\ step'[b] = step[b] + 1
              /\ mode[b] = "checked"
          BY <1>0, <3>5 DEF CreatesOne, Advance, Goto, ApplyPhase
        <4>2. k \in step[b]..Len(Names(b)) /\ k # step[b]
          BY <1>0, <2>2, <3>1, <4>1
        <4>3. k \in 1..Len(Names(b))
          BY <1>0, <2>2, <4>2
        <4>4. r # Current(b)
          BY <2>1, <3>1, <4>2, <4>3, NamesDistinct DEF Names, Current
        <4>5. r \in Resources
          BY <2>1, <3>1, <4>3, NamesAreSecrets DEF Names
        <4>6. ~Exists(r)
          BY <3>1, <3>5, <4>1, <4>2 DEF CreatesOne, GuardedNamesAreFree
        <4> QED
          BY <1>0, <3>5, <4>4, <4>5, <4>6 DEF CreatesOne, Create, Exists
      <3>6. ~GoesBlind(b) /\ bpc'[b] \notin {"done", "failed"}
        BY DEF GoesBlind
      <3> QED
        BY <1>2, <2>4, <3>2, <3>3, <3>4, <3>5, <3>6, GuardedSteps
    <2> QED
      BY <1>2, <2>3, <2>4, BootstrapAlone DEF EnvironmentStep, vars
  <1> QED
    BY <1>1, <1>2

LEMMA PassedIsOwnKept ==
    ASSUME LakeInv, Serial, OneCommand, GuardedNamesAreFree, PassedIsOwn,
           [Next]_vars
    PROVE  PassedIsOwn'
  <1>0. /\ TypeOK /\ InRange
        /\ store \in [Resources -> Object \cup {NoObject}]
        /\ StoreEffect
    BY NextStoreEffect DEF LakeInv, TypeOK, NamespaceTypeOK
  <1> SUFFICES ASSUME NEW b \in Bootstraps, NEW k \in Passed(b)',
                      NEW r, r = Names(b)'[k]
               PROVE  Made(r, b)'
    <2> SUFFICES ASSUME NEW b \in Bootstraps, NEW k \in Passed(b)'
                 PROVE  Made(Names(b)[k], b)'
      BY DEF PassedIsOwn
    <2>1. PICK r : r = Names(b)'[k]
      OBVIOUS
    <2>2. Made(r, b)'
      BY <2>1
    <2> QED
      BY <2>1, <2>2 DEF Made, Exists
  <1>1. Bootstrapping(b)'
    BY DEF Passed, Bootstrapping
  <1>2. CASE ~Bootstrapping(b)
    <2>1. bpc'[b] = "guard"
      BY <1>0, <1>1, <1>2, BootstrapStarts
    <2> QED
      BY <2>1 DEF Passed
  <1>3. CASE Bootstrapping(b)
    <2>1. product[b] \in Products /\ step[b] \in 1..Len(Names(b))
      BY <1>0, <1>3 DEF InRange, BootstrapInRange
    <2>2. Len(Names(b)) \in Nat /\ step[b] \in Nat
      BY <2>1, NamesAreSecrets DEF Names
    <2>3. Passed(b) \subseteq 1..Len(Names(b))
      BY <2>1, <2>2 DEF Passed
    <2>4. ASSUME Names(b)' = Names(b), k \in Passed(b)
          PROVE  Made(r, b)'
      <3>1. r \in Resources /\ Made(r, b)
        BY <2>1, <2>3, <2>4, NamesAreSecrets DEF Names, PassedIsOwn
      <3> QED
        BY <1>0, <3>1, AccountsPersist
    <2>5. CASE UNCHANGED bootstrapVars
      BY <2>4, <2>5 DEF bootstrapVars, Names, Passed
    <2>6. CASE BootstrapStep(b)
      <3>1. product' = product /\ Names(b)' = Names(b)
        BY <1>3, <2>6, GuardedSteps DEF Names
      <3>2. CASE GuardsOne(b)
        BY <3>2 DEF GuardsOne, Passed
      <3>3. CASE GuardsLast(b) \/ GoesBlind(b)
        <4>1. Passed(b)' = 1..0
          BY <3>3 DEF GuardsLast, GoesBlind, Passed
        <4> QED
          BY <4>1
      <3>4. CASE FindsFree(b)
        <4>1. Passed(b)' = Passed(b)
          BY <3>4 DEF FindsFree, Passed
        <4> QED
          BY <2>4, <3>1, <4>1
      <3>5. CASE CreatesOne(b)
        <4>1. k \in Passed(b) \/ k = step[b]
          BY <1>0, <3>1, <3>5, AdvancePassesOne DEF CreatesOne
        <4>2. ASSUME k = step[b]
              PROVE  Made(r, b)'
          <5>1. r = Current(b) /\ r \in Resources
            BY <2>1, <3>1, <4>2, NamesAreSecrets DEF Names, Current
          <5>2. [by |-> b, rev |-> 0, holds |-> NoProduct] \in Object
            BY NamespaceAssumption DEF Object, Creators
          <5>3. store'[r] = [by |-> b, rev |-> 0, holds |-> NoProduct]
            BY <1>0, <3>5, <5>1 DEF CreatesOne, Create
          <5> QED
            BY <5>2, <5>3, ObjectIsNotNothing DEF Made, Exists
        <4> QED
          BY <2>4, <3>1, <4>1, <4>2
      <3>6. CASE bpc'[b] \in {"done", "failed"}
        BY <3>6 DEF Passed
      <3> QED
        BY <1>3, <2>6, <3>2, <3>3, <3>4, <3>5, <3>6, GuardedSteps
    <2> QED
      BY <1>3, <2>5, <2>6, BootstrapAlone DEF EnvironmentStep, vars
  <1> QED
    BY <1>2, <1>3

LEMMA RecordIsOwnKept ==
    ASSUME LakeInv, Serial, PassedIsOwn, SerialRecordIsOwn, [Next]_vars
    PROVE  SerialRecordIsOwn'
  <1>0. TypeOK /\ InRange /\ StoreEffect
    BY NextStoreEffect DEF LakeInv
  <1> SUFFICES ASSUME NEW b \in Bootstraps, Made(StateMap, b)',
                      NEW k \in 1..Len(Names(b)'), NEW r, r = Names(b)'[k]
               PROVE  Made(r, b)'
    <2> SUFFICES ASSUME NEW b \in Bootstraps, Made(StateMap, b)',
                        NEW k \in 1..Len(Names(b)')
                 PROVE  Made(Names(b)[k], b)'
      BY DEF SerialRecordIsOwn
    <2>1. PICK r : r = Names(b)'[k]
      OBVIOUS
    <2>2. Made(r, b)'
      BY <2>1
    <2> QED
      BY <2>1, <2>2 DEF Made, Exists
  <1>1. ASSUME product[b] \in Products, product'[b] = product[b],
               \A m \in 1..Len(Names(b)) : Made(Names(b)[m], b)
        PROVE  Made(r, b)'
    <2>1. Names(b)' = Names(b)
      BY <1>1 DEF Names
    <2>2. r \in Resources /\ Made(r, b)
      BY <1>1, <2>1, NamesAreSecrets DEF Names
    <2> QED
      BY <1>0, <2>2, AccountsPersist
  <1>2. CASE Made(StateMap, b)
    <2>1. bpc[b] \in {"done", "failed"} /\ product[b] \in Products
      BY <1>2 DEF LakeInv, RecorderFinished
    <2>2. product'[b] = product[b]
      BY <1>0, <2>1, FinishedStays
    <2> QED
      BY <1>1, <1>2, <2>1, <2>2 DEF SerialRecordIsOwn
  <1>3. CASE ~Made(StateMap, b)
    <2>1. BootstrapStep(b) /\ bpc[b] = "record"
      BY <1>3, WhoRecords
    <2>2. product' = product /\ product[b] \in Products
      BY <1>0, <2>1, StepPastGuard DEF InRange, BootstrapInRange, Bootstrapping
    <2>3. Passed(b) = 1..Len(Names(b))
      BY <2>1 DEF Passed
    <2> QED
      BY <1>1, <2>2, <2>3 DEF PassedIsOwn
  <1> QED
    BY <1>2, <1>3

LEMMA OwnershipInit == Init => OwnershipInv /\ SerialRecordIsOwn
  <1> SUFFICES ASSUME Init PROVE OwnershipInv /\ SerialRecordIsOwn
    OBVIOUS
  <1> USE DEF Init, NamespaceInit, BootstrapInit
  <1>1. \A r \in Resources : ~Exists(r)
    BY DEF Exists
  <1>2. SecretsAreOfBootstraps
    BY <1>1, NamesAreSecrets DEF SecretsAreOfBootstraps
  <1>3. GuardedNamesAreFree /\ PassedIsOwn
    BY DEF GuardedNamesAreFree, PassedIsOwn, Passed
  <1>4. SerialRecordIsOwn
    <2>1. StateMap \in Resources
      BY DEF Resources
    <2> QED
      BY <1>1, <2>1 DEF SerialRecordIsOwn, Made
  <1> QED
    BY <1>2, <1>3, <1>4 DEF OwnershipInv

LEMMA OwnershipNext ==
    ASSUME KindsApart
    PROVE  LakeInv /\ TurnsInv /\ OwnershipInv /\ SerialRecordIsOwn /\ [Next]_vars
               => (OwnershipInv /\ SerialRecordIsOwn)'
  <1> SUFFICES ASSUME LakeInv, TurnsInv, OwnershipInv, SerialRecordIsOwn,
                      [Next]_vars, Serial
               PROVE  /\ SecretsAreOfBootstraps' /\ GuardedNamesAreFree'
                      /\ PassedIsOwn' /\ SerialRecordIsOwn'
    BY DEF OwnershipInv, SerialRecordIsOwn
  <1>1. /\ OneCommand /\ SecretsAreOfBootstraps
        /\ GuardedNamesAreFree /\ PassedIsOwn
    BY DEF TurnsInv, OwnershipInv
  <1> QED
    BY <1>1, SecretsAreOfBootstrapsKept, GuardedNamesAreFreeKept,
       PassedIsOwnKept, RecordIsOwnKept

(* With operators taking turns, a bootstrap that its guard let through     *)
(* creates every Secret itself.                                            *)
THEOREM OwnershipInvariant ==
    ASSUME KindsApart
    PROVE  Spec => [](OwnershipInv /\ SerialRecordIsOwn)
  BY OwnershipInit, OwnershipNext, LakeInvariant, TurnsInvariant, PTL DEF Spec

(* A lake is recorded only by the bootstrap that made every Secret of it,  *)
(* in either mode, for every number of commands, crashes and leftovers,    *)
(* when operators take turns and no init job uses a bootstrap Secret's     *)
(* name.                                                                   *)
THEOREM RecordOwn ==
    ASSUME KindsApart
    PROVE  Spec => []SerialRecordIsOwn
  BY OwnershipInvariant, PTL

(* A clean-up that succeeds is past its last candidate, and each is clear. *)
LEMMA SuccessfulCleanup ==
    ASSUME LakeInv, Serial, OneCommand, CleanupClears, [Next]_vars,
           NEW u \in Unbootstraps, upc[u] # "done", upc'[u] = "done"
    PROVE  /\ UnbootstrapStep(u)
           /\ plan' = plan /\ upc[u] = "delete"
           /\ plan[u] \in Plan /\ plan[u].product \in Products
           /\ \A k \in 1..Len(Candidates(plan[u])) :
                \A r : r = Candidates(plan[u])[k] => Cleared(r)'
  <1>0. /\ TypeOK /\ InRange
        /\ upc \in [Unbootstraps -> UnbootstrapPhases]
        /\ plan \in [Unbootstraps -> Plan]
        /\ at \in [Unbootstraps -> Nat \ {0}]
    BY DEF LakeInv, TypeOK, UnbootstrapTypeOK
  <1>1. UnbootstrapStep(u)
    <2>1. ASSUME NEW v \in Unbootstraps, UnbootstrapStep(v), v # u
          PROVE  FALSE
      BY <1>0, <2>1, UnbootstrapFrame
    <2>2. ~UNCHANGED unbootstrapVars
      BY DEF unbootstrapVars
    <2> QED
      BY <2>1, <2>2 DEF Next, BootstrapStep, EnvironmentStep, vars
  <1>2. Unbootstrapping(u)
    <2>1. ~BeginUnbootstrap(u)
      BY <1>0 DEF BeginUnbootstrap, PlanFromState, PlanFromSelection,
         PlanImpossible, MoveTo
    <2> QED
      BY <1>1, <2>1 DEF UnbootstrapStep, ContinueUnbootstrap, FailUnbootstrap,
         Inspect, SkipMissing, DeleteCandidate, DeleteConflict,
         DeleteUnanswered, AbortUnbootstrap, Unbootstrapping
  <1>3. plan' = plan /\ ClearsOne(u) /\ AtLastCandidate(u) /\ upc[u] = "delete"
    BY <1>1, <1>2, CleanupSteps DEF InspectsOne, ClearsOne
  <1>4. plan[u] \in Plan /\ plan[u].product \in Products
    BY <1>0, <1>2 DEF InRange, UnbootstrapInRange
  <1>5. ASSUME NEW k \in 1..Len(Candidates(plan[u])),
               NEW r, r = Candidates(plan[u])[k]
        PROVE  Cleared(r)'
    <2>1. Len(Candidates(plan[u])) \in Nat /\ r \in Resources
      BY <1>4, <1>5, CandidatesAreResources
    <2>2. CASE k = at[u]
      BY <1>3, <1>5, <2>1, <2>2 DEF ClearsOne, Candidate
    <2>3. CASE k # at[u]
      <3>1. k < at[u]
        BY <1>3, <2>1, <2>3 DEF AtLastCandidate
      <3>2. Cleared(r)
        BY <1>2, <1>3, <1>5, <3>1 DEF CleanupClears
      <3> QED
        BY <1>0, <1>1, <2>1, <3>2, ClearedStays
    <2> QED
      BY <2>2, <2>3
  <1> QED
    BY <1>1, <1>3, <1>4, <1>5

(* With a record to delete, the record is the last candidate.              *)
LEMMA RecordIsLast ==
    ASSUME NEW pl \in Plan, pl.product \in Products, pl.stateful
    PROVE  /\ Len(Candidates(pl)) \in 1..Len(Candidates(pl))
           /\ Candidates(pl)[Len(Candidates(pl))] = StateMap
  <1> DEFINE B == BootstrapSecrets[pl.product]
             I == InitResources[pl.product]
  <1>1. B \in Seq(Resources) /\ I \in Seq(Resources) /\ StateMap \in Resources
    BY NamesAreSecrets, InitNamesAreNotState DEF Resources
  <1>2. Candidates(pl) = B \o I \o <<StateMap>>
    BY DEF Candidates
  <1> HIDE DEF B, I
  <1> DEFINE C == B \o I
  <1>3. C \in Seq(Resources)
    BY <1>1
  <1> HIDE DEF C
  <1>4. /\ Len(C \o <<StateMap>>) = Len(C) + 1
        /\ (C \o <<StateMap>>)[Len(C) + 1] = StateMap
        /\ Len(C) \in Nat
    BY <1>1, <1>3
  <1> QED
    BY <1>2, <1>4 DEF C

(* A clean-up that reports success leaves no record and no bootstrap       *)
(* Secret, for every number of commands, products, init jobs and edits,    *)
(* when operators take turns and no init job uses a bootstrap Secret's     *)
(* name: the bootstrap that follows is not refused.                        *)
THEOREM CleanupComplete ==
    ASSUME KindsApart
    PROVE  Spec => SerialCleanupIsComplete
  <1>1. ASSUME LakeInv, LakeInv', TurnsInv, OwnershipInv', [Next]_vars,
               NEW u \in Unbootstraps, Serial, upc[u] # "done", upc'[u] = "done"
        PROVE  /\ store'[StateMap] = NoObject
               /\ \A k \in 1..Len(BootstrapSecrets[plan[u].product]) :
                    store'[BootstrapSecrets[plan[u].product][k]] = NoObject
    <2>0. /\ TypeOK /\ InRange /\ OneCommand /\ CleanupClears /\ PlanIsOfRecord
          /\ SecretsAreOfBootstraps'
      BY <1>1 DEF LakeInv, TurnsInv, OwnershipInv
    <2>1. /\ UnbootstrapStep(u)
          /\ plan' = plan /\ upc[u] = "delete"
          /\ plan[u] \in Plan /\ plan[u].product \in Products
          /\ \A k \in 1..Len(Candidates(plan[u])) :
               \A r : r = Candidates(plan[u])[k] => Cleared(r)'
      BY <1>1, <2>0, SuccessfulCleanup
    <2>2. Bootstraps \cap InitJobs = {}
      BY NamespaceAssumption
    <2>3. store'[StateMap] = NoObject
      <3>1. SUFFICES ASSUME Exists(StateMap)' PROVE FALSE
        BY DEF Exists
      <3>2. Exists(StateMap)
        BY <2>0, <2>1, <3>1, RecordHeld
      <3>3. plan[u].stateful
        BY <2>0, <2>1, <3>2 DEF PlanIsOfRecord, Unbootstrapping
      <3>4. Cleared(StateMap)'
        BY <2>1, <3>3, RecordIsLast
      <3>5. store'[StateMap].by \in Bootstraps
        BY <1>1, <3>1 DEF LakeInv, StateIsOfRecorder
      <3> QED
        BY <2>2, <3>1, <3>4, <3>5 DEF Cleared
    <2>4. ASSUME NEW k \in 1..Len(BootstrapSecrets[plan[u].product])
          PROVE  store'[BootstrapSecrets[plan[u].product][k]] = NoObject
      <3> PICK r : r = BootstrapSecrets[plan[u].product][k]
        OBVIOUS
      <3>1. Cleared(r)'
        BY <2>1, NamesAreCandidates
      <3>2. Exists(r)' => store'[r].by \in Bootstraps
        BY <2>0, <2>1 DEF SecretsAreOfBootstraps, Exists
      <3> QED
        BY <2>2, <3>1, <3>2 DEF Cleared, Exists
    <2> QED
      BY <2>3, <2>4
  <1>2. LakeInv /\ LakeInv' /\ TurnsInv /\ OwnershipInv' /\ [Next]_vars
          => [\A u \in Unbootstraps :
                Serial /\ upc[u] # "done" /\ upc'[u] = "done" =>
                    /\ store'[StateMap] = NoObject
                    /\ \A k \in 1..Len(BootstrapSecrets[plan[u].product]) :
                         store'[BootstrapSecrets[plan[u].product][k]] = NoObject]_vars
    BY <1>1
  <1> QED
    BY <1>2, LakeInvariant, TurnsInvariant, OwnershipInvariant, PTL
       DEF Spec, SerialCleanupIsComplete
=============================================================================
