--------------------------- MODULE LakeNamespace ---------------------------
(***************************************************************************)
(* The Kubernetes namespace a lake is bootstrapped into, as the stelarctl  *)
(* commands see it: Secrets, ConfigMaps and the state ConfigMap            *)
(* stelar-lake-state, each absent or an object with an identity.           *)
(*                                                                         *)
(* The identity Kubernetes gives an object (UID and resourceVersion) is    *)
(* the invocation that created it and the number of times it was edited    *)
(* since: one command creates a name at most once, so the pair is as       *)
(* unique as the UID and resourceVersion are.                              *)
(***************************************************************************)
EXTENDS Naturals, Sequences

CONSTANTS
    Products,          \* fullspecs an operator can select
    NoProduct,         \* no product selected, or nothing recorded
    Secrets,           \* names of Secrets
    ConfigMaps,        \* names of init-generated ConfigMaps
    StateMap,          \* the ConfigMap stelar-lake-state
    NoObject,          \* the name is free
    BootstrapSecrets,  \* product -> names lake bootstrap creates, in order
    InitResources,     \* product -> names its init jobs create, in order
    Bootstraps,        \* invocations of lake bootstrap
    Unbootstraps,      \* invocations of lake unbootstrap
    InitJobs,          \* runs of an init job of the deployed lake
    MaxEdits           \* bound on the external edits of one object

Resources == Secrets \cup ConfigMaps \cup {StateMap}

Distinct(seq) == \A i, j \in 1..Len(seq) : seq[i] = seq[j] => i = j

(* Secret names are distinct within a product: every default name is, and  *)
(* a product with custom names that collide is outside this model.         *)
ASSUME NamespaceAssumption ==
    /\ StateMap \notin Secrets \cup ConfigMaps
    /\ NoProduct \notin Products
    /\ BootstrapSecrets \in [Products -> Seq(Secrets)]
    /\ InitResources \in [Products -> Seq(Secrets \cup ConfigMaps)]
    /\ \A p \in Products :
         /\ Len(BootstrapSecrets[p]) > 0
         /\ Distinct(BootstrapSecrets[p] \o InitResources[p])
    /\ Bootstraps \cap InitJobs = {}
    /\ MaxEdits \in Nat

Creators == Bootstraps \cup InitJobs

(* by, rev: the identity; holds: the fullspec a state ConfigMap carries.   *)
Object == [by : Creators, rev : 0..MaxEdits, holds : Products \cup {NoProduct}]

ASSUME NoObjectAssumption == NoObject \notin Object

VARIABLES
    store,     \* name -> object
    deleted,   \* history: the objects stelarctl deleted, and which command did
    active,    \* spec.stelar.active_product of the lake environment
    ran        \* init jobs that have run

namespaceVars == <<store, deleted, active, ran>>

Exists(r) == store[r] # NoObject

NamespaceTypeOK ==
    /\ store \in [Resources -> Object \cup {NoObject}]
    /\ deleted \subseteq [res : Resources, by : Creators, via : Unbootstraps]
    /\ active \in Products \cup {NoProduct}
    /\ ran \subseteq InitJobs

NamespaceInit ==
    /\ store = [r \in Resources |-> NoObject]
    /\ deleted = {}
    /\ active = NoProduct
    /\ ran = {}

-----------------------------------------------------------------------------
(* Effects of the API calls stelarctl makes.                               *)

(* POST of a free name; the caller handles 409 when the name is taken.     *)
Create(r, i, content) ==
    /\ ~Exists(r)
    /\ store' = [store EXCEPT ![r] = [by |-> i, rev |-> 0, holds |-> content]]
    /\ UNCHANGED <<deleted, active, ran>>

(* DELETE whose UID and resourceVersion preconditions name object o.       *)
DeleteIfSame(r, o, u) ==
    /\ Exists(r)
    /\ store[r] = o
    /\ store' = [store EXCEPT ![r] = NoObject]
    /\ deleted' = deleted \cup {[res |-> r, by |-> store[r].by, via |-> u]}
    /\ UNCHANGED <<active, ran>>

-----------------------------------------------------------------------------
(* What else changes the namespace and the selection.                      *)

(* lake switch, or the first lake create: the environment's selection is   *)
(* replaced whatever the cluster records.                                  *)
SelectProduct(p) ==
    /\ active # p
    /\ active' = p
    /\ UNCHANGED <<store, deleted, ran>>

(* An init job of some deployed product creates one of its generated       *)
(* resources; deployment (tk apply) is independent of stelarctl.           *)
InitJobCreates(j) ==
    /\ j \notin ran
    /\ ran' = ran \cup {j}
    /\ \E p \in Products : \E k \in 1..Len(InitResources[p]) :
         LET r == InitResources[p][k] IN
         /\ ~Exists(r)
         /\ store' = [store EXCEPT ![r] = [by |-> j, rev |-> 0, holds |-> NoProduct]]
    /\ UNCHANGED <<deleted, active>>

(* Somebody edits an object: its resourceVersion moves on.                 *)
Edit(r) ==
    /\ Exists(r)
    /\ store[r].rev < MaxEdits
    /\ store' = [store EXCEPT ![r].rev = @ + 1]
    /\ UNCHANGED <<deleted, active, ran>>

NamespaceStep ==
    \/ \E p \in Products : SelectProduct(p)
    \/ \E j \in InitJobs : InitJobCreates(j)
    \/ \E r \in Resources : Edit(r)
=============================================================================
