--------------------------- MODULE LakeBootstrap ---------------------------
(***************************************************************************)
(* The command `stelarctl lake bootstrap ENV`, one action per Kubernetes   *)
(* API call.  A local read is part of the call that follows it.            *)
(*                                                                         *)
(* idle -> guard -> apply/create per Secret -> record -> done, or failed.  *)
(* In mode "checked" every expected Secret was read and was absent before  *)
(* the first is created; in mode "blind" RBAC forbade reading them.        *)
(***************************************************************************)
EXTENDS LakeNamespace

VARIABLES
    bpc,       \* where each invocation is
    product,   \* the active fullspec it read when it started
    step,      \* index of the Secret it is at
    mode,      \* "checked" or "blind"
    found      \* its guard has met an existing Secret

bootstrapVars == <<bpc, product, step, mode, found>>

BootstrapPhases == {"idle", "guard", "apply", "create", "record", "done", "failed"}

BootstrapTypeOK ==
    /\ bpc \in [Bootstraps -> BootstrapPhases]
    /\ product \in [Bootstraps -> Products \cup {NoProduct}]
    /\ step \in [Bootstraps -> Nat \ {0}]
    /\ mode \in [Bootstraps -> {"checked", "blind"}]
    /\ found \in [Bootstraps -> BOOLEAN]

BootstrapInit ==
    /\ bpc = [b \in Bootstraps |-> "idle"]
    /\ product = [b \in Bootstraps |-> NoProduct]
    /\ step = [b \in Bootstraps |-> 1]
    /\ mode = [b \in Bootstraps |-> "checked"]
    /\ found = [b \in Bootstraps |-> FALSE]

Names(b) == BootstrapSecrets[product[b]]
Current(b) == Names(b)[step[b]]
(* Mutant: an off-by-one that leaves the last Secret out.                  *)
AtLast_OneShort(b) == step[b] + 1 >= Len(Names(b))

AtLast(b) == step[b] = Len(Names(b))
Bootstrapping(b) == bpc[b] \in {"guard", "apply", "create", "record"}

Goto(b, phase) == bpc' = [bpc EXCEPT ![b] = phase]

(* A checked Secret is read before it is created, a blind one is not.      *)
ApplyPhase(m) == IF m = "checked" THEN "apply" ELSE "create"

(* Leave the current Secret for the next, or for the state ConfigMap.      *)
Advance(b) ==
    \/ /\ ~AtLast(b)
       /\ step' = [step EXCEPT ![b] = @ + 1]
       /\ Goto(b, ApplyPhase(mode[b]))
    \/ /\ AtLast(b)
       /\ Goto(b, "record")
       /\ UNCHANGED step

-----------------------------------------------------------------------------
(* Read the active fullspec and the state ConfigMap, which must be absent. *)
StartBootstrap(b) ==
    /\ bpc[b] = "idle"
    /\ active # NoProduct
    /\ ~Exists(StateMap)
    /\ product' = [product EXCEPT ![b] = active]
    /\ Goto(b, "guard")
    /\ UNCHANGED <<step, mode, found, namespaceVars>>

RejectBootstrapped(b) ==
    /\ bpc[b] = "idle"
    /\ active # NoProduct
    /\ Exists(StateMap)
    /\ Goto(b, "failed")
    /\ UNCHANGED <<product, step, mode, found, namespaceVars>>

(* Mutant: the guard goes on whatever it met.                              *)
GuardRead_IgnoresExisting(b) ==
    /\ bpc[b] = "guard"
    /\ \/ /\ ~AtLast(b)
          /\ step' = [step EXCEPT ![b] = @ + 1]
          /\ UNCHANGED bpc
       \/ /\ AtLast(b)
          /\ step' = [step EXCEPT ![b] = 1]
          /\ Goto(b, ApplyPhase("checked"))
    /\ UNCHANGED <<product, mode, found, namespaceVars>>

(* Read one expected Secret; after the last, go on only if none existed.   *)
GuardRead(b) ==
    /\ bpc[b] = "guard"
    /\ LET met == found[b] \/ Exists(Current(b)) IN
       /\ found' = [found EXCEPT ![b] = met]
       /\ \/ /\ ~AtLast(b)
             /\ step' = [step EXCEPT ![b] = @ + 1]
             /\ UNCHANGED bpc
          \/ /\ AtLast(b)
             /\ ~met
             /\ step' = [step EXCEPT ![b] = 1]
             /\ Goto(b, ApplyPhase("checked"))
          \/ /\ AtLast(b)
             /\ met
             /\ Goto(b, "failed")
             /\ UNCHANGED step
    /\ UNCHANGED <<product, mode, namespaceVars>>

(* Mutant: the index is reset to zero.                                     *)
GuardForbidden_FromZero(b) ==
    /\ bpc[b] = "guard"
    /\ mode' = [mode EXCEPT ![b] = "blind"]
    /\ step' = [step EXCEPT ![b] = 0]
    /\ found' = [found EXCEPT ![b] = FALSE]
    /\ Goto(b, ApplyPhase("blind"))
    /\ UNCHANGED <<product, namespaceVars>>

(* 403 on a guard read: forget what was read and create without checking.  *)
GuardForbidden(b) ==
    /\ bpc[b] = "guard"
    /\ mode' = [mode EXCEPT ![b] = "blind"]
    /\ step' = [step EXCEPT ![b] = 1]
    /\ found' = [found EXCEPT ![b] = FALSE]
    /\ Goto(b, ApplyPhase("blind"))
    /\ UNCHANGED <<product, namespaceVars>>

(* secret_exists before a checked create: an existing Secret is skipped.   *)
ApplyRead(b) ==
    /\ bpc[b] = "apply"
    /\ \/ Exists(Current(b)) /\ Advance(b)
       \/ ~Exists(Current(b)) /\ Goto(b, "create") /\ UNCHANGED step
    /\ UNCHANGED <<product, mode, found, namespaceVars>>

CreateSecret(b) ==
    /\ bpc[b] = "create"
    /\ Create(Current(b), b, NoProduct)
    /\ Advance(b)
    /\ UNCHANGED <<product, mode, found>>

(* Mutant: allow_conflict left at its default when reads are forbidden.    *)
CreateConflict_AlwaysTolerated(b) ==
    /\ bpc[b] = "create"
    /\ Exists(Current(b))
    /\ Advance(b)
    /\ UNCHANGED <<product, mode, found, namespaceVars>>

(* 409: tolerated when the guard could read, an error when it could not.   *)
CreateConflict(b) ==
    /\ bpc[b] = "create"
    /\ Exists(Current(b))
    /\ \/ mode[b] = "checked" /\ Advance(b)
       \/ mode[b] = "blind" /\ Goto(b, "failed") /\ UNCHANGED step
    /\ UNCHANGED <<product, mode, found, namespaceVars>>

(* Mutant: the state ConfigMap is replaced when it exists.                 *)
RecordState_Replaces(b) ==
    /\ bpc[b] = "record"
    /\ store' = [store EXCEPT ![StateMap] =
                    [by |-> b, rev |-> 0, holds |-> product[b]]]
    /\ Goto(b, "done")
    /\ UNCHANGED <<product, step, mode, found, deleted, active, ran>>

RecordState(b) ==
    /\ bpc[b] = "record"
    /\ Create(StateMap, b, product[b])
    /\ Goto(b, "done")
    /\ UNCHANGED <<product, step, mode, found>>

(* Mutant: a conflict on the state ConfigMap is tolerated.                 *)
RecordConflict_Tolerated(b) ==
    /\ bpc[b] = "record"
    /\ Exists(StateMap)
    /\ Goto(b, "done")
    /\ UNCHANGED <<product, step, mode, found, namespaceVars>>

RecordConflict(b) ==
    /\ bpc[b] = "record"
    /\ Exists(StateMap)
    /\ Goto(b, "failed")
    /\ UNCHANGED <<product, step, mode, found, namespaceVars>>

(* The create took effect but its answer was an error or never arrived, or *)
(* the command died waiting for it.                                        *)
CreateUnanswered(b) ==
    /\ \/ bpc[b] = "create" /\ Create(Current(b), b, NoProduct)
       \/ bpc[b] = "record" /\ Create(StateMap, b, product[b])
    /\ Goto(b, "failed")
    /\ UNCHANGED <<product, step, mode, found>>

(* An API error, a failed preflight or local check, or a crash: the        *)
(* command ends and undoes nothing.                                        *)
AbortBootstrap(b) ==
    /\ Bootstrapping(b)
    /\ Goto(b, "failed")
    /\ UNCHANGED <<product, step, mode, found, namespaceVars>>

BeginBootstrap(b) == StartBootstrap(b) \/ RejectBootstrapped(b)

(* The steps an invocation takes when the API server answers.              *)
ContinueBootstrap(b) ==
    \/ GuardRead(b)
    \/ ApplyRead(b)
    \/ CreateSecret(b)
    \/ CreateConflict(b)
    \/ RecordState(b)
    \/ RecordConflict(b)

FailBootstrap(b) == GuardForbidden(b) \/ CreateUnanswered(b) \/ AbortBootstrap(b)
=============================================================================
