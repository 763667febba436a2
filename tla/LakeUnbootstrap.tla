-------------------------- MODULE LakeUnbootstrap --------------------------
(***************************************************************************)
(* The command `stelarctl lake unbootstrap ENV`, one action per Kubernetes *)
(* API call: plan (and operator confirmation), deletion preflight, then    *)
(* the deletions, the state ConfigMap last.                                *)
(***************************************************************************)
EXTENDS LakeNamespace

VARIABLES
    upc,     \* where each invocation is
    plan,    \* the fullspec its names come from; does it delete StateMap
    at,      \* index of the candidate it is at
    bound    \* name -> the object its preflight read there

unbootstrapVars == <<upc, plan, at, bound>>

UnbootstrapPhases == {"idle", "prepare", "delete", "done", "failed"}

Plan == [product : Products \cup {NoProduct}, stateful : BOOLEAN]

UnbootstrapTypeOK ==
    /\ upc \in [Unbootstraps -> UnbootstrapPhases]
    /\ plan \in [Unbootstraps -> Plan]
    /\ at \in [Unbootstraps -> Nat \ {0}]
    /\ bound \in [Unbootstraps -> [Resources -> Object \cup {NoObject}]]

UnbootstrapInit ==
    /\ upc = [u \in Unbootstraps |-> "idle"]
    /\ plan = [u \in Unbootstraps |-> [product |-> NoProduct, stateful |-> FALSE]]
    /\ at = [u \in Unbootstraps |-> 1]
    /\ bound = [u \in Unbootstraps |-> [r \in Resources |-> NoObject]]

(* Mutant: the state marker goes first.                                    *)
Candidates_MarkerFirst(pl) ==
    (IF pl.stateful THEN <<StateMap>> ELSE <<>>)
        \o BootstrapSecrets[pl.product] \o InitResources[pl.product]

(* Names derived from a fullspec; the state marker goes last.              *)
Candidates(pl) ==
    BootstrapSecrets[pl.product] \o InitResources[pl.product]
        \o (IF pl.stateful THEN <<StateMap>> ELSE <<>>)

Candidate(u) == Candidates(plan[u])[at[u]]
(* Mutant: an off-by-one that leaves the last candidate out.               *)
AtLastCandidate_OneShort(u) == at[u] + 1 >= Len(Candidates(plan[u]))

AtLastCandidate(u) == at[u] = Len(Candidates(plan[u]))
Unbootstrapping(u) == upc[u] \in {"prepare", "delete"}

MoveTo(u, phase) == upc' = [upc EXCEPT ![u] = phase]

-----------------------------------------------------------------------------
(* Mutant: names come from the local selection even when a state exists.   *)
PlanFromState_LocalNames(u) ==
    /\ upc[u] = "idle"
    /\ Exists(StateMap)
    /\ plan' = [plan EXCEPT ![u] = [product |-> active, stateful |-> TRUE]]
    /\ MoveTo(u, "prepare")
    /\ UNCHANGED <<at, bound, namespaceVars>>

(* Read the state ConfigMap: plan from the fullspec it holds, ...          *)
PlanFromState(u) ==
    /\ upc[u] = "idle"
    /\ Exists(StateMap)
    /\ plan' = [plan EXCEPT ![u] =
                  [product |-> store[StateMap].holds, stateful |-> TRUE]]
    /\ MoveTo(u, "prepare")
    /\ UNCHANGED <<at, bound, namespaceVars>>

(* ... or, when it is absent, from the environment's own selection.        *)
PlanFromSelection(u) ==
    /\ upc[u] = "idle"
    /\ ~Exists(StateMap)
    /\ active # NoProduct
    /\ plan' = [plan EXCEPT ![u] = [product |-> active, stateful |-> FALSE]]
    /\ MoveTo(u, "prepare")
    /\ UNCHANGED <<at, bound, namespaceVars>>

PlanImpossible(u) ==
    /\ upc[u] = "idle"
    /\ ~Exists(StateMap)
    /\ active = NoProduct
    /\ MoveTo(u, "failed")
    /\ UNCHANGED <<plan, at, bound, namespaceVars>>

(* Preflight: read one candidate and remember its identity.                *)
Inspect(u) ==
    /\ upc[u] = "prepare"
    /\ bound' = [bound EXCEPT ![u][Candidate(u)] = store[Candidate(u)]]
    /\ \/ /\ ~AtLastCandidate(u)
          /\ at' = [at EXCEPT ![u] = @ + 1]
          /\ UNCHANGED upc
       \/ /\ AtLastCandidate(u)
          /\ at' = [at EXCEPT ![u] = 1]
          /\ MoveTo(u, "delete")
    /\ UNCHANGED <<plan, namespaceVars>>

(* Go on with the next candidate, or report success after the last.        *)
NextCandidate(u) ==
    \/ /\ ~AtLastCandidate(u)
       /\ at' = [at EXCEPT ![u] = @ + 1]
       /\ UNCHANGED upc
    \/ /\ AtLastCandidate(u)
       /\ MoveTo(u, "done")
       /\ UNCHANGED at

(* The candidate was missing in the preflight, or is gone now (404).       *)
SkipMissing(u) ==
    /\ upc[u] = "delete"
    /\ bound[u][Candidate(u)] = NoObject \/ ~Exists(Candidate(u))
    /\ NextCandidate(u)
    /\ UNCHANGED <<plan, bound, namespaceVars>>

(* Mutant: the delete carries no preconditions, so it removes whatever     *)
(* object has the name now.                                                *)
DeleteCandidate_NoPreconditions(u) ==
    /\ upc[u] = "delete"
    /\ bound[u][Candidate(u)] # NoObject
    /\ DeleteIfSame(Candidate(u), store[Candidate(u)], u)
    /\ NextCandidate(u)
    /\ UNCHANGED <<plan, bound>>

DeleteCandidate(u) ==
    /\ upc[u] = "delete"
    /\ bound[u][Candidate(u)] # NoObject
    /\ DeleteIfSame(Candidate(u), bound[u][Candidate(u)], u)
    /\ NextCandidate(u)
    /\ UNCHANGED <<plan, bound>>

(* 409: the object was edited or replaced since the preflight.             *)
DeleteConflict(u) ==
    /\ upc[u] = "delete"
    /\ bound[u][Candidate(u)] # NoObject
    /\ Exists(Candidate(u))
    /\ store[Candidate(u)] # bound[u][Candidate(u)]
    /\ MoveTo(u, "failed")
    /\ UNCHANGED <<plan, at, bound, namespaceVars>>

(* The delete took effect but the command saw an error or died.            *)
DeleteUnanswered(u) ==
    /\ upc[u] = "delete"
    /\ bound[u][Candidate(u)] # NoObject
    /\ DeleteIfSame(Candidate(u), bound[u][Candidate(u)], u)
    /\ MoveTo(u, "failed")
    /\ UNCHANGED <<plan, at, bound>>

(* Confirmation declined, an API error, or a crash.                        *)
AbortUnbootstrap(u) ==
    /\ Unbootstrapping(u)
    /\ MoveTo(u, "failed")
    /\ UNCHANGED <<plan, at, bound, namespaceVars>>

BeginUnbootstrap(u) == PlanFromState(u) \/ PlanFromSelection(u) \/ PlanImpossible(u)

ContinueUnbootstrap(u) ==
    \/ Inspect(u)
    \/ SkipMissing(u)
    \/ DeleteCandidate(u)
    \/ DeleteConflict(u)

FailUnbootstrap(u) == DeleteUnanswered(u) \/ AbortUnbootstrap(u)
=============================================================================
