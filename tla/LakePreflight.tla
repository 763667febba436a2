--------------------------- MODULE LakePreflight ---------------------------
(***************************************************************************)
(* From `lake create --minimal` over `lake switch` to the preflight checks *)
(* of `lake verify` and `lake bootstrap`: one read of the Kubernetes API   *)
(* per step, while the cluster and the kubeconfig go on changing.          *)
(*                                                                         *)
(* A requirement is what one check asks for.  Storage classes differ from  *)
(* context to context; the rest is that of the context in use.             *)
(***************************************************************************)
EXTENDS LakeConfig, FiniteSets

CONSTANTS
    Contexts,       \* kubectl contexts
    NoContext,      \* spec.json has no context
    Crds,           \* the cert-manager CRDs
    Deployments,    \* the cert-manager Deployments
    Pods,           \* pods
    Labels,         \* Pods -> the controller selectors that match its labels
    Named,          \* pods whose name or name label says ingress-nginx
    Selectors,      \* the label selectors tried for the ingress controller
    InitialConfigs, \* active fullspecs to begin with, NoValue for none
    Creating,       \* the ways a minimal product is made, see below
    Settled,        \* storage classes there from the beginning
    Deniable,       \* kinds of requests RBAC may forbid, one at a time
    MaxChanges      \* bound on the changes of the cluster

(* What a request is for.                                                  *)
Kinds == {"namespace", "class", "ingressClass", "controller",
          "crd", "deployment", "issuer"}

Ask(kind, name) == [kind |-> kind, name |-> name]
Namespace == Ask("namespace", NoValue)
IngressClass == Ask("ingressClass", NoValue)
Controller == Ask("controller", NoValue)

(* The single objects the requests read; pods and classes are apart.       *)
Objects ==
    {Namespace, IngressClass} \cup
    {Ask("crd", n) : n \in ToSet(Crds)} \cup
    {Ask("deployment", n) : n \in ToSet(Deployments)} \cup
    {Ask("issuer", n) : n \in Issuers}

(* A Deployment or an issuer can be there without being ready.             *)
HealthOf(o) ==
    IF o.kind \in {"deployment", "issuer"}
    THEN {"ready", "unready", "absent"} ELSE {"ready", "absent"}

ASSUME PreflightAssumption ==
    /\ Crds \in Seq(ToSet(Crds)) /\ Deployments \in Seq(ToSet(Deployments))
    /\ Selectors \in Seq(ToSet(Selectors))
    /\ Labels \in [Pods -> SUBSET ToSet(Selectors)]
    /\ Named \subseteq Pods
    /\ InitialConfigs \subseteq Configs
    /\ Creating \subseteq {"typed", "inferred"}
    /\ Settled \subseteq StorageClasses
    /\ Deniable \subseteq Kinds
    /\ MaxChanges \in Nat
    /\ NoContext \notin Contexts

(* An inference: the context asked for, the one it read, what it chose.    *)
Inferences ==
    [option : Contexts \cup {NoContext}, context : Contexts, class : StorageClasses]

(* A fullspec, with the inference it comes from.                           *)
Fullspecs == [config : Configs, source : Inferences \cup {NoValue}]

VARIABLES
    served,     \* context -> its storage classes
    health,     \* object -> its health
    ready,      \* the pods that run and are Ready
    denied,     \* the kinds of requests RBAC forbids
    current,    \* the active kubectl context
    changes,    \* how often the cluster or the kubeconfig has changed
    dropped,    \* history: [context, class] pairs deleted so far
    target,     \* the context in spec.json
    inferred,   \* what the running create has inferred, or NoValue
    product,    \* the fullspec last created, NoValue for none
    active,     \* the active fullspec, NoValue for none
    ppc,        \* where the preflight is
    plan,       \* the fullspec it has read
    on,         \* the context it reads
    at,         \* index of the requirement it checks
    scan,       \* index of the list of pods it searches
    met,        \* history: requirements that have held since it began
    lacked      \* history: those that have failed to hold since it began

clusterVars == <<served, health, ready, denied, current, changes, dropped>>
createVars == <<target, inferred, product, active>>
checkVars == <<ppc, plan, on, at, scan, met, lacked>>
preflightVars == <<clusterVars, createVars, checkVars>>

Outcomes == {"passed", "unmet", "forbidden", "error", "refused"}

Requirements ==
    Objects \cup {Controller} \cup {Ask("class", s) : s \in StorageClasses}

PreflightTypeOK ==
    /\ served \in [Contexts -> SUBSET StorageClasses]
    /\ health \in [Objects -> {"ready", "unready", "absent"}]
    /\ ready \subseteq Pods
    /\ denied \subseteq Kinds
    /\ current \in Contexts
    /\ changes \in 0..MaxChanges
    /\ dropped \subseteq [context : Contexts, class : StorageClasses]
    /\ target \in Contexts \cup {NoContext}
    /\ inferred \in Inferences \cup {NoValue}
    /\ product \in Fullspecs \cup {NoValue}
    /\ active \in Fullspecs \cup {NoValue}
    /\ ppc \in {"idle", "checking"} \cup Outcomes
    /\ ppc = "checking" => plan \in Fullspecs /\ Acceptable(plan.config)
    /\ on \in Contexts
    /\ at \in Nat \ {0} /\ scan \in 1..Len(Selectors) + 1
    /\ met \subseteq Requirements /\ lacked \subseteq Requirements
-----------------------------------------------------------------------------
(* What the checks ask for, and whether the cluster has it.                *)

(* Mutant: cert-manager is taken for granted.                              *)
ChecksOf_NoCertManager(c) ==
    <<Namespace>>
    \o [i \in 1..Len(StorageClassNames(c)) |-> Ask("class", StorageClassNames(c)[i])]
    \o <<IngressClass, Controller>>
    \o (IF ClusterIssuer(c) = NoValue THEN <<>>
        ELSE <<Ask("issuer", ClusterIssuer(c))>>)

(* In the order the checks run.                                            *)
ChecksOf(c) ==
    <<Namespace>>
    \o [i \in 1..Len(StorageClassNames(c)) |-> Ask("class", StorageClassNames(c)[i])]
    \o <<IngressClass, Controller>>
    \o (IF ClusterIssuer(c) = NoValue THEN <<>>
        ELSE [i \in 1..Len(Crds) |-> Ask("crd", Crds[i])]
             \o [i \in 1..Len(Deployments) |-> Ask("deployment", Deployments[i])]
             \o <<Ask("issuer", ClusterIssuer(c))>>)

(* Mutant: a pod with the right labels will do.                            *)
Listed_AnyPod(k) ==
    IF k <= Len(Selectors)
    THEN {p \in Pods : Selectors[k] \in Labels[p]} ELSE ready \cap Named

(* The Ready ingress-nginx controllers in the k-th list of pods: one list  *)
(* per selector, then one of all pods.                                     *)
Listed(k) ==
    {p \in ready \cap Named :
        k <= Len(Selectors) => Selectors[k] \in Labels[p]}

(* The requirement holds now, seen from context k.                         *)
Holds(r, k) ==
    CASE r.kind = "class" -> r.name \in served[k]
      [] r.kind = "controller" -> ready \cap Named # {}
      [] r.kind \notin {"class", "controller"} -> health[r] = "ready"

(* Mutant: a Deployment that exists will do.                               *)
CheckHolds_Exists(r) ==
    IF r \in Objects THEN health[r] # "absent" ELSE Holds(r, on)

(* What the check of r reads; the controller takes several reads.          *)
CheckHolds(r) ==
    IF r = Controller THEN Listed(scan) # {} ELSE Holds(r, on)

Checks == ChecksOf(plan.config)
Current == Checks[at]
Held(k) == {r \in Requirements : Holds(r, k)}
-----------------------------------------------------------------------------
PreflightInit ==
    /\ served \in [Contexts -> {S \in SUBSET StorageClasses : Settled \subseteq S}]
    /\ health = [o \in Objects |-> "ready"]
    /\ ready = Pods
    /\ denied \in {{}} \cup {{k} : k \in Deniable}
    /\ current \in Contexts
    /\ changes = 0
    /\ dropped = {}
    /\ target \in Contexts \cup {NoContext}
    /\ inferred = NoValue
    /\ product = NoValue
    /\ \/ active = NoValue
       \/ \E c \in InitialConfigs : active = [config |-> c, source |-> NoValue]
    /\ ppc = "idle"
    /\ plan = NoValue
    /\ on = current
    /\ at = 1
    /\ scan = 1
    /\ met = {}
    /\ lacked = {}

-----------------------------------------------------------------------------
(* lake create --minimal, once and where no product is active (bound), and *)
(* lake switch.                                                            *)

(* --infer-storage-from-cluster reads the classes of the context of the    *)
(* command line, else of the active one; spec.json is not asked.           *)
InferClass(option) ==
    LET k == IF option = NoContext THEN current ELSE option IN
    /\ "inferred" \in Creating
    /\ active = NoValue /\ product = NoValue
    /\ inferred = NoValue
    /\ served[k] # {}
    /\ inferred' = [option |-> option, context |-> k,
                    class |-> InferredClass(served[k])]
    /\ UNCHANGED <<clusterVars, target, product, active, checkVars>>

(* The prompts have been answered: write the product, then the target.     *)
Create(a, option, from) ==
    /\ product' = [config |-> MinimalProduct(a), source |-> from]
    /\ target' = IF option = NoContext THEN target ELSE option
    /\ inferred' = NoValue
    /\ UNCHANGED <<clusterVars, active, checkVars>>

CreateInferred ==
    /\ inferred # NoValue
    /\ \E a \in Answers :
        /\ a.dynamic = inferred.class
        /\ a.provisioning = inferred.class
        /\ Create(a, inferred.option, inferred)

CreateTyped(option) ==
    /\ "typed" \in Creating
    /\ active = NoValue /\ product = NoValue
    /\ inferred = NoValue
    /\ \E a \in Answers : Create(a, option, NoValue)

(* lake switch: make the product the active one.                           *)
Switch ==
    /\ product # NoValue
    /\ Consistent(product.config)
    /\ active' = product
    /\ UNCHANGED <<clusterVars, target, inferred, product, checkVars>>

-----------------------------------------------------------------------------
(* lake verify and lake bootstrap.                                         *)

(* The context of the command line, else that of spec.json; bootstrap has  *)
(* no option and falls back on the active context.                         *)
TargetOf(command, option) ==
    IF option # NoContext THEN option
    ELSE IF target = NoContext /\ command = "bootstrap" THEN current
    ELSE target

(* Mutant: the first list of pods is number zero.                          *)
StartPreflight_FromZero(command, option) ==
    LET k == TargetOf(command, option) IN
    /\ ppc # "checking"
    /\ active # NoValue
    /\ command = "bootstrap" => option = NoContext
    /\ k # NoContext
    /\ Acceptable(active.config)
    /\ ppc' = "checking"
    /\ plan' = active
    /\ on' = k
    /\ at' = 1
    /\ scan' = 0
    /\ met' = Held(k)
    /\ lacked' = Requirements \ Held(k)
    /\ target' = IF command = "bootstrap" THEN k ELSE target
    /\ UNCHANGED <<clusterVars, inferred, product, active>>

(* Bootstrap keeps the context it has found.  When manual TLS is selected  *)
(* the certificates are in order.                                          *)
StartPreflight(command, option) ==
    LET k == TargetOf(command, option) IN
    /\ ppc # "checking"
    /\ active # NoValue
    /\ command = "bootstrap" => option = NoContext
    /\ k # NoContext
    /\ Acceptable(active.config)
    /\ ppc' = "checking"
    /\ plan' = active
    /\ on' = k
    /\ at' = 1
    /\ scan' = 1
    /\ met' = Held(k)
    /\ lacked' = Requirements \ Held(k)
    /\ target' = IF command = "bootstrap" THEN k ELSE target
    /\ UNCHANGED <<clusterVars, inferred, product, active>>

(* No context, a fullspec that does not validate, certificates missing.    *)
RefusePreflight ==
    /\ ppc # "checking"
    /\ active # NoValue
    /\ \/ target = NoContext
       \/ ~Acceptable(active.config)
       \/ Selects(active.config, "manual_tls")
    /\ ppc' = "refused"
    /\ UNCHANGED <<clusterVars, createVars, plan, on, at, scan, met, lacked>>

Checking == ppc = "checking"
End(outcome) == ppc' = outcome /\ UNCHANGED <<at, scan>>

CheckMet ==
    /\ Checking
    /\ Current.kind \notin denied
    /\ CheckHolds(Current)
    /\ \/ at < Len(Checks) /\ at' = at + 1 /\ scan' = 1 /\ UNCHANGED ppc
       \/ at = Len(Checks) /\ End("passed")
    /\ UNCHANGED <<clusterVars, createVars, plan, on, met, lacked>>

(* Mutant: the list of all pods is not tried.                              *)
CheckUnmet_LabelsOnly ==
    /\ Checking
    /\ Current.kind \notin denied
    /\ ~CheckHolds(Current)
    /\ Current = Controller => scan >= Len(Selectors)
    /\ End("unmet")
    /\ UNCHANGED <<clusterVars, createVars, plan, on, met, lacked>>

CheckUnmet ==
    /\ Checking
    /\ Current.kind \notin denied
    /\ ~CheckHolds(Current)
    /\ Current = Controller => scan > Len(Selectors)
    /\ End("unmet")
    /\ UNCHANGED <<clusterVars, createVars, plan, on, met, lacked>>

(* No Ready controller in this list: try the next.                         *)
NextScan ==
    /\ Checking
    /\ Current = Controller
    /\ Current.kind \notin denied
    /\ ~CheckHolds(Current)
    /\ scan <= Len(Selectors)
    /\ scan' = scan + 1
    /\ UNCHANGED <<clusterVars, createVars, ppc, plan, on, at, met, lacked>>

(* 403 is a failure of its own; any other API error fails as well.         *)
CheckFails ==
    /\ Checking
    /\ \/ Current.kind \in denied /\ End("forbidden")
       \/ Current.kind \notin denied /\ End("error")
    /\ UNCHANGED <<clusterVars, createVars, plan, on, met, lacked>>

-----------------------------------------------------------------------------
(* The cluster and the kubeconfig.                                         *)

Change ==
    /\ changes < MaxChanges
    /\ changes' = changes + 1
    /\ UNCHANGED <<denied, createVars, ppc, plan, on, at, scan>>
    /\ met' = IF Checking THEN met \cup Held(on)' ELSE met
    /\ lacked' = IF Checking THEN lacked \cup (Requirements \ Held(on)') ELSE lacked

HealthChanges ==
    /\ \E o \in Objects : \E h \in HealthOf(o) \ {health[o]} :
            health' = [health EXCEPT ![o] = h]
    /\ UNCHANGED <<served, ready, current, dropped>>
    /\ Change

PodTurns ==
    /\ \E p \in Pods : ready' = IF p \in ready THEN ready \ {p} ELSE ready \cup {p}
    /\ UNCHANGED <<served, health, current, dropped>>
    /\ Change

ClassesChange ==
    /\ \E k \in Contexts, s \in StorageClasses :
        \/ /\ s \in served[k]
           /\ served' = [served EXCEPT ![k] = @ \ {s}]
           /\ dropped' = dropped \cup {[context |-> k, class |-> s]}
        \/ /\ s \notin served[k]
           /\ served' = [served EXCEPT ![k] = @ \cup {s}]
           /\ UNCHANGED dropped
    /\ UNCHANGED <<health, ready, current>>
    /\ Change

UseContext ==
    /\ \E k \in Contexts \ {current} : current' = k
    /\ UNCHANGED <<served, health, ready, dropped>>
    /\ Change

-----------------------------------------------------------------------------
Commands == {"verify", "bootstrap"}

PreflightNext ==
    \/ \E option \in Contexts \cup {NoContext} :
        \/ InferClass(option)
        \/ CreateTyped(option)
        \/ \E command \in Commands : StartPreflight(command, option)
    \/ CreateInferred
    \/ Switch
    \/ RefusePreflight
    \/ CheckMet
    \/ CheckUnmet
    \/ NextScan
    \/ CheckFails
    \/ HealthChanges
    \/ PodTurns
    \/ ClassesChange
    \/ UseContext

PreflightSpec == PreflightInit /\ [][PreflightNext]_preflightVars

-----------------------------------------------------------------------------
(* Whatever is typed at the prompts and whatever the cluster offers, a     *)
(* minimal product is one that verify and bootstrap accept: the generator, *)
(* the inference and the three validations agree.                          *)
GeneratedIsAccepted == product # NoValue => Acceptable(product.config)

(* Everything the lake described by c depends on.  Its volume claims read  *)
(* the newer of the two keys.                                              *)
Needed(c) ==
    {Namespace, IngressClass, Controller}
    \cup {Ask("class", s) : s \in {c.dynamic, c.volume} \ {NoValue}}
    \cup IF ~Selects(c, "cert_manager") THEN {}
         ELSE {o \in Objects : o.kind \in {"crd", "deployment"}}
              \cup {Ask("issuer", c.issuer)}

(* The older key, if it is there, takes the place of the newer in the      *)
(* checks; the class is still asked for when the other key names it too.   *)
Asked(c) ==
    {r \in Needed(c) :
        c.provisioning # NoValue /\ r = Ask("class", c.volume) => c.volume = c.dynamic}

(* A preflight that passes has seen all of it, but for a class of volumes  *)
(* hidden by the older key: each requirement of the fullspec it read held  *)
(* at a moment of the run, in the context it read, whatever was switched,  *)
(* repaired or broken meanwhile.                                           *)
PassedWasMet == ppc = "passed" => Asked(plan.config) \subseteq met

(* deployment_config.py, configured_storage_class_names: "Check both PVC   *)
(* storage classes used by the render": a preflight that passes has seen   *)
(* the classes that the volume claims name.                                *)
UsedClassesAreChecked ==
    ppc = "passed" =>
        \A r \in Needed(plan.config) : r.kind = "class" => r \in met

(* A preflight raises no false alarm: what it says is missing was missing  *)
(* at a moment of the run.  An ingress controller that is being replaced,  *)
(* one pod Ready at every moment, is found by one of the lists.            *)
RefusalIsFounded == ppc = "unmet" => Current \in lacked

(* An inferred storage class is one the cluster it was read from serves:   *)
(* the check refuses it there only after it was deleted.                   *)
InferredIsServed ==
    LET from == plan.source IN
    (/\ ppc = "unmet"
     /\ from # NoValue
     /\ on = from.context
     /\ Current = Ask("class", from.class))
    => [context |-> on, class |-> from.class] \in dropped
=============================================================================
