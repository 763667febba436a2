------------------------ MODULE LakePreflightProofs ------------------------
(***************************************************************************)
(* Proofs about LakePreflight: generated products are accepted, inferred   *)
(* classes are served, and the verdict of a preflight is founded, for any  *)
(* fullspecs, contexts, pods and classes, however often the cluster moves. *)
(***************************************************************************)
EXTENDS LakePreflight, WellFoundedInduction, TLAPS

(* The members of a sequence.                                              *)
RangeOf(s) == {s[i] : i \in 1..Len(s)}

LEMMA RangeIsSet ==
    ASSUME NEW S, NEW s \in Seq(S)
    PROVE  ToSet(s) = RangeOf(s)
<1>1. DOMAIN s = 1..Len(s)
  OBVIOUS
<1> QED
  BY <1>1 DEF ToSet, RangeOf

LEMMA JoinedRange ==
    ASSUME NEW S, NEW s \in Seq(S), NEW t \in Seq(S)
    PROVE  /\ s \o t \in Seq(S)
           /\ RangeOf(s \o t) = RangeOf(s) \cup RangeOf(t)
           /\ Len(s) > 0 => Len(s \o t) > 0
<1>1. s \o t \in Seq(S) /\ Len(s \o t) = Len(s) + Len(t) /\ Len(s) \in Nat /\ Len(t) \in Nat
  OBVIOUS
<1>2. \A i \in 1..Len(s) + Len(t) :
        (s \o t)[i] = IF i <= Len(s) THEN s[i] ELSE t[i - Len(s)]
  OBVIOUS
<1>3. ASSUME NEW x \in RangeOf(s \o t) PROVE x \in RangeOf(s) \cup RangeOf(t)
  <2>1. PICK i \in 1..Len(s) + Len(t) : x = (s \o t)[i]
    BY <1>1 DEF RangeOf
  <2>2. CASE i <= Len(s)
    <3>1. i \in 1..Len(s) /\ x = s[i]
      BY <1>1, <1>2, <2>1, <2>2
    <3> QED
      BY <3>1 DEF RangeOf
  <2>3. CASE ~(i <= Len(s))
    <3>1. i - Len(s) \in 1..Len(t) /\ x = t[i - Len(s)]
      BY <1>1, <1>2, <2>1, <2>3
    <3> QED
      BY <3>1 DEF RangeOf
  <2> QED
    BY <2>2, <2>3
<1>4. ASSUME NEW i \in 1..Len(s) PROVE s[i] \in RangeOf(s \o t)
  <2>1. i \in 1..Len(s) + Len(t) /\ (s \o t)[i] = s[i]
    BY <1>1, <1>2, <1>4
  <2> QED
    BY <1>1, <2>1 DEF RangeOf
<1>5. ASSUME NEW i \in 1..Len(t) PROVE t[i] \in RangeOf(s \o t)
  <2>1. Len(s) + i \in 1..Len(s) + Len(t) /\ ~(Len(s) + i <= Len(s))
        /\ (Len(s) + i) - Len(s) = i
    BY <1>1, <1>5
  <2>2. (s \o t)[Len(s) + i] = t[i]
    BY <1>2, <2>1
  <2> QED
    BY <1>1, <2>1, <2>2 DEF RangeOf
<1>6. RangeOf(s \o t) = RangeOf(s) \cup RangeOf(t)
  BY <1>3, <1>4, <1>5 DEF RangeOf
<1>7. Len(s) > 0 => Len(s \o t) > 0
  BY <1>1
<1> QED
  BY <1>1, <1>6, <1>7

(* A nonempty set of numbers has a least one.                              *)
LEMMA LeastNumber ==
    ASSUME NEW T \in SUBSET Nat, T # {}
    PROVE  \E n \in T : \A m \in T : ~(m < n)
<1>1. PICK n \in T : \A m \in T : <<m, n>> \notin OpToRel(<, Nat)
  BY NatLessThanWellFounded, WFMin
<1> QED
  BY <1>1 DEF OpToRel

LEMMA FirstOfIsMember ==
    ASSUME NEW S, NEW order \in Seq(StorageClasses), RangeOf(order) \cap S # {}
    PROVE  FirstOf(order, S) \in S
<1> DEFINE T == {i \in 1..Len(order) : order[i] \in S}
<1>1. T \in SUBSET Nat /\ T # {} /\ DOMAIN order = 1..Len(order)
  BY DEF RangeOf
<1>2. PICK i \in T : \A j \in T : ~(j < i)
  BY <1>1, LeastNumber
<1>3. \A j \in 1..(i - 1) : order[j] \notin S
  BY <1>2
<1>4. \E s \in S :
        \E k \in DOMAIN order : order[k] = s /\ \A j \in 1..(k - 1) : order[j] \notin S
  BY <1>1, <1>2, <1>3
<1> QED
  BY <1>4 DEF FirstOf

(* What is inferred from the classes of a cluster is one of them.          *)
LEMMA InferredClassIsServed ==
    ASSUME NEW S \in SUBSET StorageClasses, S # {}
    PROVE  InferredClass(S) \in S
<1>1. /\ NameOrder \in Seq(StorageClasses) /\ PreferredOrder \in Seq(StorageClasses)
      /\ \A s \in StorageClasses : s \in RangeOf(NameOrder)
      /\ ToSet(PreferredOrder) = RangeOf(PreferredOrder)
  <2>1. NameOrder \in Seq(StorageClasses) /\ PreferredOrder \in Seq(StorageClasses)
    BY ConfigAssumption
  <2>2. \A s \in StorageClasses : s \in RangeOf(NameOrder)
    BY ConfigAssumption DEF RangeOf
  <2>3. ToSet(PreferredOrder) = RangeOf(PreferredOrder)
    BY <2>1, RangeIsSet
  <2> QED
    BY <2>1, <2>2, <2>3
<1>2. CASE S \cap Defaults # {}
  <2>1. RangeOf(NameOrder) \cap (S \cap Defaults) # {}
    BY <1>1, <1>2
  <2>2. FirstOf(NameOrder, S \cap Defaults) \in S \cap Defaults
    BY <1>1, <2>1, FirstOfIsMember
  <2> QED
    BY <1>2, <2>2 DEF InferredClass
<1>3. CASE S \cap Defaults = {} /\ S \cap ToSet(PreferredOrder) # {}
  <2>1. FirstOf(PreferredOrder, S) \in S
    BY <1>1, <1>3, FirstOfIsMember
  <2> QED
    BY <1>3, <2>1 DEF InferredClass
<1>4. CASE S \cap (Defaults \cup ToSet(PreferredOrder)) = {}
  <2>1. RangeOf(NameOrder) \cap S # {}
    BY <1>1
  <2>2. FirstOf(NameOrder, S) \in S
    BY <1>1, <2>1, FirstOfIsMember
  <2> QED
    BY <1>4, <2>2 DEF InferredClass
<1> QED
  BY <1>2, <1>3, <1>4

-----------------------------------------------------------------------------
(* The checks of an acceptable fullspec ask for all that its lake needs.   *)

LEMMA ClassChecks ==
    ASSUME NEW c \in Configs, StorageDefined(c)
    PROVE  LET B == [i \in 1..Len(StorageClassNames(c)) |->
                        Ask("class", StorageClassNames(c)[i])]
           IN  /\ B \in Seq(Requirements)
               /\ Ask("class", c.dynamic) \in RangeOf(B)
               /\ Ask("class", ProvisioningClass(c)) \in RangeOf(B)
<1> DEFINE N == StorageClassNames(c)
           P == ProvisioningClass(c)
           B == [i \in 1..Len(N) |-> Ask("class", N[i])]
<1>1. c.dynamic \in StorageClasses /\ P \in StorageClasses
  BY DEF StorageDefined, Configs, ProvisioningClass
<1>2. /\ N \in Seq(StorageClasses) /\ Len(N) \in {1, 2} /\ N[1] = c.dynamic
      /\ N[Len(N)] = P
  <2>1. CASE c.dynamic = P
    BY <1>1, <2>1 DEF StorageClassNames
  <2>2. CASE c.dynamic # P
    BY <1>1, <2>2 DEF StorageClassNames
  <2> QED
    BY <2>1, <2>2
<1> HIDE DEF N, P
<1>3. \A s \in StorageClasses : Ask("class", s) \in Requirements
  BY DEF Requirements
<1>4. B \in Seq(Requirements) /\ Len(B) = Len(N) /\ \A i \in 1..Len(N) : B[i] = Ask("class", N[i])
  BY <1>2, <1>3
<1>5. B[1] = Ask("class", c.dynamic) /\ B[Len(N)] = Ask("class", P)
  BY <1>2, <1>4
<1>6. 1 \in 1..Len(N) /\ Len(N) \in 1..Len(N)
  BY <1>2
<1> QED
  BY <1>4, <1>5, <1>6 DEF RangeOf, N, P

LEMMA CertChecks ==
    LET E == [i \in 1..Len(Crds) |-> Ask("crd", Crds[i])]
        F == [i \in 1..Len(Deployments) |-> Ask("deployment", Deployments[i])]
    IN  /\ E \in Seq(Requirements) /\ F \in Seq(Requirements)
        /\ {o \in Objects : o.kind = "crd"} \subseteq RangeOf(E)
        /\ {o \in Objects : o.kind = "deployment"} \subseteq RangeOf(F)
<1> DEFINE E == [i \in 1..Len(Crds) |-> Ask("crd", Crds[i])]
           F == [i \in 1..Len(Deployments) |-> Ask("deployment", Deployments[i])]
<1>1. /\ Crds \in Seq(ToSet(Crds)) /\ Deployments \in Seq(ToSet(Deployments))
  BY PreflightAssumption
<1>2. ToSet(Crds) = RangeOf(Crds) /\ ToSet(Deployments) = RangeOf(Deployments)
  BY <1>1, RangeIsSet
<1>3. \A n \in ToSet(Crds) : Ask("crd", n) \in Requirements
  BY DEF Requirements, Objects
<1>4. \A n \in ToSet(Deployments) : Ask("deployment", n) \in Requirements
  BY DEF Requirements, Objects
<1>5. E \in Seq(Requirements) /\ Len(E) = Len(Crds)
      /\ \A i \in 1..Len(Crds) : E[i] = Ask("crd", Crds[i])
  BY <1>1, <1>3
<1>6. F \in Seq(Requirements) /\ Len(F) = Len(Deployments)
      /\ \A i \in 1..Len(Deployments) : F[i] = Ask("deployment", Deployments[i])
  BY <1>1, <1>4
<1>7. \A o \in Objects :
        /\ o.kind = "crd" => \E n \in ToSet(Crds) : o = Ask("crd", n)
        /\ o.kind = "deployment" => \E n \in ToSet(Deployments) : o = Ask("deployment", n)
  BY DEF Objects, Ask, Namespace, IngressClass
<1> HIDE DEF E, F
<1>8. ASSUME NEW o \in Objects, o.kind = "crd" PROVE o \in RangeOf(E)
  <2>1. PICK n \in RangeOf(Crds) : o = Ask("crd", n)
    BY <1>2, <1>7, <1>8
  <2>2. PICK i \in 1..Len(Crds) : n = Crds[i]
    BY DEF RangeOf
  <2> QED
    BY <1>5, <2>1, <2>2 DEF RangeOf
<1>9. ASSUME NEW o \in Objects, o.kind = "deployment" PROVE o \in RangeOf(F)
  <2>1. PICK n \in RangeOf(Deployments) : o = Ask("deployment", n)
    BY <1>2, <1>7, <1>9
  <2>2. PICK i \in 1..Len(Deployments) : n = Deployments[i]
    BY DEF RangeOf
  <2> QED
    BY <1>6, <2>1, <2>2 DEF RangeOf
<1> QED
  BY <1>5, <1>6, <1>8, <1>9 DEF E, F

LEMMA ChecksCover ==
    ASSUME NEW c \in Configs, Acceptable(c)
    PROVE  /\ ChecksOf(c) \in Seq(Requirements)
           /\ Len(ChecksOf(c)) > 0
           /\ Asked(c) \subseteq RangeOf(ChecksOf(c))
<1> DEFINE A == <<Namespace>>
           B == [i \in 1..Len(StorageClassNames(c)) |->
                    Ask("class", StorageClassNames(c)[i])]
           C == <<IngressClass, Controller>>
           E == [i \in 1..Len(Crds) |-> Ask("crd", Crds[i])]
           F == [i \in 1..Len(Deployments) |-> Ask("deployment", Deployments[i])]
           G == <<Ask("issuer", ClusterIssuer(c))>>
           D == IF ClusterIssuer(c) = NoValue THEN <<>> ELSE E \o F \o G
<1>1. /\ B \in Seq(Requirements)
      /\ Ask("class", c.dynamic) \in RangeOf(B)
      /\ Ask("class", ProvisioningClass(c)) \in RangeOf(B)
  BY ClassChecks DEF Acceptable
<1>2. /\ E \in Seq(Requirements) /\ F \in Seq(Requirements)
      /\ {o \in Objects : o.kind = "crd"} \subseteq RangeOf(E)
      /\ {o \in Objects : o.kind = "deployment"} \subseteq RangeOf(F)
  BY CertChecks
<1>3. Namespace \in Requirements /\ IngressClass \in Requirements
      /\ Controller \in Requirements
  BY DEF Requirements, Objects
<1>4. A \in Seq(Requirements) /\ Namespace \in RangeOf(A) /\ Len(A) = 1
  BY <1>3 DEF RangeOf
<1>5. C \in Seq(Requirements) /\ IngressClass \in RangeOf(C) /\ Controller \in RangeOf(C)
  <2>1. C \in Seq(Requirements) /\ Len(C) = 2 /\ C[1] = IngressClass /\ C[2] = Controller
    BY <1>3
  <2> QED
    BY <2>1 DEF RangeOf
<1>6. D \in Seq(Requirements)
      /\ (Selects(c, "cert_manager") =>
            /\ {o \in Objects : o.kind \in {"crd", "deployment"}} \subseteq RangeOf(D)
            /\ Ask("issuer", c.issuer) \in RangeOf(D))
  <2>1. CASE ClusterIssuer(c) = NoValue
    <3>1. ~Selects(c, "cert_manager")
      BY <2>1 DEF ClusterIssuer, Acceptable, IssuerDefined
    <3> QED
      BY <2>1, <3>1
  <2>2. CASE ClusterIssuer(c) # NoValue
    <3>1. ClusterIssuer(c) = c.issuer /\ c.issuer \in Issuers
      BY <2>2 DEF ClusterIssuer, Configs
    <3>2. Ask("issuer", c.issuer) \in Requirements
      BY <3>1 DEF Requirements, Objects
    <3>3. G \in Seq(Requirements) /\ Ask("issuer", c.issuer) \in RangeOf(G)
      BY <3>1, <3>2 DEF RangeOf
    <3> HIDE DEF E, F, G
    <3> DEFINE EF == E \o F
    <3>4. EF \in Seq(Requirements) /\ RangeOf(EF) = RangeOf(E) \cup RangeOf(F)
      BY <1>2, JoinedRange
    <3> HIDE DEF EF
    <3>5. EF \o G \in Seq(Requirements) /\ RangeOf(EF \o G) = RangeOf(EF) \cup RangeOf(G)
      BY <3>3, <3>4, JoinedRange
    <3>6. D = EF \o G
      BY <2>2 DEF EF
    <3> QED
      BY <1>2, <3>3, <3>4, <3>5, <3>6
  <2> QED
    BY <2>1, <2>2
<1> HIDE DEF A, B, C, D
<1> DEFINE AB == A \o B
           ABC == AB \o C
<1>7. AB \in Seq(Requirements) /\ RangeOf(AB) = RangeOf(A) \cup RangeOf(B) /\ Len(AB) > 0
  <2>1. Len(A) > 0
    BY <1>4
  <2> QED
    BY <1>1, <1>4, <2>1, JoinedRange
<1> HIDE DEF AB
<1>8. ABC \in Seq(Requirements) /\ RangeOf(ABC) = RangeOf(AB) \cup RangeOf(C) /\ Len(ABC) > 0
  BY <1>5, <1>7, JoinedRange
<1> HIDE DEF ABC
<1>9. /\ ABC \o D \in Seq(Requirements)
      /\ RangeOf(ABC \o D) = RangeOf(ABC) \cup RangeOf(D)
      /\ Len(ABC \o D) > 0
  BY <1>6, <1>8, JoinedRange
<1>10. ChecksOf(c) = ABC \o D
  BY DEF ChecksOf, A, B, C, D, AB, ABC
<1>11. ASSUME NEW r \in Asked(c) PROVE r \in RangeOf(ChecksOf(c))
  <2>1. CASE r = Ask("class", c.volume) /\ c.provisioning = NoValue
    <3>1. r = Ask("class", ProvisioningClass(c))
      BY <2>1 DEF ProvisioningClass
    <3> QED
      BY <1>1, <1>7, <1>8, <1>9, <1>10, <3>1
  <2>2. CASE r \in {Namespace, IngressClass, Controller, Ask("class", c.dynamic)}
    BY <1>1, <1>4, <1>5, <1>7, <1>8, <1>9, <1>10, <2>2
  <2>3. CASE Selects(c, "cert_manager")
             /\ r \in {o \in Objects : o.kind \in {"crd", "deployment"}}
                        \cup {Ask("issuer", c.issuer)}
    BY <1>6, <1>9, <1>10, <2>3
  <2> QED
    BY <1>11, <2>1, <2>2, <2>3 DEF Asked, Needed
<1> QED
  BY <1>9, <1>10, <1>11

-----------------------------------------------------------------------------
(* The invariant.                                                          *)

Answered == {"checking", "passed", "unmet", "forbidden", "error"}

Typed == PreflightTypeOK /\ plan \in Fullspecs \cup {NoValue}

(* The class of an inference is still served, or it has been deleted.      *)
Served(i) ==
    i.class \in served[i.context] \/ [context |-> i.context, class |-> i.class] \in dropped

Sourced ==
    /\ inferred # NoValue => Served(inferred)
    /\ \A f \in {product, active, plan} :
            f # NoValue /\ f.source # NoValue => Served(f.source)

(* A preflight that has begun is at one of its checks.                     *)
Begun ==
    ppc \in Answered => /\ plan \in Fullspecs /\ plan # NoValue
                       /\ Acceptable(plan.config)
                       /\ at \in 1..Len(Checks)

(* The histories know what holds now, and what has been checked.           *)
Observed ==
    Checking => /\ Held(on) \subseteq met
                /\ Requirements \ Held(on) \subseteq lacked
                /\ \A i \in 1..(at - 1) : Checks[i] \in met

PreflightInv ==
    /\ Typed
    /\ GeneratedIsAccepted
    /\ Sourced
    /\ Begun
    /\ Observed
    /\ PassedWasMet
    /\ RefusalIsFounded
    /\ InferredIsServed

(* What the cluster does.                                                  *)
ClusterMoves == HealthChanges \/ PodTurns \/ ClassesChange \/ UseContext
-----------------------------------------------------------------------------
(* What `lake create --minimal` makes.                                     *)

LEMMA MinimalIsAccepted ==
    ASSUME NEW a \in Answers
    PROVE  MinimalProduct(a) \in Configs /\ Acceptable(MinimalProduct(a))
<1> DEFINE c == MinimalProduct(a)
<1>1. /\ a.scheme \in {"http", "https"} /\ a.issuer \in Issuers \cup {NoValue}
      /\ a.insecure \in {"true", "false"} /\ a.dynamic \in StorageClasses
      /\ a.provisioning \in StorageClasses
      /\ (a.scheme = "https") = (a.issuer # NoValue)
      /\ NoValue \notin StorageClasses \cup Issuers
  BY ConfigAssumption DEF Answers
<1>2. /\ c.scheme = a.scheme /\ c.issuer = a.issuer /\ c.tlsNames = FALSE
      /\ c.minioUser = "root" /\ c.dynamic = a.dynamic /\ c.provisioning = NoValue
      /\ c.volume = a.provisioning
      /\ c.insecure = IF a.scheme = "http" THEN "true" ELSE a.insecure
      /\ c.tls = IF a.scheme = "https" THEN <<"cert_manager">> ELSE <<"no_tls">>
  BY DEF MinimalProduct
<1>3. c.tls \in Seq(TlsModes \cup {"other"}) /\ Len(c.tls) = 1
      /\ c.tls[1] = IF a.scheme = "https" THEN "cert_manager" ELSE "no_tls"
  <2>1. CASE a.scheme = "https"
    BY <1>2, <2>1 DEF TlsModes
  <2>2. CASE a.scheme # "https"
    BY <1>2, <2>2 DEF TlsModes
  <2> QED
    BY <2>1, <2>2
<1>4. c \in Configs
  BY <1>1, <1>2, <1>3 DEF MinimalProduct, Configs
<1>5. Consistent(c)
  BY <1>1, <1>2, <1>3 DEF Consistent, TlsModes
<1>6. StorageDefined(c)
  BY <1>1, <1>2 DEF StorageDefined, ProvisioningClass
<1>7. IssuerDefined(c)
  <2>1. Selects(c, "cert_manager") => c.tls[1] = "cert_manager"
    BY <1>3 DEF Selects
  <2> QED
    BY <1>1, <1>2, <1>3, <2>1 DEF IssuerDefined
<1> QED
  BY <1>4, <1>5, <1>6, <1>7 DEF Acceptable

LEMMA InitHolds == PreflightInit => PreflightInv
<1> SUFFICES ASSUME PreflightInit PROVE PreflightInv
  OBVIOUS
<1>1. active \in Fullspecs \cup {NoValue} /\ (active # NoValue => active.source = NoValue)
  BY PreflightAssumption DEF PreflightInit, Fullspecs
<1>2. Typed
  <2>1. /\ served \in [Contexts -> SUBSET StorageClasses]
        /\ health \in [Objects -> {"ready", "unready", "absent"}]
        /\ ready \subseteq Pods /\ denied \subseteq Kinds /\ current \in Contexts
    BY PreflightAssumption DEF PreflightInit
  <2>2. /\ changes \in 0..MaxChanges /\ dropped = {} /\ target \in Contexts \cup {NoContext}
        /\ at = 1 /\ scan \in 1..Len(Selectors) + 1
    BY PreflightAssumption DEF PreflightInit
  <2> QED
    BY <1>1, <2>1, <2>2 DEF Typed, PreflightTypeOK, PreflightInit
<1>3. Sourced
  BY <1>1 DEF Sourced, PreflightInit
<1> QED
  BY <1>2, <1>3 DEF PreflightInv, GeneratedIsAccepted, Begun, Answered, Observed,
      Checking, PassedWasMet, RefusalIsFounded, InferredIsServed, PreflightInit
-----------------------------------------------------------------------------
(* Type correctness, one step at a time.                                   *)

LEMMA ClusterTyped ==
    ASSUME Typed, ClusterMoves
    PROVE  Typed'
<1>1. /\ changes' \in 0..MaxChanges
      /\ UNCHANGED <<denied, createVars, ppc, plan, on, at, scan>>
  BY PreflightAssumption DEF ClusterMoves, HealthChanges, PodTurns, ClassesChange,
      UseContext, Change, Typed, PreflightTypeOK
<1>2. met' \subseteq Requirements /\ lacked' \subseteq Requirements
  BY DEF ClusterMoves, HealthChanges, PodTurns, ClassesChange, UseContext, Change,
      Typed, PreflightTypeOK, Held
<1>3. health' \in [Objects -> {"ready", "unready", "absent"}] /\ ready' \subseteq Pods
      /\ current' \in Contexts
  BY DEF ClusterMoves, HealthChanges, PodTurns, ClassesChange, UseContext,
      Typed, PreflightTypeOK, HealthOf
<1>4. served' \in [Contexts -> SUBSET StorageClasses]
      /\ dropped' \subseteq [context : Contexts, class : StorageClasses]
  BY DEF ClusterMoves, HealthChanges, PodTurns, ClassesChange, UseContext,
      Typed, PreflightTypeOK
<1> QED
  BY <1>1, <1>2, <1>3, <1>4 DEF Typed, PreflightTypeOK, createVars, Acceptable

LEMMA CreateTyping ==
    ASSUME Typed, NEW a \in Answers, NEW option \in Contexts \cup {NoContext},
           NEW from \in Inferences \cup {NoValue}, Create(a, option, from)
    PROVE  Typed' /\ product' = [config |-> MinimalProduct(a), source |-> from]
<1>1. product' = [config |-> MinimalProduct(a), source |-> from]
      /\ product' \in Fullspecs
  BY MinimalIsAccepted DEF Create, Fullspecs
<1>2. target' \in Contexts \cup {NoContext} /\ inferred' = NoValue
  BY DEF Create, Typed, PreflightTypeOK
<1>3. UNCHANGED <<clusterVars, active, checkVars>>
  BY DEF Create
<1> QED
  BY <1>1, <1>2, <1>3 DEF Typed, PreflightTypeOK, clusterVars, checkVars

LEMMA InferredTyping ==
    ASSUME Typed, NEW option \in Contexts \cup {NoContext}, InferClass(option)
    PROVE  /\ Typed'
           /\ inferred' \in Inferences
           /\ inferred'.class \in served[inferred'.context]
<1> DEFINE k == IF option = NoContext THEN current ELSE option
<1>1. k \in Contexts /\ served[k] \in SUBSET StorageClasses /\ served[k] # {}
  BY DEF Typed, PreflightTypeOK, InferClass
<1>2. InferredClass(served[k]) \in served[k]
  BY <1>1, InferredClassIsServed
<1>3. inferred' = [option |-> option, context |-> k, class |-> InferredClass(served[k])]
      /\ UNCHANGED <<clusterVars, target, product, active, checkVars>>
  BY DEF InferClass
<1>4. inferred' \in Inferences /\ inferred'.class \in served[inferred'.context]
  BY <1>1, <1>2, <1>3 DEF Inferences
<1> QED
  BY <1>3, <1>4 DEF Typed, PreflightTypeOK, clusterVars, checkVars

LEMMA StartTyping ==
    ASSUME Typed, NEW option \in Contexts \cup {NoContext}, NEW command \in Commands,
           StartPreflight(command, option)
    PROVE  Typed'
<1>1. TargetOf(command, option) \in Contexts
  BY DEF StartPreflight, TargetOf, Typed, PreflightTypeOK
<1>2. active \in Fullspecs
  BY DEF StartPreflight, Typed, PreflightTypeOK
<1>3. /\ ppc' = "checking" /\ plan' = active /\ on' \in Contexts /\ at' = 1 /\ scan' = 1
      /\ target' \in Contexts \cup {NoContext} /\ Acceptable(plan'.config)
      /\ UNCHANGED <<clusterVars, inferred, product, active>>
  BY <1>1 DEF StartPreflight, Typed, PreflightTypeOK
<1>4. met' \subseteq Requirements /\ lacked' \subseteq Requirements
  BY DEF StartPreflight, Held
<1>5. scan' \in 1..Len(Selectors) + 1 /\ at' \in Nat \ {0}
  BY <1>3, PreflightAssumption
<1> QED
  BY <1>2, <1>3, <1>4, <1>5 DEF Typed, PreflightTypeOK, clusterVars

LEMMA CheckTyping ==
    ASSUME Typed, CheckMet \/ CheckUnmet \/ NextScan \/ CheckFails
    PROVE  Typed'
<1>1. UNCHANGED <<clusterVars, createVars, plan, on, met, lacked>>
  BY DEF CheckMet, CheckUnmet, NextScan, CheckFails
<1>2. ppc = "checking" /\ ppc' \in {"checking", "passed", "unmet", "forbidden", "error"}
  BY DEF CheckMet, CheckUnmet, NextScan, CheckFails, Checking, End
<1>3. at' \in Nat \ {0}
  BY DEF CheckMet, CheckUnmet, NextScan, CheckFails, End, Typed, PreflightTypeOK
<1>4. scan' \in 1..Len(Selectors) + 1
  BY PreflightAssumption DEF CheckMet, CheckUnmet, NextScan, CheckFails, End,
      Typed, PreflightTypeOK
<1> QED
  BY <1>1, <1>2, <1>3, <1>4 DEF Typed, PreflightTypeOK, clusterVars, createVars, Outcomes

LEMMA StepTyped ==
    ASSUME Typed, [PreflightNext]_preflightVars
    PROVE  Typed'
<1>1. CASE UNCHANGED preflightVars
  BY <1>1 DEF Typed, PreflightTypeOK, preflightVars, clusterVars, createVars, checkVars
<1>2. CASE \E option \in Contexts \cup {NoContext} : InferClass(option)
  BY <1>2, InferredTyping
<1>3. CASE \E option \in Contexts \cup {NoContext} : CreateTyped(option)
  BY <1>3, CreateTyping DEF CreateTyped
<1>4. CASE CreateInferred
  <2>1. inferred \in Inferences /\ inferred.option \in Contexts \cup {NoContext}
    BY <1>4 DEF CreateInferred, Typed, PreflightTypeOK, Inferences
  <2> QED
    BY <1>4, <2>1, CreateTyping DEF CreateInferred
<1>5. CASE Switch
  BY <1>5 DEF Switch, Typed, PreflightTypeOK, clusterVars, checkVars
<1>6. CASE \E option \in Contexts \cup {NoContext}, command \in Commands :
              StartPreflight(command, option)
  BY <1>6, StartTyping
<1>7. CASE RefusePreflight
  BY <1>7 DEF RefusePreflight, Typed, PreflightTypeOK, clusterVars, createVars, Outcomes
<1>8. CASE CheckMet \/ CheckUnmet \/ NextScan \/ CheckFails
  BY <1>8, CheckTyping
<1>9. CASE ClusterMoves
  BY <1>9, ClusterTyped
<1> QED
  BY <1>1, <1>2, <1>3, <1>4, <1>5, <1>6, <1>7, <1>8, <1>9 DEF PreflightNext, ClusterMoves
-----------------------------------------------------------------------------
(* Products and inferences.                                                *)

LEMMA StepAccepted ==
    ASSUME GeneratedIsAccepted, [PreflightNext]_preflightVars
    PROVE  GeneratedIsAccepted'
<1>1. CASE UNCHANGED product
  BY <1>1 DEF GeneratedIsAccepted
<1>2. CASE \E a \in Answers, option \in Contexts \cup {NoContext, inferred.option},
              from \in {inferred, NoValue} : Create(a, option, from)
  BY <1>2, MinimalIsAccepted DEF Create, GeneratedIsAccepted
<1>3. UNCHANGED product \/ CreateInferred \/ \E option \in Contexts \cup {NoContext} : CreateTyped(option)
  BY DEF PreflightNext, preflightVars, createVars, InferClass, Switch, StartPreflight,
      RefusePreflight, CheckMet, CheckUnmet, NextScan, CheckFails, HealthChanges,
      PodTurns, ClassesChange, UseContext, Change
<1> QED
  BY <1>1, <1>2, <1>3 DEF CreateInferred, CreateTyped

(* A class that disappears from a context is remembered.                   *)
LEMMA ServedStays ==
    ASSUME Typed, [PreflightNext]_preflightVars, NEW i \in Inferences, Served(i)
    PROVE  Served(i)'
<1>1. CASE UNCHANGED <<served, dropped>>
  BY <1>1 DEF Served
<1>2. CASE ClassesChange
  <2>1. PICK k \in Contexts, s \in StorageClasses :
            \/ /\ served' = [served EXCEPT ![k] = @ \ {s}]
               /\ dropped' = dropped \cup {[context |-> k, class |-> s]}
            \/ /\ served' = [served EXCEPT ![k] = @ \cup {s}]
               /\ UNCHANGED dropped
    BY <1>2 DEF ClassesChange
  <2>2. i.context \in Contexts /\ served \in [Contexts -> SUBSET StorageClasses]
    BY DEF Inferences, Typed, PreflightTypeOK
  <2>3. CASE i.context = k /\ i.class = s
    BY <2>1, <2>2, <2>3 DEF Served
  <2>4. CASE i.context # k \/ i.class # s
    BY <2>1, <2>2, <2>4 DEF Served
  <2> QED
    BY <2>3, <2>4
<1>3. UNCHANGED <<served, dropped>> \/ ClassesChange
  BY DEF PreflightNext, preflightVars, clusterVars, InferClass, CreateTyped, CreateInferred,
      Create, Switch, StartPreflight, RefusePreflight, CheckMet, CheckUnmet, NextScan,
      CheckFails, HealthChanges, PodTurns, UseContext
<1> QED
  BY <1>1, <1>2, <1>3

LEMMA StepSourced ==
    ASSUME Typed, Sourced, [PreflightNext]_preflightVars
    PROVE  Sourced'
<1>1. \A i \in Inferences : Served(i) => Served(i)'
  BY ServedStays
<1>2. /\ inferred \in Inferences \cup {NoValue}
      /\ \A f \in {product, active, plan} : f # NoValue => f \in Fullspecs
  BY DEF Typed, PreflightTypeOK
<1>3. \A f \in Fullspecs : f.source # NoValue => f.source \in Inferences
  BY DEF Fullspecs
<1>4. CASE UNCHANGED <<inferred, product>> /\ active' \in {active, product}
           /\ plan' \in {plan, active}
  BY <1>1, <1>2, <1>3, <1>4 DEF Sourced
<1>5. CASE \E option \in Contexts \cup {NoContext} : InferClass(option)
  <2>1. PICK option \in Contexts \cup {NoContext} : InferClass(option)
    BY <1>5
  <2>2. inferred' \in Inferences /\ inferred'.class \in served[inferred'.context]
    BY <2>1, InferredTyping
  <2>3. UNCHANGED <<served, dropped, product, active, plan>>
    BY <2>1 DEF InferClass, clusterVars, checkVars
  <2>4. Served(inferred)'
    BY <2>2, <2>3 DEF Served
  <2> QED
    BY <1>1, <1>2, <1>3, <2>3, <2>4 DEF Sourced
<1>6. CASE \E a \in Answers, option \in Contexts \cup {NoContext, inferred.option},
              from \in {inferred, NoValue} : Create(a, option, from)
  <2>1. PICK a \in Answers, option \in Contexts \cup {NoContext, inferred.option},
             from \in {inferred, NoValue} : Create(a, option, from)
    BY <1>6
  <2>2. product'.source = from /\ inferred' = NoValue /\ UNCHANGED <<active, plan>>
    BY <2>1 DEF Create, checkVars
  <2>3. from # NoValue => Served(from)'
    BY <1>1, <1>2 DEF Sourced
  <2> QED
    BY <1>1, <1>2, <1>3, <2>2, <2>3 DEF Sourced
<1>7. \/ UNCHANGED <<inferred, product>> /\ active' \in {active, product}
         /\ plan' \in {plan, active}
      \/ \E option \in Contexts \cup {NoContext} : InferClass(option)
      \/ CreateInferred
      \/ \E option \in Contexts \cup {NoContext} : CreateTyped(option)
  BY DEF PreflightNext, preflightVars, createVars, checkVars, Switch, StartPreflight,
      RefusePreflight, CheckMet, CheckUnmet, NextScan, CheckFails, HealthChanges,
      PodTurns, ClassesChange, UseContext, Change
<1> QED
  BY <1>4, <1>5, <1>6, <1>7 DEF CreateInferred, CreateTyped
-----------------------------------------------------------------------------
(* The preflight.                                                          *)

(* A preflight leaves the cluster alone; the cluster leaves the preflight. *)
LEMMA Quiet ==
    ASSUME [PreflightNext]_preflightVars
    PROVE  \/ UNCHANGED checkVars /\ UNCHANGED clusterVars
           \/ \E option \in Contexts \cup {NoContext}, command \in Commands :
                    StartPreflight(command, option)
           \/ RefusePreflight
           \/ CheckMet \/ CheckUnmet \/ NextScan \/ CheckFails
           \/ ClusterMoves
  BY DEF PreflightNext, preflightVars, InferClass, CreateTyped, CreateInferred, Create,
      Switch, ClusterMoves

LEMMA ClusterChanges == ClusterMoves => Change
  BY DEF ClusterMoves, HealthChanges, PodTurns, ClassesChange, UseContext

LEMMA HeldStays ==
    ASSUME UNCHANGED clusterVars, on' = on
    PROVE  Held(on)' = Held(on)
  BY DEF clusterVars, Held, Holds

LEMMA ChecksStay ==
    ASSUME plan' = plan
    PROVE  Checks' = Checks
  BY DEF Checks

LEMMA ChecksAreRequirements ==
    ASSUME Typed, Begun, ppc \in Answered
    PROVE  /\ Checks \in Seq(Requirements) /\ Len(Checks) > 0
           /\ Asked(plan.config) \subseteq RangeOf(Checks)
           /\ at \in 1..Len(Checks) /\ Current \in Requirements
<1>1. plan.config \in Configs /\ Acceptable(plan.config) /\ at \in 1..Len(Checks)
  BY DEF Begun, Fullspecs
<1>2. /\ Checks \in Seq(Requirements) /\ Len(Checks) > 0
      /\ Asked(plan.config) \subseteq RangeOf(Checks)
  BY <1>1, ChecksCover DEF Checks
<1> QED
  BY <1>1, <1>2 DEF Current

LEMMA StepBegun ==
    ASSUME Typed, Typed', Begun, [PreflightNext]_preflightVars
    PROVE  Begun'
<1>1. CASE UNCHANGED <<ppc, plan, at>>
  <2>1. Checks' = Checks
    BY <1>1, ChecksStay
  <2> QED
    BY <1>1, <2>1 DEF Begun, Answered
<1>2. CASE \E option \in Contexts \cup {NoContext}, command \in Commands :
              StartPreflight(command, option)
  <2>1. /\ plan' = active /\ active \in Fullspecs /\ active # NoValue
        /\ Acceptable(active.config) /\ at' = 1
    BY <1>2 DEF StartPreflight, Typed, PreflightTypeOK
  <2>2. Len(ChecksOf(active.config)) > 0
        /\ ChecksOf(active.config) \in Seq(Requirements)
    BY <2>1, ChecksCover DEF Fullspecs
  <2>3. at' \in 1..Len(Checks')
    BY <2>1, <2>2 DEF Checks
  <2> QED
    BY <2>1, <2>3 DEF Begun
<1>3. CASE RefusePreflight
  BY <1>3 DEF RefusePreflight, Begun, Answered
<1>4. CASE CheckMet \/ CheckUnmet \/ NextScan \/ CheckFails
  <2>1. ppc = "checking" /\ plan' = plan
    BY <1>4 DEF CheckMet, CheckUnmet, NextScan, CheckFails, Checking
  <2>2. Checks \in Seq(Requirements) /\ at \in 1..Len(Checks)
    BY <2>1, ChecksAreRequirements DEF Answered
  <2>3. at' = at \/ (at < Len(Checks) /\ at' = at + 1)
    BY <1>4 DEF CheckMet, CheckUnmet, NextScan, CheckFails, End
  <2>4. at' \in 1..Len(Checks) /\ Checks' = Checks
    BY <2>1, <2>2, <2>3, ChecksStay
  <2> QED
    BY <2>1, <2>4 DEF Begun, Answered
<1>5. CASE ClusterMoves
  BY <1>1, <1>5, ClusterChanges DEF Change
<1> QED
  BY <1>1, <1>2, <1>3, <1>4, <1>5, Quiet DEF checkVars

(* A check that holds has seen its requirement hold, one that fails for    *)
(* want of it has seen it fail.                                            *)
LEMMA CheckIsHonest ==
    ASSUME Typed, NEW r \in Requirements
    PROVE  /\ CheckHolds(r) => r \in Held(on)
           /\ ~CheckHolds(r) /\ (r = Controller => scan > Len(Selectors))
                => r \in Requirements \ Held(on)
<1>1. CASE r = Controller
  <2>1. r.kind = "controller"
    BY <1>1 DEF Controller, Ask
  <2>2. CheckHolds(r) = (Listed(scan) # {}) /\ Holds(r, on) = (ready \cap Named # {})
    BY <1>1, <2>1 DEF CheckHolds, Holds
  <2>3. Listed(scan) \subseteq ready \cap Named
        /\ (scan > Len(Selectors) => Listed(scan) = ready \cap Named)
    <3>1. scan \in Nat /\ Len(Selectors) \in Nat
      BY PreflightAssumption DEF Typed, PreflightTypeOK
    <3> QED
      BY <3>1 DEF Listed
  <2> QED
    BY <1>1, <2>2, <2>3 DEF Held
<1>2. CASE r # Controller
  BY <1>2 DEF CheckHolds, Held
<1> QED
  BY <1>1, <1>2

LEMMA StepObserved ==
    ASSUME Typed, Begun, Observed, [PreflightNext]_preflightVars
    PROVE  Observed'
<1>1. CASE UNCHANGED checkVars /\ UNCHANGED clusterVars
  BY <1>1, HeldStays, ChecksStay DEF Observed, Checking, checkVars
<1>2. CASE \E option \in Contexts \cup {NoContext}, command \in Commands :
              StartPreflight(command, option)
  <2>1. PICK k : /\ on' = k /\ at' = 1 /\ met' = Held(k) /\ lacked' = Requirements \ Held(k)
                 /\ UNCHANGED clusterVars
    BY <1>2 DEF StartPreflight
  <2>2. Held(on)' = Held(k)
    BY <2>1 DEF clusterVars, Held, Holds
  <2> QED
    BY <2>1, <2>2 DEF Observed
<1>3. CASE RefusePreflight
  BY <1>3 DEF RefusePreflight, Observed, Checking
<1>4. CASE CheckMet \/ CheckUnmet \/ NextScan \/ CheckFails
  <2>1. /\ ppc = "checking" /\ UNCHANGED <<plan, on, met, lacked>> /\ UNCHANGED clusterVars
    BY <1>4 DEF CheckMet, CheckUnmet, NextScan, CheckFails, Checking
  <2>2. /\ Held(on)' = Held(on) /\ Checks' = Checks
    BY <2>1, HeldStays, ChecksStay
  <2>3. Current \in Requirements /\ at \in 1..Len(Checks)
    BY <2>1, ChecksAreRequirements DEF Answered
  <2>4. CASE CheckMet /\ ppc' = "checking"
    <3>1. at' = at + 1 /\ CheckHolds(Current)
      BY <2>4 DEF CheckMet, End
    <3>2. Current \in met
      BY <2>1, <2>3, <3>1, CheckIsHonest DEF Observed, Checking
    <3>3. \A i \in 1..at : Checks[i] \in met
      BY <2>1, <2>3, <3>2 DEF Observed, Checking, Current
    <3> QED
      BY <2>1, <2>2, <2>3, <3>1, <3>3 DEF Observed, Checking
  <2>5. CASE at' = at
    BY <2>1, <2>2, <2>5 DEF Observed, Checking
  <2>6. CASE ppc' # "checking"
    BY <2>6 DEF Observed, Checking
  <2> QED
    BY <1>4, <2>4, <2>5, <2>6 DEF CheckMet, CheckUnmet, NextScan, CheckFails, End
<1>5. CASE ClusterMoves
  <2>1. /\ UNCHANGED <<ppc, plan, on, at>>
        /\ met' = IF Checking THEN met \cup Held(on)' ELSE met
        /\ lacked' = IF Checking THEN lacked \cup (Requirements \ Held(on)') ELSE lacked
    BY <1>5, ClusterChanges DEF Change
  <2>2. Checks' = Checks
    BY <2>1, ChecksStay
  <2> QED
    BY <2>1, <2>2 DEF Observed, Checking
<1> QED
  BY <1>1, <1>2, <1>3, <1>4, <1>5, Quiet

-----------------------------------------------------------------------------
(* The verdict.                                                            *)

LEMMA VerdictStays ==
    ASSUME [PreflightNext]_preflightVars
    PROVE  \/ UNCHANGED checkVars
           \/ UNCHANGED <<plan, on, at>> /\ ppc' = ppc
              /\ met \subseteq met' /\ lacked \subseteq lacked'
           \/ ppc' \in {"checking", "refused"}
           \/ CheckMet \/ CheckUnmet \/ CheckFails
<1>1. CASE ClusterMoves
  BY <1>1, ClusterChanges DEF Change
<1>2. CASE NextScan
  BY <1>2 DEF NextScan, Checking
<1> QED
  BY <1>1, <1>2, Quiet DEF StartPreflight, RefusePreflight

LEMMA StepPassed ==
    ASSUME Typed, Begun, Observed, PassedWasMet, [PreflightNext]_preflightVars
    PROVE  PassedWasMet'
<1>1. CASE CheckMet
  <2>1. Current \in Requirements /\ at \in 1..Len(Checks)
        /\ Asked(plan.config) \subseteq RangeOf(Checks)
    BY <1>1, ChecksAreRequirements DEF CheckMet, Checking, Answered
  <2>2. Current \in met
    BY <1>1, <2>1, CheckIsHonest DEF CheckMet, Observed
  <2>3. \A i \in 1..at : Checks[i] \in met
    BY <1>1, <2>1, <2>2 DEF CheckMet, Observed, Current
  <2>4. ppc' = "passed" => at = Len(Checks)
    BY <1>1 DEF CheckMet, Checking
  <2>5. ppc' = "passed" => Asked(plan.config) \subseteq met
    BY <2>1, <2>3, <2>4 DEF RangeOf
  <2>6. UNCHANGED <<plan, met>>
    BY <1>1 DEF CheckMet
  <2> QED
    BY <2>5, <2>6 DEF PassedWasMet
<1>2. CASE CheckUnmet \/ CheckFails
  BY <1>2 DEF CheckUnmet, CheckFails, End, PassedWasMet
<1>3. CASE UNCHANGED checkVars
  BY <1>3 DEF checkVars, PassedWasMet
<1>4. CASE ppc' = ppc /\ plan' = plan /\ met \subseteq met'
  BY <1>4 DEF PassedWasMet
<1>5. CASE ppc' \in {"checking", "refused"}
  BY <1>5 DEF PassedWasMet
<1> QED
  BY <1>1, <1>2, <1>3, <1>4, <1>5, VerdictStays

LEMMA StepRefused ==
    ASSUME Typed, Begun, Observed, RefusalIsFounded, [PreflightNext]_preflightVars
    PROVE  RefusalIsFounded'
<1>1. CASE CheckUnmet
  <2>1. Current \in Requirements
    BY <1>1, ChecksAreRequirements DEF CheckUnmet, Checking, Answered
  <2>2. Current \in Requirements \ Held(on)
    BY <1>1, <2>1, CheckIsHonest DEF CheckUnmet
  <2>3. Current \in lacked
    BY <1>1, <2>2 DEF CheckUnmet, Observed
  <2>4. UNCHANGED <<plan, at, lacked>>
    BY <1>1 DEF CheckUnmet, End
  <2>5. Current' = Current
    BY <2>4, ChecksStay DEF Current
  <2> QED
    BY <2>3, <2>4, <2>5 DEF RefusalIsFounded
<1>2. CASE CheckMet \/ CheckFails
  BY <1>2 DEF CheckMet, CheckFails, End, Checking, RefusalIsFounded
<1>3. CASE ppc' = ppc /\ UNCHANGED <<plan, at>> /\ lacked \subseteq lacked'
  BY <1>3, ChecksStay DEF RefusalIsFounded, Current
<1>4. CASE ppc' \in {"checking", "refused"}
  BY <1>4 DEF RefusalIsFounded
<1> QED
  BY <1>1, <1>2, <1>3, <1>4, VerdictStays DEF checkVars

LEMMA StepInferred ==
    ASSUME Typed, Sourced, Begun, InferredIsServed, [PreflightNext]_preflightVars
    PROVE  InferredIsServed'
<1>1. CASE CheckUnmet
  <2>1. plan \in Fullspecs /\ plan # NoValue
    BY <1>1 DEF CheckUnmet, Checking, Begun, Answered
  <2>2. UNCHANGED <<plan, on, at, dropped>> /\ ~CheckHolds(Current)
    BY <1>1 DEF CheckUnmet, End, clusterVars
  <2>3. Current' = Current
    BY <2>2, ChecksStay DEF Current
  <2>4. SUFFICES ASSUME plan.source # NoValue, on = plan.source.context,
                        Current = Ask("class", plan.source.class)
                 PROVE  [context |-> on, class |-> plan.source.class] \in dropped
    BY <2>2, <2>3 DEF InferredIsServed
  <2>5. Current.kind = "class" /\ Current.name = plan.source.class /\ Current # Controller
    BY <2>4 DEF Ask, Controller
  <2>6. plan.source.class \notin served[on]
    BY <2>2, <2>5 DEF CheckHolds, Holds
  <2> QED
    BY <2>1, <2>4, <2>6 DEF Sourced, Served
<1>2. CASE CheckMet \/ CheckFails
  BY <1>2 DEF CheckMet, CheckFails, End, Checking, InferredIsServed
<1>3. CASE ppc' = ppc /\ UNCHANGED <<plan, on, at>>
  <2>1. Current' = Current
    BY <1>3, ChecksStay DEF Current
  <2>2. dropped \subseteq dropped'
    BY DEF PreflightNext, preflightVars, clusterVars, InferClass, CreateTyped,
        CreateInferred, Create, Switch, StartPreflight, RefusePreflight, CheckMet,
        CheckUnmet, NextScan, CheckFails, HealthChanges, PodTurns, ClassesChange, UseContext
  <2> QED
    BY <1>3, <2>1, <2>2 DEF InferredIsServed
<1>4. CASE ppc' \in {"checking", "refused"}
  BY <1>4 DEF InferredIsServed
<1> QED
  BY <1>1, <1>2, <1>3, <1>4, VerdictStays DEF checkVars
-----------------------------------------------------------------------------
LEMMA StepHolds == PreflightInv /\ [PreflightNext]_preflightVars => PreflightInv'
<1> SUFFICES ASSUME PreflightInv, [PreflightNext]_preflightVars PROVE PreflightInv'
  OBVIOUS
<1>1. Typed'
  BY StepTyped DEF PreflightInv
<1>2. GeneratedIsAccepted' /\ Sourced'
  BY StepAccepted, StepSourced DEF PreflightInv
<1>3. Begun' /\ Observed'
  BY <1>1, StepBegun, StepObserved DEF PreflightInv
<1>4. PassedWasMet' /\ RefusalIsFounded' /\ InferredIsServed'
  BY StepPassed, StepRefused, StepInferred DEF PreflightInv
<1> QED
  BY <1>1, <1>2, <1>3, <1>4 DEF PreflightInv

THEOREM PreflightInvariant == PreflightSpec => []PreflightInv
  BY InitHolds, StepHolds, PTL DEF PreflightSpec

(* A preflight never leaves its types: it is always at one of its checks   *)
(* and lists of pods, with a fullspec that validates.                      *)
THEOREM PreflightType == PreflightSpec => []PreflightTypeOK
<1>1. PreflightInv => PreflightTypeOK
  BY DEF PreflightInv, Typed
<1> QED
  BY <1>1, PreflightInvariant, PTL

(* Whatever is typed at the prompts and whatever storage classes the       *)
(* clusters offer, a minimal product passes verify's own validation.       *)
THEOREM GeneratedAccepted == PreflightSpec => []GeneratedIsAccepted
<1>1. PreflightInv => GeneratedIsAccepted
  BY DEF PreflightInv
<1> QED
  BY <1>1, PreflightInvariant, PTL

(* The preflight refuses an inferred storage class, in the context it was  *)
(* read from, only after it was deleted there.                             *)
THEOREM InferredServed == PreflightSpec => []InferredIsServed
<1>1. PreflightInv => InferredIsServed
  BY DEF PreflightInv
<1> QED
  BY <1>1, PreflightInvariant, PTL

(* A preflight that passes has seen everything the lake depends on, but    *)
(* for a class of volumes hidden by the older key, hold at a moment of its *)
(* run, however often the cluster changes meanwhile.                       *)
THEOREM PassedMet == PreflightSpec => []PassedWasMet
<1>1. PreflightInv => PassedWasMet
  BY DEF PreflightInv
<1> QED
  BY <1>1, PreflightInvariant, PTL

(* What a preflight reports as missing was missing at a moment of its run. *)
THEOREM RefusalFounded == PreflightSpec => []RefusalIsFounded
<1>1. PreflightInv => RefusalIsFounded
  BY DEF PreflightInv
<1> QED
  BY <1>1, PreflightInvariant, PTL
=============================================================================
