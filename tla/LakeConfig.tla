----------------------------- MODULE LakeConfig -----------------------------
(***************************************************************************)
(* The part of a fullspec that decides what its cluster has to offer: the  *)
(* URL scheme, the TLS mode, the MinIO client and the storage classes; how *)
(* `lake create --minimal` makes it and how `lake verify` validates it.    *)
(***************************************************************************)
EXTENDS Integers, Sequences, SequencesExt

CONSTANTS
    StorageClasses,  \* names of storage classes
    Issuers,         \* names of ClusterIssuers
    NoValue,         \* a field the fullspec does not define
    NameOrder,       \* the storage classes sorted by name
    PreferredOrder,  \* those an inference prefers, best first
    Defaults         \* those annotated as the default class

ASSUME ConfigAssumption ==
    /\ NameOrder \in Seq(StorageClasses)
    /\ PreferredOrder \in Seq(StorageClasses)
    /\ \A s \in StorageClasses : \E i \in 1..Len(NameOrder) : NameOrder[i] = s
    /\ Defaults \subseteq StorageClasses
    /\ NoValue \notin StorageClasses \cup Issuers

TlsModes == {"no_tls", "cert_manager", "manual_tls"}

(* "other" stands for a value the validation does not know, "short" for a  *)
(* MinIO user of fewer than three characters; tlsNames says whether all    *)
(* four manual TLS Secret names are defined.                               *)
Configs ==
    [scheme : {"http", "https", "other"},
     tls : Seq(TlsModes \cup {"other"}),
     issuer : Issuers \cup {NoValue},
     tlsNames : BOOLEAN,
     minioUser : {"root", "short", NoValue},
     insecure : {"true", "false", NoValue},
     dynamic : StorageClasses \cup {NoValue},
     provisioning : StorageClasses \cup {NoValue},
     volume : StorageClasses \cup {NoValue}]

Selects(c, mode) == \E i \in 1..Len(c.tls) : c.tls[i] = mode
-----------------------------------------------------------------------------
(* Validation.                                                             *)

(* Scheme, TLS mode and MinIO settings fit together.                       *)
Consistent(c) ==
    /\ c.scheme \in {"http", "https"}
    /\ Len(c.tls) = 1
    /\ c.tls[1] \in TlsModes
    /\ c.minioUser = "root"
    /\ c.scheme = "http" => c.tls[1] = "no_tls" /\ c.insecure = "true"
    /\ c.scheme = "https" => c.tls[1] # "no_tls"
    /\ c.tls[1] = "manual_tls" => c.tlsNames

(* Two keys name the class of the volumes; the older one wins.             *)
ProvisioningClass(c) ==
    IF c.provisioning # NoValue THEN c.provisioning ELSE c.volume

StorageDefined(c) == c.dynamic # NoValue /\ ProvisioningClass(c) # NoValue

(* The distinct classes, in the order they are checked.                    *)
StorageClassNames(c) ==
    IF c.dynamic = ProvisioningClass(c)
    THEN <<c.dynamic>>
    ELSE <<c.dynamic, ProvisioningClass(c)>>

IssuerDefined(c) == Selects(c, "cert_manager") => c.issuer # NoValue
ClusterIssuer(c) == IF Selects(c, "cert_manager") THEN c.issuer ELSE NoValue

Acceptable(c) == Consistent(c) /\ StorageDefined(c) /\ IssuerDefined(c)
-----------------------------------------------------------------------------
(* Generation.                                                             *)

(* What the prompts return: none of them lets an empty value through, and  *)
(* a plain HTTP product is asked for no issuer.                            *)
Answers ==
    {a \in [scheme : {"http", "https"}, issuer : Issuers \cup {NoValue},
            insecure : {"true", "false"},
            dynamic : StorageClasses, provisioning : StorageClasses] :
        (a.scheme = "https") = (a.issuer # NoValue)}

(* Mutant: the answer to the MinIO prompt is taken as it is.               *)
MinimalProduct_TrustsInsecure(a) ==
    [scheme |-> a.scheme,
     tls |-> IF a.scheme = "https" THEN <<"cert_manager">> ELSE <<"no_tls">>,
     issuer |-> a.issuer,
     tlsNames |-> FALSE,
     minioUser |-> "root",
     insecure |-> a.insecure,
     dynamic |-> a.dynamic,
     provisioning |-> NoValue,
     volume |-> a.provisioning]

(* Two paths only: HTTP without TLS, where the MinIO client is insecure    *)
(* whatever was asked for, and HTTPS with cert-manager.  The MinIO user is *)
(* the feature model's default.                                            *)
MinimalProduct(a) ==
    [scheme |-> a.scheme,
     tls |-> IF a.scheme = "https" THEN <<"cert_manager">> ELSE <<"no_tls">>,
     issuer |-> a.issuer,
     tlsNames |-> FALSE,
     minioUser |-> "root",
     insecure |-> IF a.scheme = "http" THEN "true" ELSE a.insecure,
     dynamic |-> a.dynamic,
     provisioning |-> NoValue,
     volume |-> a.provisioning]

(* The first member of S in an order that has one.                         *)
FirstOf(order, S) ==
    CHOOSE s \in S :
        \E i \in DOMAIN order : order[i] = s /\ \A j \in 1..(i - 1) : order[j] \notin S

(* Mutant: the default class is taken from the preferences.                *)
InferredClass_AnyPreferred(S) == PreferredOrder[1]

(* The class an inference takes from the classes S of a cluster: a default *)
(* one, else a preferred one, else the first by name.                      *)
InferredClass(S) ==
    CASE S \cap Defaults # {} -> FirstOf(NameOrder, S \cap Defaults)
      [] S \cap Defaults = {} /\ S \cap ToSet(PreferredOrder) # {} ->
            FirstOf(PreferredOrder, S)
      [] S \cap (Defaults \cup ToSet(PreferredOrder)) = {} -> FirstOf(NameOrder, S)
=============================================================================
