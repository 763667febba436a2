----------------------------- MODULE LakeSecrets -----------------------------
(***************************************************************************)
(* The Secrets of one lake by name: which fields of a fullspec name them,  *)
(* what is in each, who creates them (`lake bootstrap`, the init jobs of   *)
(* the deployed lake), who looks for them (`lake status`) and who deletes  *)
(* them (`lake unbootstrap`) - four lists the code keeps in four places.   *)
(* Names are chosen freely and may collide, with one another or with those *)
(* of the init jobs.  One command runs at a time and the selection stays   *)
(* the same: LakeCluster has the interleavings, over names that differ.    *)
(*                                                                         *)
(* A name is a base and a suffix, "-client-secret" or none.                *)
(***************************************************************************)
EXTENDS Integers, FiniteSets, LakeComponents

CONSTANTS
    Lakes,      \* the lakes there may be
    NoName      \* a name that is empty or not defined

Plain(base) == [base |-> base, suffix |-> ""]
ClientSecret(client) == [base |-> client, suffix |-> "-client-secret"]

(* The fields that name Secrets and the key of the value, in the order the *)
(* Secrets are created.                                                    *)
ProductSecretFields ==
    <<[field |-> "POSTGRES_DB_PASSWORD", key |-> "password"],
      [field |-> "CKAN_DB_PASSWORD", key |-> "password"],
      [field |-> "KEYCLOAK_DB_PASSWORD", key |-> "password"],
      [field |-> "DATASTORE_DB_PASSWORD", key |-> "password"],
      [field |-> "QUAY_DB_PASSWORD", key |-> "password"],
      [field |-> "KEYCLOAK_ROOT_PASSWORD", key |-> "password"],
      [field |-> "SMTP_PASSWORD", key |-> "password"],
      [field |-> "SESSION_SECRET_KEY", key |-> "key"],
      [field |-> "CKAN_ADMIN_PASSWORD", key |-> "password"],
      [field |-> "MINIO_ROOT_PASSWORD", key |-> "password"]>>

TlsFields == <<"PRIMARY_TLS", "KEYCLOAK_TLS", "MINIO_API_TLS", "REGISTRY_TLS">>
Clients == {"KC_API_CLIENT_NAME", "KC_MINIO_CLIENT_NAME", "KC_CKAN_CLIENT_NAME"}

Fields ==
    {ProductSecretFields[i].field : i \in DOMAIN ProductSecretFields}
    \cup ToSet(TlsFields) \cup {"GROQ_API_KEY", "CKAN_AUTH"}

DefaultSecretNames ==
    [POSTGRES_DB_PASSWORD |-> "postgresdb-secret",
     CKAN_DB_PASSWORD |-> "ckandb-secret",
     DATASTORE_DB_PASSWORD |-> "datastoredb-secret",
     KEYCLOAK_DB_PASSWORD |-> "keycloakdb-secret",
     QUAY_DB_PASSWORD |-> "quaydb-secret",
     SMTP_PASSWORD |-> "smtpapi-secret",
     SESSION_SECRET_KEY |-> "session-secret-key",
     CKAN_ADMIN_PASSWORD |-> "ckanadmin-secret",
     CKAN_AUTH |-> "ckan-auth-secret",
     KEYCLOAK_ROOT_PASSWORD |-> "keycloakroot-secret",
     MINIO_ROOT_PASSWORD |-> "minioroot-secret"]

(* The names of a minimal product: what a prompt returns, which is not     *)
(* empty, or else the default.  TLS and GROQ names have no default.        *)
SecretNames(overrides) ==
    [f \in Fields |->
        IF f \in DOMAIN overrides THEN overrides[f]
        ELSE IF f \in DOMAIN DefaultSecretNames THEN Plain(DefaultSecretNames[f])
        ELSE NoName]

(* A certificate and its key: each missing, not PEM or PEM; do they match? *)
FileKinds == {"missing", "not_pem", "pem"}
Pairs == [cert : FileKinds, key : FileKinds, match : BOOLEAN]
Usable(pair) == pair.cert = "pem" /\ pair.key = "pem" /\ pair.match

(* A lake: what its fullspec selects and names, whether it uses manual     *)
(* TLS, and the operator's files and values.                               *)
ASSUME LakesAssumption ==
    \A c \in Lakes :
        /\ c.selection \in Selections
        /\ DOMAIN c.names = Fields
        /\ DOMAIN c.clients = Clients
        /\ c.manual \in BOOLEAN
        /\ c.groqKey \in BOOLEAN
        /\ c.pairs \in [ToSet(TlsFields) -> Pairs]

Llm(c) == "llm_search" \in SelectedComponents(c.selection)

-----------------------------------------------------------------------------
(* What bootstrap creates, in order.                                       *)
Entry(name, keys) == [name |-> name, keys |-> keys]

ProductSecrets(c) ==
    [i \in DOMAIN ProductSecretFields |->
        Entry(c.names[ProductSecretFields[i].field], {ProductSecretFields[i].key})]
    \o (IF Llm(c) THEN <<Entry(c.names["GROQ_API_KEY"], {"key"})>> ELSE <<>>)

ManualTlsSecrets(c) ==
    IF c.manual
    THEN [i \in DOMAIN TlsFields |-> Entry(c.names[TlsFields[i]], {"tls.crt", "tls.key"})]
    ELSE <<>>

(* Mutant: the optional Secret is not created.                             *)
Plan_WithoutOptional(c) ==
    SubSeq(ProductSecrets(c), 1, Len(ProductSecretFields))
    \o <<Entry(c.names["CKAN_AUTH"], {"session-key", "jwt-key"})>>
    \o ManualTlsSecrets(c)

Plan(c) ==
    ProductSecrets(c)
    \o <<Entry(c.names["CKAN_AUTH"], {"session-key", "jwt-key"})>>
    \o ManualTlsSecrets(c)

(* What the guard, `lake status` and `lake unbootstrap` expect of it.      *)
ExpectedFields(c) ==
    {ProductSecretFields[i].field : i \in DOMAIN ProductSecretFields}
    \cup {"CKAN_AUTH"}
    \cup (IF Llm(c) THEN {"GROQ_API_KEY"} ELSE {})
    \cup (IF c.manual THEN ToSet(TlsFields) ELSE {})

ExpectedNames(c) == {c.names[f] : f \in ExpectedFields(c)}
NamesDefined(c) == NoName \notin ExpectedNames(c)

(* What the init jobs of the rendered components create.                   *)
InitJobSecrets(c) ==
    (IF Job("kcinit") \in Rendered(c.selection)
     THEN {ClientSecret(c.clients[k]) : k \in Clients} \cup {Plain("stelar-admin-id")}
     ELSE {})
    \cup (IF Job("ckaninit") \in Rendered(c.selection)
          THEN {Plain("ckan-admin-token-secret")} ELSE {})

(* Mutant: the Secret of the CKAN init job is forgotten.                   *)
InitGeneratedNames_KeycloakOnly(c) ==
    IF "keycloak" \in SelectedComponents(c.selection)
    THEN {ClientSecret(c.clients[k]) : k \in Clients} \cup {Plain("stelar-admin-id")}
    ELSE {}

(* What unbootstrap takes them to create.                                  *)
InitGeneratedNames(c) ==
    (IF "keycloak" \in SelectedComponents(c.selection)
     THEN {ClientSecret(c.clients[k]) : k \in Clients} \cup {Plain("stelar-admin-id")}
     ELSE {})
    \cup (IF "ckan" \in SelectedComponents(c.selection)
          THEN {Plain("ckan-admin-token-secret")} ELSE {})

(* No two Secrets of the lake have one name.                               *)
NamesDiffer(c) ==
    LET plan == Plan(c) IN
    /\ \A i, j \in DOMAIN plan : plan[i].name = plan[j].name => i = j
    /\ \A i \in DOMAIN plan : plan[i].name \notin InitJobSecrets(c)

-----------------------------------------------------------------------------
VARIABLES
    lake,       \* the lake
    phase,      \* of the bootstrap: "idle" when none runs
    at,         \* index in the plan of the Secret to create next
    blind,      \* it could not read Secrets and takes no conflict
    made,       \* history: the names this bootstrap created
    ended,      \* how the last bootstrap ended
    secrets,    \* the Secrets there are: names and keys
    recorded,   \* the state ConfigMap exists
    deployed    \* the manifests are applied

secretsVars == <<lake, phase, at, blind, made, ended, secrets, recorded, deployed>>

Names == {s.name : s \in secrets}
Holds(entry) == \E s \in secrets : s.name = entry.name /\ entry.keys \subseteq s.keys

SecretsTypeOK ==
    /\ lake \in Lakes
    /\ phase \in {"idle", "tls", "values", "create", "record"}
    /\ at \in Nat
    /\ phase = "create" => at \in DOMAIN Plan(lake)
    /\ blind \in BOOLEAN
    /\ made \subseteq ExpectedNames(lake)
    /\ ended \in {"never", "state", "input", "cluster", "success"}
    /\ Names \subseteq ExpectedNames(lake) \cup InitJobSecrets(lake)
    /\ recorded \in BOOLEAN
    /\ deployed \in BOOLEAN

SecretsInit ==
    /\ lake \in Lakes
    /\ phase = "idle"
    /\ at = 1
    /\ blind = FALSE
    /\ made = {}
    /\ ended = "never"
    /\ secrets = {}
    /\ recorded = FALSE
    /\ deployed = FALSE

-----------------------------------------------------------------------------
(* Mutant: the certificates are read when they are needed.                 *)
PhaseAfter_TlsLast(p) ==
    CASE p = "idle" -> "values"
      [] p = "values" -> "create"
      [] p = "create" -> "tls"
      [] p = "tls" -> "record"

PhaseAfter(p) ==
    CASE p = "idle" -> "tls"
      [] p = "tls" -> "values"
      [] p = "values" -> "create"
      [] p = "create" -> "record"

GoOn == phase' = PhaseAfter(phase)

End(how) ==
    /\ phase' = "idle"
    /\ ended' = how
    /\ UNCHANGED <<lake, at, blind, made, secrets, deployed>>

(* A lake that is recorded is refused, and one of whose Secrets some       *)
(* exist; when the reads are forbidden the bootstrap goes on blind.        *)
StartBootstrap ==
    /\ phase = "idle"
    /\ ~recorded
    /\ NamesDefined(lake)
    /\ \/ blind' = FALSE /\ ExpectedNames(lake) \cap Names = {}
       \/ blind' = TRUE
    /\ GoOn
    /\ at' = 1
    /\ made' = {}
    /\ UNCHANGED <<lake, ended, secrets, recorded, deployed>>

RefuseBootstrap ==
    /\ phase = "idle"
    /\ \/ (recorded \/ ExpectedNames(lake) \cap Names # {}) /\ ended' = "state"
       \/ ~recorded /\ ~NamesDefined(lake) /\ ended' = "input"
    /\ made' = {}
    /\ UNCHANGED <<lake, phase, at, blind, secrets, recorded, deployed>>

(* All the files of manual TLS are read before anything is created.        *)
ReadManualTls ==
    /\ phase = "tls"
    /\ \/ /\ lake.manual => \A f \in ToSet(TlsFields) : Usable(lake.pairs[f])
          /\ GoOn
          /\ UNCHANGED <<lake, at, blind, made, ended, secrets, deployed>>
       \/ /\ lake.manual /\ \E f \in ToSet(TlsFields) : ~Usable(lake.pairs[f])
          /\ End("input")
    /\ UNCHANGED recorded

(* The values are generated or prompted for, which the operator may break  *)
(* off; the key of GROQ comes from the fullspec.                           *)
GetValues ==
    /\ phase = "values"
    /\ \/ /\ Llm(lake) => lake.groqKey
          /\ GoOn
          /\ UNCHANGED <<lake, at, blind, made, ended, secrets, deployed>>
       \/ End("input")
    /\ UNCHANGED recorded

(* Mutant: one step past the last Secret.                                  *)
Advance_PastLast ==
    \/ at <= Len(Plan(lake)) /\ at' = at + 1 /\ UNCHANGED phase
    \/ at = Len(Plan(lake)) /\ GoOn /\ UNCHANGED at

(* On to the next Secret, or to the record.                                *)
Advance ==
    \/ at < Len(Plan(lake)) /\ at' = at + 1 /\ UNCHANGED phase
    \/ at = Len(Plan(lake)) /\ GoOn /\ UNCHANGED at

CreateSecret ==
    LET entry == Plan(lake)[at] IN
    /\ phase = "create"
    /\ entry.name \notin Names
    /\ secrets' = secrets \cup {entry}
    /\ made' = made \cup {entry.name}
    /\ Advance
    /\ UNCHANGED <<lake, blind, ended, recorded, deployed>>

(* Mutant: a conflict is taken for a Secret that is there already.         *)
SkipSecret_EvenBlind ==
    /\ phase = "create"
    /\ Plan(lake)[at].name \in Names
    /\ Advance
    /\ UNCHANGED <<lake, blind, made, ended, secrets, recorded, deployed>>

SkipSecret ==
    /\ phase = "create"
    /\ ~blind
    /\ Plan(lake)[at].name \in Names
    /\ Advance
    /\ UNCHANGED <<lake, blind, made, ended, secrets, recorded, deployed>>

(* A conflict when blind, an API error at any time.                        *)
BootstrapFails ==
    /\ phase \in {"create", "record"}
    /\ End("cluster")
    /\ UNCHANGED recorded

Record ==
    /\ phase = "record"
    /\ recorded' = TRUE
    /\ End("success")

(* tk apply, and tk delete.                                                *)
Deploy ==
    /\ ~deployed
    /\ Renders(lake.selection)
    /\ RootNamesDefined(lake.selection)
    /\ deployed' = TRUE
    /\ UNCHANGED <<lake, phase, at, blind, made, ended, secrets, recorded>>

Undeploy ==
    /\ deployed
    /\ deployed' = FALSE
    /\ UNCHANGED <<lake, phase, at, blind, made, ended, secrets, recorded>>

RunInitJob ==
    /\ deployed
    /\ \E n \in InitJobSecrets(lake) \ Names :
         secrets' = secrets \cup {Entry(n, {"init"})}
    /\ UNCHANGED <<lake, phase, at, blind, made, ended, recorded, deployed>>

(* From the record, or from the selection when there is none.              *)
Unbootstrap ==
    /\ phase = "idle"
    /\ NamesDefined(lake)
    /\ secrets' = {s \in secrets :
                     s.name \notin ExpectedNames(lake) \cup InitGeneratedNames(lake)}
    /\ recorded' = FALSE
    /\ UNCHANGED <<lake, phase, at, blind, made, ended, deployed>>

SecretsNext ==
    \/ StartBootstrap
    \/ RefuseBootstrap
    \/ ReadManualTls
    \/ GetValues
    \/ CreateSecret
    \/ SkipSecret
    \/ BootstrapFails
    \/ Record
    \/ Deploy
    \/ Undeploy
    \/ RunInitJob
    \/ Unbootstrap

SecretsSpec == SecretsInit /\ [][SecretsNext]_secretsVars

-----------------------------------------------------------------------------
(* A recorded lake has every value the manifests read, at its key: unless  *)
(* two of its Secrets have one name, and even then when the bootstrap was  *)
(* blind, for it stops at the conflict.                                    *)
RecordedIsComplete ==
    recorded /\ (NamesDiffer(lake) \/ blind) =>
        \A i \in DOMAIN Plan(lake) : Holds(Plan(lake)[i])

(* lake status finds every Secret it expects of a recorded lake, whichever *)
(* names collide: it never reports as partial what bootstrap recorded.     *)
StatusFindsAll == recorded => ExpectedNames(lake) \subseteq Names

(* When unbootstrap deletes, it deletes all there is: what any bootstrap   *)
(* or init job of the lake created, however far they got.                  *)
CleanupLeavesNothing ==
    [][secrets' \subseteq secrets /\ secrets' # secrets => secrets' = {}]_secretsVars

(* A bootstrap that ends at the operator's input, for a name that is       *)
(* missing or a certificate file or a value that is unusable, has created  *)
(* no Secret (cluster.py, bootstrap_lake).  Whether Kubernetes allows a    *)
(* name is not looked at: the API refuses it, perhaps after others.        *)
InputErrorsCreateNothing == ended = "input" /\ phase = "idle" => made = {}

(* lake status expects every workload of the deployed manifests, but for a *)
(* component that its report names as not inspected, and for a visualizer  *)
(* or previewer whose section names another Deployment.                    *)
DeployedIsInspected ==
    deployed =>
        \A x \in SelectedComponents(lake.selection) \ UncheckedComponents(lake.selection) :
            \A w \in Manifest(lake.selection, x) :
                \/ w \in ExpectedWorkloads(lake.selection)
                \/ /\ x \in {"visualizer", "previewer"}
                   /\ lake.selection.section[x] \notin {"", lake.selection.root[x]}
=============================================================================
