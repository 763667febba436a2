--------------------------- MODULE LakeComponents ---------------------------
(***************************************************************************)
(* The components a fullspec selects, as the Python commands and the       *)
(* Jsonnet library each read them, and the workloads `lake status` expects *)
(* of them against those the manifests define.                             *)
(*                                                                         *)
(* A selection has the field support or not, and three lists of component  *)
(* names; root and section are the two places where a fullspec may name a  *)
(* Deployment, at its top level and in the section of the component; ""    *)
(* stands for no name.                                                     *)
(***************************************************************************)
EXTENDS Sequences, SequencesExt

SdeParts == {"kafka", "flink", "kafbat", "sdemanager"}
Named == SdeParts \cup {"visualizer", "previewer"}

Selections ==
    [support : BOOLEAN,
     core : Seq(STRING), optional : Seq(STRING), cluster : Seq(STRING),
     root : [Named -> STRING], section : [Named -> STRING]]

Listed(c) ==
    (IF c.support THEN <<"system">> ELSE <<>>) \o c.core \o c.optional \o c.cluster

(* dict.fromkeys: a component that is listed twice is selected once.       *)
SelectedComponents(c) == ToSet(Listed(c))

(* Jsonnet makes an object with one field for each listed component, and a *)
(* field that is defined twice is an error.                                *)
Renders(c) == IsInjective(Listed(c))

-----------------------------------------------------------------------------
Deployment(n) == [kind |-> "Deployment", name |-> n]
StatefulSet(n) == [kind |-> "StatefulSet", name |-> n]
Job(n) == [kind |-> "Job", name |-> n]

StaticWorkloads ==
    [postgres |-> {StatefulSet("db")},
     redis |-> {Deployment("redis")},
     solr |-> {StatefulSet("solr")},
     datapusher |-> {Deployment("datapusher")},
     ontop |-> {Deployment("ontop"), Job("ontopinit")},
     minio |-> {StatefulSet("minio")},
     keycloak |-> {Deployment("keycloak"), Job("kcinit")},
     api |-> {Deployment("stelarapi"), Job("apiinit")},
     ckan |-> {Deployment("ckan"), Job("ckaninit")},
     quay |-> {Deployment("quay"), Job("quayinit")},
     llm_search |-> {Deployment("llmsearch")}]

DefaultNames ==
    [kafka |-> "kafka-cluster", flink |-> "flink-cluster", kafbat |-> "kafbat",
     sdemanager |-> "sde-manager", visualizer |-> "visualizer",
     previewer |-> "previewer"]

(* The first name that is defined.                                         *)
FirstDefined(n1, n2, n3) == IF n1 # "" THEN n1 ELSE IF n2 # "" THEN n2 ELSE n3

(* Mutant: without a name of its own a part is not expected.               *)
SdeWorkloads_NamedOnly(c) ==
    {Deployment(c.section[p]) : p \in {q \in SdeParts : c.section[q] # ""}}

(* All four parts: the group sde.components is mandatory.                  *)
SdeWorkloads(c) ==
    {Deployment(FirstDefined(c.root[p], c.section[p], DefaultNames[p])) : p \in SdeParts}

WorkloadsOf(c, x) ==
    CASE x = "sde" -> SdeWorkloads(c)
      [] x \in {"visualizer", "previewer"} ->
            {Deployment(FirstDefined(c.section[x], c.root[x], DefaultNames[x]))}
      [] x \in DOMAIN StaticWorkloads -> StaticWorkloads[x]
      [] OTHER -> {}

ExpectedWorkloads(c) == UNION {WorkloadsOf(c, x) : x \in SelectedComponents(c)}

(* The components that the report names as not inspected.                  *)
UncheckedComponents(c) ==
    SelectedComponents(c) \ ({"sde", "visualizer", "previewer"} \cup DOMAIN StaticWorkloads)

-----------------------------------------------------------------------------
(* The workloads in the manifests: their names are those at the root of    *)
(* the fullspec, which a component that is rendered has to define.  What   *)
(* the Helm chart of airflow brings stands for one workload.               *)
RootNamesDefined(c) ==
    /\ "sde" \in SelectedComponents(c) => \A p \in SdeParts : c.root[p] # ""
    /\ \A x \in {"visualizer", "previewer"} \cap SelectedComponents(c) : c.root[x] # ""

Manifest(c, x) ==
    CASE x = "sde" -> {Deployment(c.root[p]) : p \in SdeParts}
      [] x \in {"visualizer", "previewer"} -> {Deployment(c.root[x])}
      [] x \in {"redis", "datapusher", "ontop", "keycloak", "api", "ckan", "quay",
                "llm_search"} ->
            {Deployment(CASE x = "api" -> "stelarapi"
                          [] x = "llm_search" -> "llmsearch"
                          [] OTHER -> x)}
            \cup (CASE x = "ontop" -> {Job("ontopinit")}
                    [] x = "keycloak" -> {Job("kcinit")}
                    [] x = "api" -> {Job("apiinit")}
                    [] x = "ckan" -> {Job("ckaninit")}
                    [] x = "quay" -> {Job("quayinit")}
                    [] OTHER -> {})
      [] x \in {"postgres", "solr", "minio"} ->
            {StatefulSet(IF x = "postgres" THEN "db" ELSE x)}
      [] x = "airflow" -> {[kind |-> "Chart", name |-> "airflow"]}
      [] OTHER -> {}

Rendered(c) == UNION {Manifest(c, x) : x \in SelectedComponents(c)}
=============================================================================
