---------------------------- MODULE MCLakeSecrets ----------------------------
(* Small instances of LakeSecrets: lakes with the default names, and with  *)
(* one or two names that somebody chose.                                   *)
EXTENDS LakeSecrets

Clean == [cert |-> "pem", key |-> "pem", match |-> TRUE]
Mismatch == [cert |-> "pem", key |-> "pem", match |-> FALSE]
NoFile == [cert |-> "pem", key |-> "missing", match |-> FALSE]

Selection(optional, cluster) ==
    [support |-> TRUE, core |-> <<"keycloak", "ckan", "redis">>,
     optional |-> optional, cluster |-> cluster,
     root |-> DefaultNames,
     section |-> [x \in Named |-> ""]]

Lake(selection, overrides, manual, pairs) ==
    [selection |-> selection,
     names |-> SecretNames(overrides),
     clients |-> [KC_API_CLIENT_NAME |-> "stelar-api",
                  KC_MINIO_CLIENT_NAME |-> "minio", KC_CKAN_CLIENT_NAME |-> "ckan"],
     manual |-> manual,
     groqKey |-> TRUE,
     pairs |-> pairs]

TlsNames ==
    [PRIMARY_TLS |-> Plain("tls1"), KEYCLOAK_TLS |-> Plain("tls2"),
     MINIO_API_TLS |-> Plain("tls3"), REGISTRY_TLS |-> Plain("tls4")]
AllClean == [f \in ToSet(TlsFields) |-> Clean]
LlmName == [GROQ_API_KEY |-> Plain("groq")]

Ordinary == Selection(<<>>, <<>>)

(* Defaults; manual TLS, with and without good files; the optional Secret. *)
Default == Lake(Ordinary, <<>>, FALSE, AllClean)
Tls == Lake(Ordinary, TlsNames, TRUE, AllClean)
BadTls ==
    {Lake(Ordinary, TlsNames, TRUE, [AllClean EXCEPT !["REGISTRY_TLS"] = p]) :
        p \in {Mismatch, NoFile}}
NoTlsName == Lake(Ordinary, <<>>, TRUE, AllClean)
Optional == Lake(Selection(<<"llm_search", "sde">>, <<"previewer">>), LlmName, FALSE, AllClean)
NoGroqKey == [Optional EXCEPT !.groqKey = FALSE]

(* Names that collide: with the name of another field, in the same key or  *)
(* another, and with a Secret of an init job.                              *)
Colliding ==
    {Lake(Ordinary, [CKAN_DB_PASSWORD |-> n], FALSE, AllClean) :
        n \in {Plain("postgresdb-secret"), Plain("session-secret-key"),
               Plain("ckan-auth-secret"), Plain("stelar-admin-id"),
               ClientSecret("minio")}}

(* A component that comes as a Helm chart, which status does not inspect.  *)
Charted == Lake(Selection(<<"airflow">>, <<"prometheus">>), <<>>, FALSE, AllClean)

(* The parts of sde under names of their own; a section of previewer.      *)
Renamed ==
    [Optional EXCEPT !.selection.root["kafka"] = "events",
                     !.selection.section["kafka"] = "queue",
                     !.selection.section["previewer"] = "viewer"]

Repeated == Lake(Selection(<<"sde", "sde">>, <<>>), <<>>, FALSE, AllClean)

MCLakes ==
    {Default, Tls, NoTlsName, Optional, NoGroqKey, Charted, Renamed,
     Repeated} \cup BadTls \cup Colliding
=============================================================================
