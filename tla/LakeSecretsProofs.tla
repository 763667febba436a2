------------------------- MODULE LakeSecretsProofs -------------------------
(***************************************************************************)
(* Proofs about LakeSecrets, for any lakes: any names, colliding or not,   *)
(* any selection of components, any files.                                 *)
(***************************************************************************)
EXTENDS LakeSecrets, TLAPS

KeyNames == {"password", "key", "session-key", "jwt-key", "tls.crt", "tls.key"}

PlanEntries(c) == [name : {c.names[f] : f \in Fields}, keys : SUBSET KeyNames]

NamesOf(entries) == {entries[i].name : i \in DOMAIN entries}

-----------------------------------------------------------------------------
(* The plan, and the names the commands expect of it.                      *)

LEMMA FieldTable ==
    /\ DOMAIN ProductSecretFields = 1..10
    /\ \A i \in DOMAIN ProductSecretFields :
         /\ ProductSecretFields[i].field \in Fields
         /\ ProductSecretFields[i].key \in KeyNames
<1>1. DOMAIN ProductSecretFields = 1..10
  BY DEF ProductSecretFields
<1>2. \A i \in DOMAIN ProductSecretFields : ProductSecretFields[i].field \in Fields
  BY DEF Fields
<1>3. \A i \in 1..10 : ProductSecretFields[i].key \in KeyNames
  BY DEF ProductSecretFields, KeyNames
<1> QED
  BY <1>1, <1>2, <1>3

LEMMA TlsTable ==
    /\ DOMAIN TlsFields = 1..4
    /\ \A i \in DOMAIN TlsFields : TlsFields[i] \in Fields
    /\ ToSet(TlsFields) = {TlsFields[i] : i \in DOMAIN TlsFields}
<1>1. DOMAIN TlsFields = 1..4
  BY DEF TlsFields
<1>2. ToSet(TlsFields) = {TlsFields[i] : i \in DOMAIN TlsFields}
  BY DEF ToSet
<1>3. \A i \in DOMAIN TlsFields : TlsFields[i] \in Fields
  BY <1>2 DEF Fields
<1> QED
  BY <1>1, <1>2, <1>3

LEMMA IsPlanEntry ==
    ASSUME NEW c \in Lakes, NEW f \in Fields, NEW k \in SUBSET KeyNames
    PROVE  /\ Entry(c.names[f], k) \in PlanEntries(c)
           /\ Entry(c.names[f], k).name = c.names[f]
BY DEF Entry, PlanEntries

LEMMA IsSequence ==
    ASSUME NEW S, NEW n \in Nat, NEW s, s \in [1..n -> S]
    PROVE  s \in Seq(S) /\ Len(s) = n
OBVIOUS

LEMMA JoinedNames ==
    ASSUME NEW S, NEW s \in Seq(S), NEW t \in Seq(S)
    PROVE  /\ s \o t \in Seq(S)
           /\ Len(s \o t) = Len(s) + Len(t)
           /\ NamesOf(s \o t) = NamesOf(s) \cup NamesOf(t)
<1>1. s \o t \in Seq(S) /\ Len(s \o t) = Len(s) + Len(t)
  OBVIOUS
<1>2. DOMAIN s = 1..Len(s) /\ DOMAIN t = 1..Len(t) /\ DOMAIN (s \o t) = 1..(Len(s) + Len(t))
  BY <1>1
<1>3. \A i \in DOMAIN s : (s \o t)[i] = s[i] /\ i \in DOMAIN (s \o t)
  BY <1>2
<1>4. \A i \in DOMAIN t : (s \o t)[i + Len(s)] = t[i] /\ i + Len(s) \in DOMAIN (s \o t)
  BY <1>2
<1>5. \A i \in DOMAIN (s \o t) :
        \/ i \in DOMAIN s /\ (s \o t)[i] = s[i]
        \/ i - Len(s) \in DOMAIN t /\ (s \o t)[i] = t[i - Len(s)]
  BY <1>2
<1>6. NamesOf(s \o t) \subseteq NamesOf(s) \cup NamesOf(t)
  BY <1>5 DEF NamesOf
<1>7. NamesOf(s) \subseteq NamesOf(s \o t)
  BY <1>3, Zenon DEF NamesOf
<1>8. NamesOf(t) \subseteq NamesOf(s \o t)
  BY <1>4, Zenon DEF NamesOf
<1> QED
  BY <1>1, <1>6, <1>7, <1>8

LEMMA ProductNames ==
    ASSUME NEW c \in Lakes
    PROVE  /\ ProductSecrets(c) \in Seq(PlanEntries(c))
           /\ NamesOf(ProductSecrets(c)) =
                {c.names[ProductSecretFields[i].field] : i \in DOMAIN ProductSecretFields}
                \cup (IF Llm(c) THEN {c.names["GROQ_API_KEY"]} ELSE {})
<1> DEFINE fixed ==
        [i \in DOMAIN ProductSecretFields |->
            Entry(c.names[ProductSecretFields[i].field], {ProductSecretFields[i].key})]
           groq == IF Llm(c) THEN <<Entry(c.names["GROQ_API_KEY"], {"key"})>> ELSE <<>>
<1>1. \A i \in DOMAIN ProductSecretFields : fixed[i] \in PlanEntries(c)
  BY FieldTable, IsPlanEntry
<1>2. fixed \in Seq(PlanEntries(c))
  <2>1. fixed \in [1..10 -> PlanEntries(c)]
    BY <1>1, FieldTable
  <2> QED
    BY <2>1, IsSequence
<1>3. groq \in Seq(PlanEntries(c))
  <2>1. "GROQ_API_KEY" \in Fields /\ {"key"} \in SUBSET KeyNames
    BY DEF Fields, KeyNames
  <2>2. Entry(c.names["GROQ_API_KEY"], {"key"}) \in PlanEntries(c)
    BY <2>1, IsPlanEntry
  <2> QED
    BY <2>2
<1>4. NamesOf(fixed) =
        {c.names[ProductSecretFields[i].field] : i \in DOMAIN ProductSecretFields}
  <2>1. DOMAIN fixed = DOMAIN ProductSecretFields
    OBVIOUS
  <2>2. \A i \in DOMAIN fixed : fixed[i].name = c.names[ProductSecretFields[i].field]
    BY DEF Entry
  <2> HIDE DEF fixed
  <2> QED
    BY <2>1, <2>2 DEF NamesOf
<1>5. NamesOf(groq) = IF Llm(c) THEN {c.names["GROQ_API_KEY"]} ELSE {}
  <2>1. CASE Llm(c)
    <3>1. DOMAIN groq = {1} /\ groq[1].name = c.names["GROQ_API_KEY"]
      BY <2>1 DEF Entry
    <3> HIDE DEF groq
    <3> QED
      BY <2>1, <3>1 DEF NamesOf
  <2>2. CASE ~Llm(c)
    BY <2>2 DEF NamesOf
  <2> QED
    BY <2>1, <2>2
<1>6. ProductSecrets(c) = fixed \o groq
  BY DEF ProductSecrets
<1> HIDE DEF fixed, groq
<1>7. /\ fixed \o groq \in Seq(PlanEntries(c))
      /\ NamesOf(fixed \o groq) = NamesOf(fixed) \cup NamesOf(groq)
  BY <1>2, <1>3, JoinedNames, Zenon
<1> QED
  BY <1>4, <1>5, <1>6, <1>7

LEMMA TlsNames ==
    ASSUME NEW c \in Lakes
    PROVE  /\ ManualTlsSecrets(c) \in Seq(PlanEntries(c))
           /\ NamesOf(ManualTlsSecrets(c)) =
                IF c.manual THEN {c.names[f] : f \in ToSet(TlsFields)} ELSE {}
<1>1. CASE c.manual
  <2> DEFINE tls ==
          [i \in DOMAIN TlsFields |-> Entry(c.names[TlsFields[i]], {"tls.crt", "tls.key"})]
  <2>0. {"tls.crt", "tls.key"} \in SUBSET KeyNames
    BY DEF KeyNames
  <2>1. \A i \in DOMAIN TlsFields :
          tls[i] \in PlanEntries(c) /\ tls[i].name = c.names[TlsFields[i]]
    BY <2>0, TlsTable, IsPlanEntry
  <2>2. DOMAIN tls = DOMAIN TlsFields /\ DOMAIN tls = 1..4
    BY TlsTable
  <2>3. tls \in Seq(PlanEntries(c))
    <3>1. tls \in [1..4 -> PlanEntries(c)]
      BY <2>1, <2>2
    <3> QED
      BY <3>1, IsSequence
  <2>4. ManualTlsSecrets(c) = tls
    BY <1>1 DEF ManualTlsSecrets
  <2> HIDE DEF tls
  <2>5. NamesOf(tls) = {c.names[f] : f \in ToSet(TlsFields)}
    BY <2>1, <2>2, TlsTable DEF NamesOf
  <2> QED
    BY <1>1, <2>3, <2>4, <2>5
<1>2. CASE ~c.manual
  BY <1>2 DEF ManualTlsSecrets, NamesOf
<1> QED
  BY <1>1, <1>2

(* Two lists kept apart in the code agree: a bootstrap creates a Secret of *)
(* each name the other commands expect, and no other.                      *)
THEOREM PlanMatchesExpected ==
    ASSUME NEW c \in Lakes
    PROVE  /\ Plan(c) \in Seq(PlanEntries(c))
           /\ Len(Plan(c)) > 0
           /\ NamesOf(Plan(c)) = ExpectedNames(c)
<1> DEFINE auth == <<Entry(c.names["CKAN_AUTH"], {"session-key", "jwt-key"})>>
<1>1. auth \in Seq(PlanEntries(c)) /\ Len(auth) = 1
  <2>1. "CKAN_AUTH" \in Fields /\ {"session-key", "jwt-key"} \in SUBSET KeyNames
    BY DEF Fields, KeyNames
  <2>2. Entry(c.names["CKAN_AUTH"], {"session-key", "jwt-key"}) \in PlanEntries(c)
    BY <2>1, IsPlanEntry
  <2> QED
    BY <2>2
<1>2. NamesOf(auth) = {c.names["CKAN_AUTH"]}
  <2>1. DOMAIN auth = {1} /\ auth[1].name = c.names["CKAN_AUTH"]
    BY DEF Entry
  <2> HIDE DEF auth
  <2> QED
    BY <2>1 DEF NamesOf
<1>3. Plan(c) = (ProductSecrets(c) \o auth) \o ManualTlsSecrets(c)
  BY DEF Plan
<1> HIDE DEF auth
<1>4. /\ ProductSecrets(c) \o auth \in Seq(PlanEntries(c))
      /\ Len(ProductSecrets(c) \o auth) = Len(ProductSecrets(c)) + Len(auth)
      /\ NamesOf(ProductSecrets(c) \o auth) = NamesOf(ProductSecrets(c)) \cup NamesOf(auth)
  <2>1. ProductSecrets(c) \in Seq(PlanEntries(c)) /\ auth \in Seq(PlanEntries(c))
    BY <1>1, ProductNames
  <2> QED
    BY <2>1, JoinedNames, Zenon
<1>5. /\ Plan(c) \in Seq(PlanEntries(c))
      /\ Len(Plan(c)) = Len(ProductSecrets(c)) + Len(auth) + Len(ManualTlsSecrets(c))
      /\ NamesOf(Plan(c)) = NamesOf(ProductSecrets(c)) \cup {c.names["CKAN_AUTH"]}
                              \cup NamesOf(ManualTlsSecrets(c))
  <2>1. ManualTlsSecrets(c) \in Seq(PlanEntries(c))
    BY TlsNames
  <2>2. /\ Plan(c) \in Seq(PlanEntries(c))
        /\ Len(Plan(c)) = Len(ProductSecrets(c) \o auth) + Len(ManualTlsSecrets(c))
        /\ NamesOf(Plan(c)) = NamesOf(ProductSecrets(c) \o auth) \cup NamesOf(ManualTlsSecrets(c))
    <3> DEFINE front == ProductSecrets(c) \o auth
    <3>1. front \in Seq(PlanEntries(c))
      BY <1>4
    <3> HIDE DEF front
    <3>2. /\ front \o ManualTlsSecrets(c) \in Seq(PlanEntries(c))
          /\ Len(front \o ManualTlsSecrets(c)) = Len(front) + Len(ManualTlsSecrets(c))
          /\ NamesOf(front \o ManualTlsSecrets(c)) = NamesOf(front) \cup NamesOf(ManualTlsSecrets(c))
      BY <2>1, <3>1, JoinedNames, Zenon
    <3>3. Plan(c) = front \o ManualTlsSecrets(c)
      BY <1>3 DEF front
    <3> QED
      BY <3>2, <3>3, Zenon DEF front
  <2> QED
    BY <2>2, <1>2, <1>4
<1>6. Len(Plan(c)) > 0
  <2>1. Len(ProductSecrets(c)) \in Nat /\ Len(ManualTlsSecrets(c)) \in Nat
    BY ProductNames, TlsNames
  <2> QED
    BY <1>1, <1>5, <2>1
<1>7. NamesOf(Plan(c)) = ExpectedNames(c)
  <2> DEFINE fixed == {ProductSecretFields[i].field : i \in DOMAIN ProductSecretFields}
             groq == IF Llm(c) THEN {"GROQ_API_KEY"} ELSE {}
             tls == IF c.manual THEN ToSet(TlsFields) ELSE {}
             named(F) == {c.names[f] : f \in F}
  <2>1. NamesOf(ProductSecrets(c)) = named(fixed) \cup named(groq)
    <3>1. {c.names[ProductSecretFields[i].field] : i \in DOMAIN ProductSecretFields} =
            named(fixed)
      OBVIOUS
    <3>2. (IF Llm(c) THEN {c.names["GROQ_API_KEY"]} ELSE {}) = named(groq)
      OBVIOUS
    <3> QED
      BY <3>1, <3>2, ProductNames
  <2>2. NamesOf(ManualTlsSecrets(c)) = named(tls)
    <3>1. (IF c.manual THEN {c.names[f] : f \in ToSet(TlsFields)} ELSE {}) = named(tls)
      OBVIOUS
    <3> QED
      BY <3>1, TlsNames
  <2>3. ExpectedNames(c) = named(fixed \cup {"CKAN_AUTH"} \cup groq \cup tls)
    BY DEF ExpectedNames, ExpectedFields
  <2> HIDE DEF fixed, groq, tls
  <2>4. named(fixed \cup {"CKAN_AUTH"} \cup groq \cup tls) =
          named(fixed) \cup {c.names["CKAN_AUTH"]} \cup named(groq) \cup named(tls)
    OBVIOUS
  <2> HIDE DEF named
  <2> QED
    BY <1>5, <2>1, <2>2, <2>3, <2>4
<1> QED
  BY <1>5, <1>6, <1>7
-----------------------------------------------------------------------------
(* The invariant: what the bootstrap that runs has created so far is       *)
(* there, and whole unless a name was there before it; of the other names  *)
(* that the lake expects, only those of init jobs can be there.            *)
DoneEntries ==
    IF phase = "record" THEN DOMAIN Plan(lake)
    ELSE IF phase = "create" THEN 1..(at - 1)
    ELSE {}

SecretsInv ==
    /\ SecretsTypeOK
    /\ phase \in {"tls", "values"} => made = {} /\ at = 1
    /\ phase # "idle" => ~recorded
    /\ \A i \in DoneEntries : Plan(lake)[i].name \in Names
    /\ NamesDiffer(lake) \/ blind => \A i \in DoneEntries : Holds(Plan(lake)[i])
    /\ ~blind /\ phase # "idle" =>
         \A n \in Names \cap ExpectedNames(lake) :
             \/ n \in InitJobSecrets(lake)
             \/ \E i \in DoneEntries : Plan(lake)[i].name = n
    /\ StatusFindsAll
    /\ RecordedIsComplete
    /\ InputErrorsCreateNothing
    /\ deployed => RootNamesDefined(lake.selection)

LEMMA PlanFacts ==
    ASSUME NEW c \in Lakes
    PROVE  /\ Len(Plan(c)) \in Nat \ {0}
           /\ DOMAIN Plan(c) = 1..Len(Plan(c))
           /\ \A i \in DOMAIN Plan(c) : Plan(c)[i].name \in ExpectedNames(c)
           /\ \A n \in ExpectedNames(c) : \E i \in DOMAIN Plan(c) : Plan(c)[i].name = n
<1>1. Plan(c) \in Seq(PlanEntries(c)) /\ Len(Plan(c)) > 0 /\ NamesOf(Plan(c)) = ExpectedNames(c)
  BY PlanMatchesExpected
<1>2. Len(Plan(c)) \in Nat /\ DOMAIN Plan(c) = 1..Len(Plan(c))
  BY <1>1
<1> QED
  BY <1>1, <1>2 DEF NamesOf

LEMMA SecretsInitially == SecretsInit => SecretsInv
<1> SUFFICES ASSUME SecretsInit PROVE SecretsInv
  OBVIOUS
<1>1. Names = {} /\ DoneEntries = {}
  BY DEF SecretsInit, Names, DoneEntries
<1>2. SecretsTypeOK
  BY <1>1 DEF SecretsInit, SecretsTypeOK
<1> QED
  BY <1>1, <1>2 DEF SecretsInit, SecretsInv, StatusFindsAll, RecordedIsComplete,
     InputErrorsCreateNothing

(* A step that goes on to the next Secret, with the one at hand there.     *)
LEMMA AdvanceKeeps ==
    ASSUME SecretsInv, phase = "create", Advance,
           UNCHANGED <<lake, blind, ended, recorded, deployed>>,
           secrets \subseteq secrets',
           Plan(lake)[at].name \in Names',
           NamesDiffer(lake) \/ blind =>
               \E s \in secrets' : /\ s.name = Plan(lake)[at].name
                                  /\ Plan(lake)[at].keys \subseteq s.keys,
           Names' \subseteq Names \cup {Plan(lake)[at].name},
           made' \subseteq made \cup {Plan(lake)[at].name}
    PROVE  SecretsInv'
<1>1. lake \in Lakes /\ at \in DOMAIN Plan(lake) /\ at \in Nat
  BY DEF SecretsInv, SecretsTypeOK
<1>2. /\ Len(Plan(lake)) \in Nat \ {0}
      /\ DOMAIN Plan(lake) = 1..Len(Plan(lake))
      /\ \A i \in DOMAIN Plan(lake) : Plan(lake)[i].name \in ExpectedNames(lake)
  BY <1>1, PlanFacts
<1>3. DoneEntries = 1..(at - 1)
  BY DEF DoneEntries
<1>4. \/ phase' = "create" /\ at' = at + 1 /\ at < Len(Plan(lake))
      \/ phase' = "record" /\ at' = at /\ at = Len(Plan(lake))
  BY DEF Advance, GoOn, PhaseAfter
<1>5. DoneEntries' = DoneEntries \cup {at}
  <2>1. DoneEntries' = 1..at
    <3>1. CASE phase' = "create" /\ at' = at + 1
      <4>1. at' - 1 = at
        BY <1>1, <3>1
      <4> QED
        BY <3>1, <4>1 DEF DoneEntries
    <3>2. CASE phase' = "record" /\ at = Len(Plan(lake))
      BY <1>2, <3>2 DEF DoneEntries
    <3> QED
      BY <1>4, <3>1, <3>2
  <2>2. at \in 1..Len(Plan(lake)) /\ 1..at = 1..(at - 1) \cup {at}
    BY <1>1, <1>2
  <2> QED
    BY <2>1, <2>2, <1>3
<1>6. Names \subseteq Names'
  BY DEF Names
<1>7. SecretsTypeOK'
  <2>1. Plan(lake)[at].name \in ExpectedNames(lake)
    BY <1>1, <1>2
  <2>2. at' \in Nat /\ (phase' = "create" => at' \in DOMAIN Plan(lake))
    <3>1. CASE phase' = "create" /\ at' = at + 1 /\ at < Len(Plan(lake))
      <4>1. at + 1 \in 1..Len(Plan(lake))
        BY <1>1, <1>2, <3>1
      <4>2. at + 1 \in Nat
        BY <1>1
      <4> QED
        BY <1>2, <3>1, <4>1, <4>2
    <3>2. CASE phase' = "record" /\ at' = at
      BY <1>1, <3>2
    <3> QED
      BY <1>4, <3>1, <3>2
  <2> QED
    BY <1>4, <2>1, <2>2 DEF SecretsInv, SecretsTypeOK
<1>8. \A i \in DoneEntries' : (Plan(lake)[i].name \in Names)'
  BY <1>5, <1>6 DEF SecretsInv
<1>9. NamesDiffer(lake)' \/ blind' => \A i \in DoneEntries' : Holds(Plan(lake)[i])'
  <2>1. NamesDiffer(lake)' = NamesDiffer(lake) /\ Plan(lake)' = Plan(lake)
    OBVIOUS
  <2> QED
    BY <1>5, <2>1 DEF SecretsInv, Holds
<1>10. ~blind' => \A n \in Names' \cap ExpectedNames(lake) :
                     \/ n \in InitJobSecrets(lake)
                     \/ \E i \in DoneEntries' : Plan(lake)[i].name = n
  BY <1>5 DEF SecretsInv
<1>11. ~recorded' /\ phase' \notin {"tls", "values", "idle"}
  BY <1>4 DEF SecretsInv
<1> QED
  BY <1>7, <1>8, <1>9, <1>10, <1>11
     DEF SecretsInv, StatusFindsAll, RecordedIsComplete, InputErrorsCreateNothing

LEMMA SecretsStep == SecretsInv /\ [SecretsNext]_secretsVars => SecretsInv'
<1> SUFFICES ASSUME SecretsInv, [SecretsNext]_secretsVars
             PROVE  SecretsInv'
  OBVIOUS
<1> lake \in Lakes
  BY DEF SecretsInv, SecretsTypeOK
<1>0. /\ Len(Plan(lake)) \in Nat \ {0}
      /\ DOMAIN Plan(lake) = 1..Len(Plan(lake))
      /\ \A i \in DOMAIN Plan(lake) : Plan(lake)[i].name \in ExpectedNames(lake)
      /\ \A n \in ExpectedNames(lake) : \E i \in DOMAIN Plan(lake) : Plan(lake)[i].name = n
  BY PlanFacts
<1>1. CASE StartBootstrap
  <2>1. DoneEntries' = {} /\ phase' = "tls" /\ at' = 1
    BY <1>1 DEF StartBootstrap, GoOn, PhaseAfter, DoneEntries
  <2>2. Names' = Names
    BY <1>1 DEF StartBootstrap, Names
  <2>3. ~recorded' /\ made' = {} /\ (~blind' => Names \cap ExpectedNames(lake) = {})
    BY <1>1 DEF StartBootstrap
  <2>4. SecretsTypeOK'
    <3>1. blind' \in BOOLEAN /\ UNCHANGED <<lake, ended, recorded, deployed>>
      BY <1>1 DEF StartBootstrap
    <3>2. SecretsTypeOK
      BY DEF SecretsInv
    <3> QED
      BY <2>1, <2>2, <2>3, <3>1, <3>2 DEF SecretsTypeOK
  <2> QED
    BY <1>1, <2>1, <2>2, <2>3, <2>4
       DEF StartBootstrap, SecretsInv, StatusFindsAll, RecordedIsComplete,
           InputErrorsCreateNothing
<1>2. CASE RefuseBootstrap
  <2>1. DoneEntries' = {} /\ Names' = Names
    BY <1>2 DEF RefuseBootstrap, DoneEntries, Names
  <2>2. SecretsTypeOK'
    BY <1>2, <2>1 DEF RefuseBootstrap, SecretsInv, SecretsTypeOK
  <2>3. StatusFindsAll' /\ RecordedIsComplete'
    BY <1>2, <2>1 DEF RefuseBootstrap, SecretsInv, StatusFindsAll, RecordedIsComplete, Holds
  <2> QED
    BY <1>2, <2>1, <2>2, <2>3 DEF RefuseBootstrap, SecretsInv, InputErrorsCreateNothing
<1>3. CASE ReadManualTls \/ GetValues
  <2>1. /\ phase \in {"tls", "values"} /\ phase' \in {"values", "create", "idle"}
        /\ ended' \in {ended, "input"}
        /\ UNCHANGED <<lake, at, blind, made, secrets, recorded, deployed>>
    BY <1>3 DEF ReadManualTls, GetValues, GoOn, End, PhaseAfter
  <2>2. at = 1 /\ made = {} /\ ~recorded
    BY <2>1 DEF SecretsInv
  <2>3. DoneEntries = {} /\ DoneEntries' = {} /\ Names' = Names
    BY <2>1, <2>2 DEF DoneEntries, Names
  <2>4. SecretsTypeOK'
    BY <1>0, <2>1, <2>2, <2>3 DEF SecretsInv, SecretsTypeOK
  <2> QED
    BY <2>1, <2>2, <2>3, <2>4 DEF SecretsInv, StatusFindsAll, RecordedIsComplete,
       InputErrorsCreateNothing
<1>4. CASE CreateSecret
  <2> DEFINE entry == Plan(lake)[at]
  <2>1. /\ phase = "create" /\ secrets' = secrets \cup {entry}
        /\ made' = made \cup {entry.name} /\ Advance
        /\ UNCHANGED <<lake, blind, ended, recorded, deployed>>
    BY <1>4 DEF CreateSecret
  <2>2. Names' = Names \cup {entry.name}
    BY <2>1 DEF Names
  <2>3. \E s \in secrets' : s.name = entry.name /\ entry.keys \subseteq s.keys
    BY <2>1
  <2> QED
    BY <2>1, <2>2, <2>3, AdvanceKeeps
<1>5. CASE SkipSecret
  <2>1. /\ phase = "create" /\ ~blind /\ Plan(lake)[at].name \in Names /\ Advance
        /\ UNCHANGED <<lake, blind, made, ended, secrets, recorded, deployed>>
    BY <1>5 DEF SkipSecret
  <2>2. Names' = Names
    BY <2>1 DEF Names
  <2>3. ~NamesDiffer(lake)
    <3>1. at \in DOMAIN Plan(lake) /\ DoneEntries = 1..(at - 1) /\ at \in Nat
      BY <2>1 DEF SecretsInv, SecretsTypeOK, DoneEntries
    <3>2. \/ Plan(lake)[at].name \in InitJobSecrets(lake)
          \/ \E i \in 1..(at - 1) : Plan(lake)[i].name = Plan(lake)[at].name
      BY <1>0, <2>1, <3>1 DEF SecretsInv
    <3> QED
      BY <1>0, <3>1, <3>2 DEF NamesDiffer
  <2> QED
    BY <2>1, <2>2, <2>3, AdvanceKeeps
<1>6. CASE BootstrapFails
  <2>1. DoneEntries' = {} /\ Names' = Names /\ phase' = "idle" /\ ended' = "cluster"
    BY <1>6 DEF BootstrapFails, End, DoneEntries, Names
  <2>2. SecretsTypeOK'
    BY <1>6, <2>1 DEF BootstrapFails, End, SecretsInv, SecretsTypeOK
  <2> QED
    BY <1>6, <2>1, <2>2 DEF BootstrapFails, End, SecretsInv, StatusFindsAll,
       RecordedIsComplete, InputErrorsCreateNothing, Holds
<1>7. CASE Record
  <2>1. /\ DoneEntries' = {} /\ Names' = Names /\ phase' = "idle" /\ ended' = "success"
        /\ DoneEntries = DOMAIN Plan(lake)
    BY <1>7 DEF Record, End, DoneEntries, Names
  <2>2. SecretsTypeOK'
    BY <1>7, <2>1 DEF Record, End, SecretsInv, SecretsTypeOK
  <2>3. ExpectedNames(lake) \subseteq Names
    BY <1>0, <2>1 DEF SecretsInv
  <2>4. NamesDiffer(lake) \/ blind => \A i \in DOMAIN Plan(lake) : Holds(Plan(lake)[i])
    BY <2>1 DEF SecretsInv
  <2> QED
    BY <1>7, <2>1, <2>2, <2>3, <2>4 DEF Record, End, SecretsInv, StatusFindsAll,
       RecordedIsComplete, InputErrorsCreateNothing, Holds
<1>8. CASE Deploy \/ Undeploy
  <2>1. /\ UNCHANGED <<lake, phase, at, blind, made, ended, secrets, recorded>>
        /\ deployed' \in BOOLEAN
        /\ deployed' => RootNamesDefined(lake.selection)
    BY <1>8 DEF Deploy, Undeploy
  <2>2. DoneEntries' = DoneEntries /\ Names' = Names
    BY <2>1 DEF DoneEntries, Names
  <2>3. SecretsTypeOK'
    BY <2>1, <2>2 DEF SecretsInv, SecretsTypeOK
  <2> QED
    BY <2>1, <2>2, <2>3 DEF SecretsInv, StatusFindsAll, RecordedIsComplete,
       InputErrorsCreateNothing, Holds
<1>9. CASE RunInitJob
  <2>1. PICK n \in InitJobSecrets(lake) : secrets' = secrets \cup {Entry(n, {"init"})}
    BY <1>9 DEF RunInitJob
  <2>2. UNCHANGED <<lake, phase, at, blind, made, ended, recorded, deployed>>
    BY <1>9 DEF RunInitJob
  <2>3. Names' = Names \cup {n}
    <3>1. Entry(n, {"init"}).name = n
      BY DEF Entry
    <3> QED
      BY <2>1, <3>1 DEF Names
  <2>4. DoneEntries' = DoneEntries
    BY <2>2 DEF DoneEntries
  <2>5. SecretsTypeOK'
    BY <2>2, <2>3 DEF SecretsInv, SecretsTypeOK
  <2>6. \A e : Holds(e) => Holds(e)'
    BY <2>1 DEF Holds
  <2> QED
    BY <2>2, <2>3, <2>4, <2>5, <2>6 DEF SecretsInv, StatusFindsAll, RecordedIsComplete,
       InputErrorsCreateNothing
<1>10. CASE Unbootstrap
  <2>1. /\ phase' = "idle" /\ ~recorded' /\ secrets' \subseteq secrets
        /\ UNCHANGED <<lake, phase, at, blind, made, ended, deployed>>
    BY <1>10 DEF Unbootstrap
  <2>2. DoneEntries' = {} /\ Names' \subseteq Names
    BY <2>1 DEF DoneEntries, Names
  <2>3. SecretsTypeOK'
    BY <1>10, <2>1, <2>2 DEF Unbootstrap, SecretsInv, SecretsTypeOK
  <2> QED
    BY <2>1, <2>2, <2>3 DEF SecretsInv, StatusFindsAll, RecordedIsComplete,
       InputErrorsCreateNothing
<1>11. CASE UNCHANGED secretsVars
  BY <1>11 DEF secretsVars, SecretsInv, SecretsTypeOK, DoneEntries, Names, Holds,
     StatusFindsAll, RecordedIsComplete, InputErrorsCreateNothing
<1> QED
  BY <1>1, <1>2, <1>3, <1>4, <1>5, <1>6, <1>7, <1>8, <1>9, <1>10, <1>11 DEF SecretsNext

(* Every variable keeps its type: a bootstrap never runs past its plan and *)
(* no Secret has a name that nobody expects.                               *)
THEOREM SecretsType == SecretsSpec => []SecretsTypeOK
<1>1. SecretsInv => SecretsTypeOK
  BY DEF SecretsInv
<1> QED
  BY <1>1, SecretsInitially, SecretsStep, PTL DEF SecretsSpec

(* A recorded lake has each value at its key, when no two names collide or *)
(* the bootstrap was blind.                                                *)
THEOREM SecretsRecorded == SecretsSpec => []RecordedIsComplete
<1>1. SecretsInv => RecordedIsComplete
  BY DEF SecretsInv
<1> QED
  BY <1>1, SecretsInitially, SecretsStep, PTL DEF SecretsSpec

(* lake status finds each Secret that it expects of a recorded lake.       *)
THEOREM SecretsFound == SecretsSpec => []StatusFindsAll
<1>1. SecretsInv => StatusFindsAll
  BY DEF SecretsInv
<1> QED
  BY <1>1, SecretsInitially, SecretsStep, PTL DEF SecretsSpec

(* A bootstrap that ends at the operator's input, for a missing name or an *)
(* unusable file or value, has created nothing.                            *)
THEOREM SecretsInputFirst == SecretsSpec => []InputErrorsCreateNothing
<1>1. SecretsInv => InputErrorsCreateNothing
  BY DEF SecretsInv
<1> QED
  BY <1>1, SecretsInitially, SecretsStep, PTL DEF SecretsSpec
-----------------------------------------------------------------------------
(* The selection, as Python reads it and as the manifests are made of it.  *)

LEMMA InitJobsOf ==
    ASSUME NEW c, NEW x
    PROVE  /\ Job("kcinit") \in Manifest(c, x) => x = "keycloak"
           /\ Job("ckaninit") \in Manifest(c, x) => x = "ckan"
<1>1. CASE x = "sde" \/ x \in {"visualizer", "previewer"}
  BY <1>1 DEF Manifest, Job, Deployment
<1>2. CASE x \in {"redis", "datapusher", "ontop", "keycloak", "api", "ckan", "quay",
                  "llm_search"}
  BY <1>2 DEF Manifest, Job, Deployment
<1>3. CASE x \in {"postgres", "solr", "minio", "airflow"}
  BY <1>3 DEF Manifest, Job, StatefulSet
<1> QED
  BY <1>1, <1>2, <1>3 DEF Manifest

LEMMA InitJobsKnown ==
    ASSUME NEW c
    PROVE  InitJobSecrets(c) \subseteq InitGeneratedNames(c)
<1>1. Job("kcinit") \in Rendered(c.selection) => "keycloak" \in SelectedComponents(c.selection)
  BY InitJobsOf DEF Rendered
<1>2. Job("ckaninit") \in Rendered(c.selection) => "ckan" \in SelectedComponents(c.selection)
  BY InitJobsOf DEF Rendered
<1> QED
  BY <1>1, <1>2 DEF InitJobSecrets, InitGeneratedNames

LEMMA WorkloadArms ==
    ASSUME NEW c, NEW x
    PROVE  /\ x = "sde" => WorkloadsOf(c, x) = SdeWorkloads(c)
           /\ x \in {"visualizer", "previewer"} =>
                WorkloadsOf(c, x) =
                    {Deployment(FirstDefined(c.section[x], c.root[x], DefaultNames[x]))}
           /\ x \in DOMAIN StaticWorkloads => WorkloadsOf(c, x) = StaticWorkloads[x]
           /\ DOMAIN StaticWorkloads =
                {"postgres", "redis", "solr", "datapusher", "ontop", "minio", "keycloak",
                 "api", "ckan", "quay", "llm_search"}
<1>1. DOMAIN StaticWorkloads =
        {"postgres", "redis", "solr", "datapusher", "ontop", "minio", "keycloak",
         "api", "ckan", "quay", "llm_search"}
  BY DEF StaticWorkloads
<1>2. x \in DOMAIN StaticWorkloads => x # "sde" /\ x \notin {"visualizer", "previewer"}
  BY <1>1
<1>3. x = "sde" => WorkloadsOf(c, x) = SdeWorkloads(c)
  BY <1>2 DEF WorkloadsOf
<1>4. x \in {"visualizer", "previewer"} =>
        WorkloadsOf(c, x) =
            {Deployment(FirstDefined(c.section[x], c.root[x], DefaultNames[x]))}
  BY <1>2 DEF WorkloadsOf
<1>5. x \in DOMAIN StaticWorkloads => WorkloadsOf(c, x) = StaticWorkloads[x]
  BY <1>2 DEF WorkloadsOf
<1> QED
  BY <1>1, <1>3, <1>4, <1>5

(* The manifests of the components that have no choice of name.            *)
LEMMA StaticManifests ==
    ASSUME NEW c, NEW x, x \notin {"sde", "visualizer", "previewer"},
           NEW w \in Manifest(c, x)
    PROVE  \/ x \in DOMAIN StaticWorkloads /\ w \in StaticWorkloads[x]
           \/ x \notin DOMAIN StaticWorkloads
<1>1. x \in DOMAIN StaticWorkloads =>
        x \in {"redis", "datapusher", "ontop", "keycloak", "api", "ckan", "quay",
               "llm_search", "postgres", "solr", "minio"}
  BY DEF StaticWorkloads
<1>2. CASE x \in {"redis", "datapusher", "llm_search"}
  BY <1>2 DEF Manifest, StaticWorkloads
<1>3. CASE x \in {"ontop", "keycloak"}
  BY <1>3 DEF Manifest, StaticWorkloads
<1>4. CASE x \in {"api", "ckan", "quay"}
  BY <1>4 DEF Manifest, StaticWorkloads
<1>5. CASE x \in {"postgres", "solr", "minio"}
  BY <1>5 DEF Manifest, StaticWorkloads
<1> QED
  BY <1>1, <1>2, <1>3, <1>4, <1>5

LEMMA InspectedOf ==
    ASSUME NEW c, RootNamesDefined(c),
           NEW x \in SelectedComponents(c) \ UncheckedComponents(c),
           NEW w \in Manifest(c, x)
    PROVE  \/ w \in WorkloadsOf(c, x)
           \/ /\ x \in {"visualizer", "previewer"}
              /\ c.section[x] \notin {"", c.root[x]}
<1>1. CASE x = "sde"
  <2>1. PICK p \in SdeParts : w = Deployment(c.root[p])
    BY <1>1 DEF Manifest
  <2>2. FirstDefined(c.root[p], c.section[p], DefaultNames[p]) = c.root[p]
    BY <1>1, <2>1 DEF RootNamesDefined, FirstDefined
  <2>3. w \in SdeWorkloads(c)
    BY <2>1, <2>2 DEF SdeWorkloads
  <2> QED
    BY <1>1, <2>3, WorkloadArms
<1>2. CASE x \in {"visualizer", "previewer"}
  <2>1. w = Deployment(c.root[x]) /\ c.root[x] # ""
    BY <1>2 DEF Manifest, RootNamesDefined
  <2>2. c.section[x] \in {"", c.root[x]} =>
          FirstDefined(c.section[x], c.root[x], DefaultNames[x]) = c.root[x]
    BY <2>1 DEF FirstDefined
  <2>3. WorkloadsOf(c, x) =
          {Deployment(FirstDefined(c.section[x], c.root[x], DefaultNames[x]))}
    BY <1>2, WorkloadArms, Zenon
  <2> QED
    BY <1>2, <2>1, <2>2, <2>3
<1>3. CASE x \notin {"sde", "visualizer", "previewer"}
  <2>1. x \in DOMAIN StaticWorkloads /\ w \in StaticWorkloads[x]
    BY <1>3, StaticManifests DEF UncheckedComponents
  <2>2. WorkloadsOf(c, x) = StaticWorkloads[x]
    BY <2>1, WorkloadArms, Zenon
  <2> QED
    BY <2>1, <2>2
<1> QED
  BY <1>1, <1>2, <1>3

(* lake status expects each workload of a deployed lake, but for those of  *)
(* a component it names as not inspected, and for a visualizer or          *)
(* previewer whose section names another Deployment.                       *)
THEOREM SecretsInspected == SecretsSpec => []DeployedIsInspected
<1>1. SecretsInv => DeployedIsInspected
  <2> DEFINE c == lake.selection
  <2> SUFFICES ASSUME SecretsInv, deployed,
                      NEW x \in SelectedComponents(c) \ UncheckedComponents(c),
                      NEW w \in Manifest(c, x)
               PROVE  \/ w \in ExpectedWorkloads(c)
                      \/ /\ x \in {"visualizer", "previewer"}
                         /\ c.section[x] \notin {"", c.root[x]}
    BY DEF DeployedIsInspected
  <2>1. RootNamesDefined(c)
    BY DEF SecretsInv
  <2>2. \/ w \in WorkloadsOf(c, x)
        \/ /\ x \in {"visualizer", "previewer"}
           /\ c.section[x] \notin {"", c.root[x]}
    BY <2>1, InspectedOf, Zenon
  <2> QED
    BY <2>2 DEF ExpectedWorkloads
<1> QED
  BY <1>1, SecretsInitially, SecretsStep, PTL DEF SecretsSpec

(* A cleanup that deletes anything leaves nothing of the lake.             *)
THEOREM SecretsCleanup == SecretsSpec => CleanupLeavesNothing
<1>1. SecretsInv /\ [SecretsNext]_secretsVars =>
        [secrets' \subseteq secrets /\ secrets' # secrets => secrets' = {}]_secretsVars
  <2> SUFFICES ASSUME SecretsInv, SecretsNext, secrets' \subseteq secrets, secrets' # secrets
               PROVE  secrets' = {}
    OBVIOUS
  <2>1. Unbootstrap
    BY DEF SecretsNext, StartBootstrap, RefuseBootstrap, ReadManualTls, GetValues, End,
       CreateSecret, SkipSecret, BootstrapFails, Record, Deploy, Undeploy, RunInitJob
  <2>2. \A s \in secrets : s.name \in ExpectedNames(lake) \cup InitGeneratedNames(lake)
    BY InitJobsKnown DEF SecretsInv, SecretsTypeOK, Names
  <2> QED
    BY <2>1, <2>2 DEF Unbootstrap
<1> QED
  BY <1>1, SecretsInitially, SecretsStep, PTL DEF SecretsSpec, CleanupLeavesNothing
=============================================================================
