------------------------- MODULE MCProductValidator -------------------------
(* Small instances of ProductValidator.                                    *)
EXTENDS ProductValidator

CONSTANTS fRoot, fA, fB, fC, fD, fE, fF,
          gTop, gAlt, gAll, gSome, gEmpty, kFree, kNeeded

(*   fRoot --gTop-- fA --gAlt-- fC                                         *)
(*              |           +-- fD (kFree) --gEmpty                        *)
(*              +-- fB (kNeeded) --gAll-- fE                               *)
(*                          +-----gSome-- fF                               *)
MCGroupOf ==
    [f \in Features \ {Root} |->
        CASE f \in {fA, fB} -> gTop [] f \in {fC, fD} -> gAlt
          [] f = fE -> gAll [] f = fF -> gSome]
MCOwner ==
    [g \in Groups |->
        CASE g = gTop -> fRoot [] g = gAlt -> fA [] g \in {gAll, gSome} -> fB
          [] g = gEmpty -> fD]
MCParent == [f \in Features \ {Root} |-> MCOwner[MCGroupOf[f]]]

MCRel ==
    [g \in Groups |->
        CASE g = gTop -> "or" [] g = gAlt -> "alternative" [] g = gAll -> "mandatory"
          [] g \in {gSome, gEmpty} -> "optional"]
MCDefault ==
    [g \in Groups |->
        CASE g = gAlt -> {fC} [] g = gSome -> {fF} [] OTHER -> NoDefault]

MCAttributeOf == [a \in Attributes |-> IF a = kFree THEN fD ELSE fB]
MCFallback == [a \in Attributes |-> IF a = kFree THEN "valid" ELSE "none"]

-----------------------------------------------------------------------------
MCLists(g) ==
    [names : SUBSET GroupMembers(g), repeats : {FALSE}]
        \cup [names : {{c} : c \in GroupMembers(g)}, repeats : {TRUE}]

MCNoValue == [form |-> "none", listed |-> NoList]
MCDict == [form |-> "dict", listed |-> NoList]
MCEmptyList == [form |-> "list", listed |-> NoList]

(* Group values: none, an object, an array of members, garbage; an object  *)
(* when the tree has features in it.                                       *)
MCGroupValues(t, g) ==
    IF \E f \in t.grouped : GroupOf[f] = g THEN {MCDict}
    ELSE IF Owner[g] \notin t.direct \cup t.grouped \cup {fRoot} THEN {MCNoValue}
    ELSE IF g = gEmpty THEN {MCNoValue, MCEmptyList}
    ELSE IF g = gSome THEN {MCNoValue, MCEmptyList}
    ELSE IF g = gAll THEN {MCNoValue, MCDict, MCEmptyList}
    ELSE {MCNoValue, MCDict, [form |-> "other", listed |-> NoList]}
            \cup {[form |-> "list", listed |-> l] : l \in MCLists(g)}

(* fE and fF can only be mentioned under fB, fC and fD under fA; one       *)
(* feature at most is in two places.                                       *)
MCTrees ==
    {t \in [direct : SUBSET {fA, fB, fC, fE, fF}, grouped : SUBSET {fA, fB, fC, fD}] :
        /\ \A f \in t.direct \cup t.grouped :
             Parent[f] \in t.direct \cup t.grouped \cup {fRoot}
        /\ \A f, h \in t.direct \cap t.grouped : f = h}

MCGroupChoices(t) ==
    {[g \in Groups |->
        CASE g = gTop -> u [] g = gAlt -> v [] g = gAll -> w [] g = gSome -> x
          [] g = gEmpty -> y] :
            u \in MCGroupValues(t, gTop), v \in MCGroupValues(t, gAlt),
            w \in MCGroupValues(t, gAll), x \in MCGroupValues(t, gSome),
            y \in MCGroupValues(t, gEmpty)}

MCProduct(t, c, v) ==
    [direct |-> t.direct, grouped |-> t.grouped,
     form |-> [g \in Groups |-> c[g].form],
     listed |-> [g \in Groups |-> c[g].listed],
     strange |-> {}, malformed |-> {}, values |-> v]

MCNeeded(t) ==
    [a \in Attributes |->
        IF a = kNeeded /\ fB \in t.direct \cup t.grouped THEN "valid" ELSE "none"]

(* Every way to nest features and to fill groups.                          *)
MCShapes ==
    UNION {{MCProduct(t, c, MCNeeded(t)) : c \in MCGroupChoices(t)} : t \in MCTrees}

(* A few trees of direct features, with whatever they may hold.            *)
MCContents ==
    {p \in [direct : {{}, {fA}, {fB}, {fA, fC}, {fA, fB, fD}}, grouped : {{}},
            form : {[g \in Groups |-> "none"],
                    [g \in Groups |-> IF g = gEmpty THEN "list" ELSE "none"]},
            listed : {[g \in Groups |-> NoList]},
            strange : {{}} \cup {{f} : f \in Features}, malformed : {{}, {fB}, {fC}},
            values : [Attributes -> Values]] : Nested(p)}

MCProducts == MCShapes \cup MCContents

(* Without objects for groups: products to validate after another one.     *)
MCListed ==
    {p \in UNION {{MCProduct(t, c, MCNeeded(t)) : c \in MCGroupChoices(t)} :
            t \in [direct : {{}, {fA}, {fB}}, grouped : {{}}]} :
        \A g \in Groups : p.form[g] \in {"none", "list"}}
=============================================================================
