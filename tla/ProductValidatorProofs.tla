----------------------- MODULE ProductValidatorProofs -----------------------
(***************************************************************************)
(* Proofs about ProductValidator: for any feature model and any products,  *)
(* in whatever order their keys are visited and whatever was validated     *)
(* before, what is accepted is a product of the product line, and nothing  *)
(* is refused that the selection it describes makes acceptable.            *)
(***************************************************************************)
EXTENDS ProductValidator, TLAPS

(* A pass that has visited V goes on to all that is below it.              *)
Covers(V) ==
    /\ Root \in V \cup todo
    /\ \A h \in V : Children(h) \cap present \subseteq V \cup todo

(* The working copy nests as a product does.                               *)
Copied ==
    \A g \in Groups :
        /\ g \notin known => chosen[g] = NoList
        /\ chosen[g].names \subseteq Children(Owner[g])

NestedCopy ==
    /\ todo \subseteq present \cup {Root}
    /\ \A f \in present : Parent[f] \in present \cup {Root}
    /\ \A g \in known : Owner[g] \in present \cup {Root}
    /\ \A a \in Attributes : values[a] # "none" => AttributeOf[a] \in present \cup {Root}

(* The objects of the groups of V are dissolved, and hold members only.    *)
Structured(V) ==
    /\ \A f \in V : \A g \in GroupsOf(f) :
         input.form[g] = "dict" =>
            Keys(g) \subseteq present /\ chosen[g].names = Keys(g)
    /\ errors = {} =>
         \A f \in V : \A g \in GroupsOf(f) \cap known : Keys(g) \subseteq GroupMembers(g)

StructurePass ==
    step = "structure" =>
        /\ enabled = {}
        /\ known = {g \in Groups : input.form[g] # "none"}
        /\ values = input.values
        /\ todo \subseteq Present(input)
        /\ input.direct \subseteq present
        /\ present \subseteq Mentioned(input)
        /\ \A g \in Groups : input.form[g] # "dict" => chosen[g] = input.listed[g]
        /\ \E V \in SUBSET Features : Covers(V) /\ Structured(V)

(* A group lists what is there.                                            *)
Listing(g) ==
    /\ g \in known
    /\ GroupMembers(g) \cap present = chosen[g].names
    /\ Rel[g] = "mandatory" => chosen[g] = [names |-> GroupMembers(g), repeats |-> FALSE]

Selected(V) == \A f \in V : \A g \in GroupsOf(f) : Listing(g)

SelectPass ==
    step = "select" =>
        /\ enabled = {}
        /\ NestedCopy
        /\ Mentioned(input) \subseteq present
        /\ \A g \in known : chosen[g].names \subseteq GroupMembers(g)
        /\ \E V \in SUBSET Features : Covers(V) /\ (errors = {} => Selected(V))

(* What is enabled stays within what the pass before has visited.          *)
RequiredPass ==
    step = "required" =>
        /\ NestedCopy
        /\ Mentioned(input) \subseteq present
        /\ Covers(enabled)
        /\ \A f \in (enabled \cup todo) \ {Root} : Parent[f] \in enabled /\ f \in present
        /\ \E V \in SUBSET Features :
             /\ enabled \cup todo \subseteq V
             /\ \A h \in V : Children(h) \cap present \subseteq V
             /\ Selected(V)

(* What is enabled is a selection, but for the constraints of its groups.  *)
Enabled ==
    /\ Root \in enabled
    /\ \A f \in enabled \ {Root} : Parent[f] \in enabled /\ f \in present
    /\ \A f \in enabled : Children(f) \cap present \subseteq enabled
    /\ Mentioned(input) \subseteq enabled
    /\ \A g \in Groups : Owner[g] \in enabled => Listing(g)

Unbroken == \A g \in Groups : Owner[g] \in enabled => ~Broken(g)

GroupsPass ==
    step = "groups" =>
        /\ NestedCopy
        /\ Enabled
        /\ \E V \in SUBSET Features :
             /\ Covers(V)
             /\ errors = {} => \A f \in V : \A g \in GroupsOf(f) : ~Broken(g)

DefaultsValid == \A a \in Attributes : Fallback[a] # "invalid"

AttributesPass ==
    step = "attributes" =>
        \E V \in SUBSET Features :
            /\ Covers(V)
            /\ errors = {} /\ DefaultsValid =>
                 \A f \in V : \A a \in AttributesOf(f) : values[a] = "valid"

Finished ==
    /\ step = "attributes" \/ outcome = "accepted" =>
        NestedCopy /\ Enabled /\ Unbroken
    /\ outcome = "accepted" /\ DefaultsValid =>
        \A a \in Attributes : AttributeOf[a] \in enabled => values[a] = "valid"

(* A product that no pass finds anything to do about.                      *)
Complete(p) ==
    /\ p.grouped = {} /\ p.strange = {} /\ p.malformed = {}
    /\ \A g \in Groups : p.form[g] \in {"none", "list"}
    /\ \A g \in Groups :
         Owner[g] \in Present(p) =>
            /\ p.form[g] = "list"
            /\ GroupMembers(g) \cap p.direct = p.listed[g].names
            /\ Rel[g] = "mandatory" =>
                 p.listed[g] = [names |-> GroupMembers(g), repeats |-> FALSE]
            /\ Rel[g] = "alternative" =>
                 ~p.listed[g].repeats /\ \E c \in Features : p.listed[g].names = {c}
            /\ Rel[g] = "or" => p.listed[g].names # {}
    /\ \A a \in Attributes : AttributeOf[a] \in Present(p) => p.values[a] = "valid"

(* None has.                                                               *)
Unchanged ==
    again /\ DefaultsValid =>
        /\ Complete(input)
        /\ outcome # "rejected" /\ errors = {}
        /\ present = input.direct
        /\ chosen = input.listed
        /\ known = {g \in Groups : input.form[g] = "list"}
        /\ values = input.values

ValidatorInv ==
    /\ ValidatorTypeOK
    /\ step # "idle" => outcome = "none"
    /\ Copied
    /\ StructurePass
    /\ SelectPass
    /\ RequiredPass
    /\ GroupsPass
    /\ AttributesPass
    /\ Finished
-----------------------------------------------------------------------------
(* The feature tree.                                                       *)

LEMMA Links ==
    /\ Root \in Features
    /\ \A g \in Groups : Owner[g] \in Features
    /\ \A a \in Attributes : AttributeOf[a] \in Features
    /\ \A c \in Features \ {Root} :
         Parent[c] \in Features /\ GroupOf[c] \in Groups /\ Owner[GroupOf[c]] = Parent[c]
  BY FeatureModelAssumption DEF IsTree, HasAttributes

LEMMA Members ==
    /\ \A g \in Groups : GroupMembers(g) \subseteq Children(Owner[g])
    /\ \A f \in Features : \A c \in Children(f) :
         /\ c \in Features \ {Root} /\ Parent[c] = f
         /\ GroupOf[c] \in GroupsOf(f) /\ c \in GroupMembers(GroupOf[c])
  BY Links DEF GroupMembers, Children, GroupsOf

(* What holds of the root, and of a feature when it holds of its parent,   *)
(* holds of all of A: a feature tree has no cycle.                         *)
LEMMA Climb ==
    ASSUME NEW A \in SUBSET Features, NEW V, Root \in V,
           \A c \in A \ {Root} :
               Parent[c] \in A \cup {Root} /\ (Parent[c] \in V => c \in V)
    PROVE  A \subseteq V
<1> SUFFICES ASSUME A \ V # {} PROVE FALSE
  OBVIOUS
<1>1. \/ Root \in A \ V
      \/ \E c \in A \ V : Parent[c] \notin A \ V
  BY FeatureModelAssumption DEF IsTree
<1>2. PICK c \in A \ V : Parent[c] \notin A \ V
  BY <1>1
<1>3. c \in A \ {Root}
  BY <1>2
<1> QED
  BY <1>2, <1>3

LEMMA CoversNext ==
    ASSUME NEW V \in SUBSET Features, NEW f \in Features, Covers(V), f \in todo,
           todo' = (todo \ {f}) \cup (Children(f) \cap present'),
           \A h \in Features \ {f} : Children(h) \cap present' \subseteq present
    PROVE  Covers(V \cup {f})'
  BY DEF Covers

(* A feature that is there is reached by a pass that is over.              *)
LEMMA CoversAll ==
    ASSUME NEW V, NEW A \in SUBSET Features, Covers(V), todo = {},
           \A c \in A \ {Root} : Parent[c] \in A \cup {Root} /\ c \in present
    PROVE  A \subseteq V
<1>1. Root \in V
  BY DEF Covers
<1>2. \A c \in A \ {Root} : Parent[c] \in V => c \in V
  BY DEF Covers, Children
<1> QED
  BY <1>1, <1>2, Climb
-----------------------------------------------------------------------------
(* A product is given to the validator.                                    *)

LEMMA InitHolds == ValidatorInit => ValidatorInv
<1> SUFFICES ASSUME ValidatorInit PROVE ValidatorInv
  OBVIOUS
<1>1. NoProduct \in ProductSpecs /\ Nested(NoProduct)
  BY DEF NoProduct, ProductSpecs, Nested, Mentioned, Present, Forms, Values, Lists, NoList
<1>2. ValidatorTypeOK
  BY <1>1 DEF ValidatorInit, ValidatorTypeOK, Lists, NoList, Values
<1>3. Copied
  BY DEF ValidatorInit, Copied, NoList
<1> QED
  BY <1>2, <1>3 DEF ValidatorInit, ValidatorInv, StructurePass, SelectPass, RequiredPass,
      GroupsPass, AttributesPass, Finished

LEMMA ValidateHolds ==
    ASSUME NEW p \in ProductSpecs, Nested(p), NEW b \in BOOLEAN, Validate(p, b)
    PROVE  ValidatorInv'
<1>1. /\ step' = "structure" /\ todo' = {Root} /\ input' = p /\ present' = p.direct
      /\ chosen' = p.listed /\ known' = {g \in Groups : p.form[g] # "none"}
      /\ values' = p.values /\ enabled' = {} /\ errors' = {} /\ outcome' = "none"
      /\ again' = b
  BY DEF Validate
<1>2. /\ p.direct \subseteq Features /\ p.listed \in [Groups -> Lists]
      /\ p.values \in [Attributes -> Values] /\ Root \notin p.direct
  BY DEF ProductSpecs, Nested, Mentioned
<1>3. ValidatorTypeOK'
  BY <1>1, <1>2, Links DEF ValidatorTypeOK, Steps
<1>4. Copied'
  BY <1>1 DEF Copied, Nested
<1>5. StructurePass'
  <2>1. Covers({})' /\ Structured({})'
    BY <1>1 DEF Covers, Structured
  <2>2. Root \in Present(p) /\ p.direct \subseteq Mentioned(p)
    BY DEF Present, Mentioned
  <2> QED
    BY <1>1, <2>1, <2>2 DEF StructurePass
<1> QED
  BY <1>1, <1>3, <1>4, <1>5 DEF ValidatorInv, SelectPass, RequiredPass, GroupsPass,
      AttributesPass, Finished

LEMMA FullspecIsProduct ==
    ASSUME ValidatorTypeOK, Copied, NestedCopy
    PROVE  Fullspec \in ProductSpecs /\ Nested(Fullspec)
<1> DEFINE p == Fullspec
<1>1. /\ p.direct = present /\ p.grouped = {} /\ p.listed = chosen /\ p.strange = {}
      /\ p.malformed = {} /\ p.values = values
      /\ p.form = [g \in Groups |-> IF g \in known THEN "list" ELSE "none"]
  BY DEF Fullspec
<1>2. p \in ProductSpecs
  BY DEF Fullspec, ProductSpecs, ValidatorTypeOK, Forms
<1>3. Mentioned(p) = present /\ Present(p) = present \cup {Root}
  BY <1>1 DEF Mentioned, Present
<1> HIDE DEF p
<1>4. Nested(p)
  BY <1>1, <1>3 DEF Nested, ValidatorTypeOK, Copied, NestedCopy
<1> QED
  BY <1>2, <1>4 DEF p
-----------------------------------------------------------------------------
(* The visits.                                                             *)

LEMMA StructureHolds ==
    ASSUME ValidatorInv, NEW f \in Features, VisitStructure(f)
    PROVE  ValidatorInv'
<1> DEFINE dicts == {g \in GroupsOf(f) : input.form[g] = "dict"}
           moved == UNION {Keys(g) : g \in dicts}
<1>1. /\ step = "structure" /\ f \in todo
      /\ UNCHANGED <<step, input, known, values, enabled, outcome, again>>
      /\ present' = present \cup moved
      /\ chosen' = [g \in Groups |->
                       IF g \in dicts THEN [names |-> Keys(g), repeats |-> FALSE]
                       ELSE chosen[g]]
      /\ todo' = (todo \ {f}) \cup (Children(f) \cap present')
      /\ errors' \in {errors, errors \cup {f}}
      /\ errors' = {} => \A g \in GroupsOf(f) \cap known : ~BadGroup(g)
  BY DEF VisitStructure, Visiting, VisitNext, Report
<1>2. /\ ValidatorTypeOK /\ Copied /\ StructurePass /\ outcome = "none"
      /\ input \in ProductSpecs /\ Nested(input)
  BY <1>1 DEF ValidatorInv, ValidatorTypeOK
<1>3. input.grouped \subseteq Features \ {Root} /\ Root \notin input.direct
      /\ \A g \in Groups : input.listed[g].names \subseteq Children(Owner[g])
  BY <1>2 DEF ProductSpecs, Nested, Mentioned
<1>4. \A g \in dicts : /\ g \in Groups /\ Owner[g] = f
                       /\ Keys(g) \subseteq Children(f) \cap input.grouped
  BY <1>3, Links DEF Keys, GroupsOf, Children
<1>5. moved \subseteq Children(f) \cap input.grouped /\ Children(f) \subseteq Features \ {Root}
  BY <1>4 DEF Children
<1>6. \A g : Keys(g)' = Keys(g)
  BY <1>1 DEF Keys
<1>7. \A g \in dicts : [names |-> Keys(g), repeats |-> FALSE] \in Lists
  BY <1>4, <1>5 DEF Lists
<1>8. /\ present' \subseteq Features \ {Root} /\ todo' \subseteq Features
      /\ errors' \subseteq Features
      /\ chosen' \in [Groups -> Lists]
  BY <1>1, <1>2, <1>5, <1>7 DEF ValidatorTypeOK
<1> HIDE DEF moved
<1>9. ValidatorTypeOK'
  BY <1>1, <1>2, <1>8 DEF ValidatorTypeOK
<1>10. Copied'
  <2>1. ASSUME NEW g \in Groups
        PROVE  /\ g \notin known => chosen'[g] = NoList
               /\ chosen'[g].names \subseteq Children(Owner[g])
    <3>1. CASE g \in dicts
      <4>1. chosen'[g].names = Keys(g) /\ g \in known
        BY <1>1, <1>2, <3>1 DEF StructurePass
      <4> QED
        BY <1>4, <3>1, <4>1
    <3>2. CASE g \notin dicts
      BY <1>1, <1>2, <3>2 DEF Copied
    <3> QED
      BY <3>1, <3>2
  <2> QED
    BY <1>1, <2>1 DEF Copied
<1>11. StructurePass'
  <2>1. PICK V \in SUBSET Features : Covers(V) /\ Structured(V)
    BY <1>1, <1>2 DEF StructurePass
  <2>2. \A h \in Features \ {f} : Children(h) \cap present' \subseteq present
    BY <1>1, <1>5 DEF Children
  <2>3. Covers(V \cup {f})'
    BY <1>1, <2>1, <2>2, CoversNext
  <2>4. ASSUME NEW h \in V \cup {f}, NEW g \in GroupsOf(h), input.form[g] = "dict"
        PROVE  Keys(g) \subseteq present' /\ chosen'[g].names = Keys(g)
    <3>1. CASE h = f
      <4>1. g \in dicts /\ g \in Groups
        BY <2>4, <3>1 DEF GroupsOf
      <4> QED
        BY <1>1, <4>1 DEF moved
    <3>2. CASE h # f
      <4>1. g \in Groups /\ g \notin dicts
        BY <2>4, <3>2 DEF GroupsOf
      <4> QED
        BY <1>1, <2>1, <2>4, <3>2, <4>1 DEF Structured
    <3> QED
      BY <3>1, <3>2
  <2>5. ASSUME errors' = {}, NEW h \in V \cup {f}, NEW g \in GroupsOf(h) \cap known
        PROVE  Keys(g) \subseteq GroupMembers(g)
    <3>1. CASE h = f
      BY <1>1, <2>5, <3>1 DEF BadGroup
    <3>2. CASE h # f
      BY <1>1, <2>1, <2>5, <3>2 DEF Structured
    <3> QED
      BY <3>1, <3>2
  <2>6. Structured(V \cup {f})'
    BY <1>1, <1>6, <2>4, <2>5 DEF Structured
  <2>7. todo' \subseteq Present(input) /\ input.direct \subseteq present'
        /\ present' \subseteq Mentioned(input)
    BY <1>1, <1>2, <1>5 DEF StructurePass, Present, Mentioned
  <2>8. \A g \in Groups : input.form[g] # "dict" => chosen'[g] = input.listed[g]
    BY <1>1, <1>2 DEF StructurePass
  <2> QED
    BY <1>1, <1>2, <2>1, <2>3, <2>6, <2>7, <2>8 DEF StructurePass
<1> QED
  BY <1>1, <1>2, <1>9, <1>10, <1>11 DEF ValidatorInv, SelectPass, RequiredPass, GroupsPass,
      AttributesPass, Finished

LEMMA SelectionFits ==
    ASSUME ValidatorTypeOK, SelectPass, step = "select", NEW g \in Groups
    PROVE  /\ Selection(g) \in Lists
           /\ Selection(g).names \subseteq GroupMembers(g)
           /\ Rel[g] = "mandatory" =>
                Selection(g) = [names |-> GroupMembers(g), repeats |-> FALSE]
<1>1. GroupMembers(g) \subseteq Features
  BY DEF GroupMembers
<1>2. Default[g] # NoDefault => Default[g] \subseteq GroupMembers(g)
  BY FeatureModelAssumption DEF HasGroups
<1>3. CASE Rel[g] = "mandatory"
  BY <1>1, <1>3 DEF Selection, Lists
<1>4. CASE Rel[g] # "mandatory" /\ g \in known
  <2>1. chosen[g].names \subseteq GroupMembers(g) /\ chosen[g] \in Lists
    BY <1>4 DEF SelectPass, ValidatorTypeOK
  <2> QED
    BY <1>4, <2>1 DEF Selection
<1>5. CASE Rel[g] # "mandatory" /\ g \notin known
  BY <1>1, <1>2, <1>5 DEF Selection, Lists, NoList
<1> QED
  BY <1>3, <1>4, <1>5

LEMMA SelectHolds ==
    ASSUME ValidatorInv, NEW f \in Features, VisitSelect(f)
    PROVE  ValidatorInv'
<1> DEFINE decided == {g \in GroupsOf(f) : ~Undecided(g)}
           added == UNION {Selection(g).names : g \in decided}
<1>1. /\ step = "select" /\ f \in todo
      /\ UNCHANGED <<step, input, values, enabled, outcome, again>>
      /\ known' = known \cup decided
      /\ chosen' = [g \in Groups |-> IF g \in decided THEN Selection(g) ELSE chosen[g]]
      /\ present' = present \cup added
      /\ todo' = (todo \ {f}) \cup (Children(f) \cap present')
      /\ errors' \in {errors, errors \cup {f}}
      /\ errors' = {} =>
           /\ GroupsOf(f) = decided
           /\ \A c \in Children(f) \cap present : c \in Selection(GroupOf[c]).names
  BY DEF VisitSelect, Visiting, VisitNext, Report
<1>2. /\ ValidatorTypeOK /\ Copied /\ SelectPass /\ outcome = "none"
  BY <1>1 DEF ValidatorInv
<1>3. \A g \in decided : /\ g \in Groups /\ Owner[g] = f
                         /\ Selection(g) \in Lists
                         /\ Selection(g).names \subseteq GroupMembers(g)
                         /\ Rel[g] = "mandatory" =>
                              Selection(g) = [names |-> GroupMembers(g), repeats |-> FALSE]
  BY <1>1, <1>2, SelectionFits DEF GroupsOf
<1>4. added \subseteq Children(f) /\ Children(f) \subseteq Features \ {Root}
  BY <1>3, Members DEF Children
<1> HIDE DEF decided, added
<1>5. /\ present' \subseteq Features \ {Root} /\ todo' \subseteq Features
      /\ errors' \subseteq Features /\ known' \subseteq Groups
      /\ chosen' \in [Groups -> Lists]
  BY <1>1, <1>2, <1>3, <1>4 DEF ValidatorTypeOK
<1>6. ValidatorTypeOK'
  BY <1>1, <1>2, <1>5 DEF ValidatorTypeOK
<1>7. \A g \in Groups : chosen'[g] = IF g \in decided THEN Selection(g) ELSE chosen[g]
  BY <1>1
<1>8. Copied'
  <2>1. \A g \in Groups : /\ g \notin known' => chosen'[g] = NoList
                          /\ chosen'[g].names \subseteq Children(Owner[g])
    BY <1>1, <1>2, <1>3, <1>7, Members DEF Copied
  <2> QED
    BY <2>1 DEF Copied
<1>9. NestedCopy'
  <2>1. NestedCopy
    BY <1>1, <1>2 DEF SelectPass
  <2>2. f \in present \cup {Root}
    BY <1>1, <2>1 DEF NestedCopy
  <2>3. \A c \in present' : Parent[c] \in present' \cup {Root}
    BY <1>1, <1>4, <2>1, <2>2 DEF NestedCopy, Children
  <2>4. todo' \subseteq present' \cup {Root}
    BY <1>1, <2>1 DEF NestedCopy
  <2>5. \A g \in known' : Owner[g] \in present' \cup {Root}
    BY <1>1, <1>3, <2>1, <2>2 DEF NestedCopy
  <2>6. \A a \in Attributes : values'[a] # "none" => AttributeOf[a] \in present' \cup {Root}
    BY <1>1, <2>1 DEF NestedCopy
  <2> QED
    BY <2>3, <2>4, <2>5, <2>6 DEF NestedCopy
<1>10. \A g \in known' : chosen'[g].names \subseteq GroupMembers(g)
  BY <1>1, <1>2, <1>3, <1>5, <1>7 DEF SelectPass
<1>11. PICK V \in SUBSET Features : Covers(V) /\ (errors = {} => Selected(V))
  BY <1>1, <1>2 DEF SelectPass
<1>12. Covers(V \cup {f})'
  <2>1. \A h \in Features \ {f} : Children(h) \cap present' \subseteq present
    BY <1>1, <1>4 DEF Children
  <2> QED
    BY <1>1, <1>11, <2>1, CoversNext
<1>13. ASSUME errors' = {}, NEW h \in V \cup {f}, NEW g \in GroupsOf(h)
       PROVE  Listing(g)'
  <2>1. g \in Groups /\ Owner[g] = h
    BY <1>13 DEF GroupsOf
  <2>2. CASE h = f
    <3>1. g \in decided /\ chosen'[g] = Selection(g)
      BY <1>1, <1>7, <1>13, <2>1, <2>2
    <3>2. GroupMembers(g) \cap present \subseteq Selection(g).names
      BY <1>1, <1>13, <2>1, <2>2, Members DEF GroupMembers
    <3>3. GroupMembers(g) \cap added \subseteq Selection(g).names
      BY <1>3 DEF GroupMembers, added
    <3>4. Selection(g).names \subseteq added
      BY <3>1 DEF added
    <3> QED
      BY <1>1, <1>3, <3>1, <3>2, <3>3, <3>4 DEF Listing
  <2>3. CASE h # f
    <3>1. g \notin decided /\ chosen'[g] = chosen[g]
      BY <1>3, <1>7, <2>1, <2>3
    <3>2. GroupMembers(g) \cap added = {}
      BY <1>4, <2>1, <2>3, Members DEF Children
    <3>3. Selected(V) /\ h \in V
      BY <1>1, <1>11, <1>13, <2>3
    <3> QED
      BY <1>1, <1>13, <3>1, <3>2, <3>3 DEF Selected, Listing
  <2> QED
    BY <2>2, <2>3
<1>14. errors' = {} => Selected(V \cup {f})'
  BY <1>13 DEF Selected
<1>15. SelectPass'
  <2>1. enabled' = {} /\ Mentioned(input)' \subseteq present'
    BY <1>1, <1>2 DEF SelectPass, Mentioned
  <2> QED
    BY <1>9, <1>10, <1>11, <1>12, <1>14, <2>1 DEF SelectPass
<1> QED
  BY <1>1, <1>2, <1>6, <1>8, <1>15 DEF ValidatorInv, StructurePass, RequiredPass, GroupsPass,
      AttributesPass, Finished

LEMMA RequiredHolds ==
    ASSUME ValidatorInv, NEW f \in Features, VisitRequired(f)
    PROVE  ValidatorInv'
<1>1. /\ step = "required" /\ f \in todo
      /\ UNCHANGED <<step, input, present, chosen, known, values, errors, outcome, again>>
      /\ enabled' = enabled \cup {f}
      /\ todo' = (todo \ {f}) \cup (Children(f) \cap present)
  BY DEF VisitRequired, Visiting, VisitNext
<1>2. /\ ValidatorTypeOK /\ Copied /\ RequiredPass /\ outcome = "none"
      /\ NestedCopy /\ enabled \subseteq Features
  BY <1>1 DEF ValidatorInv, RequiredPass, ValidatorTypeOK
<1>3. ValidatorTypeOK'
  <2>1. todo' \subseteq Features /\ enabled' \subseteq Features
    BY <1>1, <1>2 DEF ValidatorTypeOK, Children
  <2> QED
    BY <1>1, <1>2, <2>1 DEF ValidatorTypeOK
<1>4. Copied'
  BY <1>1, <1>2 DEF Copied
<1>5. NestedCopy'
  BY <1>1, <1>2 DEF NestedCopy
<1>6. Covers(enabled)'
  <2>1. PICK V \in SUBSET Features : V = enabled
    BY <1>2
  <2>2. Covers(V)
    BY <1>1, <1>2, <2>1 DEF RequiredPass
  <2>3. Covers(V \cup {f})'
    BY <1>1, <2>2, CoversNext
  <2> QED
    BY <1>1, <2>1, <2>3 DEF Covers
<1>7. \A h \in (enabled' \cup todo') \ {Root} : Parent[h] \in enabled' /\ h \in present
  BY <1>1, <1>2 DEF RequiredPass, Children
<1>8. \E V \in SUBSET Features :
        /\ enabled' \cup todo' \subseteq V
        /\ \A h \in V : Children(h) \cap present \subseteq V
        /\ Selected(V)'
  <2>1. PICK V \in SUBSET Features :
          /\ enabled \cup todo \subseteq V
          /\ \A h \in V : Children(h) \cap present \subseteq V
          /\ Selected(V)
    BY <1>1, <1>2 DEF RequiredPass
  <2>2. enabled' \cup todo' \subseteq V
    BY <1>1, <2>1
  <2>3. Selected(V)'
    BY <1>1, <2>1 DEF Selected, Listing
  <2> QED
    BY <2>1, <2>2, <2>3
<1>9. RequiredPass'
  <2>1. Mentioned(input)' \subseteq present'
    BY <1>1, <1>2 DEF RequiredPass, Mentioned
  <2> QED
    BY <1>1, <1>5, <1>6, <1>7, <1>8, <2>1 DEF RequiredPass
<1> QED
  BY <1>1, <1>2, <1>3, <1>4, <1>9 DEF ValidatorInv, StructurePass, SelectPass, GroupsPass,
      AttributesPass, Finished

LEMMA GroupsHolds ==
    ASSUME ValidatorInv, NEW f \in Features, VisitGroups(f)
    PROVE  ValidatorInv'
<1>1. /\ step = "groups" /\ f \in todo
      /\ UNCHANGED <<step, input, present, chosen, known, values, enabled, outcome, again>>
      /\ todo' = (todo \ {f}) \cup (Children(f) \cap present)
      /\ errors' \in {errors, errors \cup {f}}
      /\ errors' = {} => \A g \in GroupsOf(f) : ~Broken(g)
  BY DEF VisitGroups, Visiting, VisitNext, Report
<1>2. /\ ValidatorTypeOK /\ Copied /\ GroupsPass /\ outcome = "none"
      /\ NestedCopy /\ Enabled
  BY <1>1 DEF ValidatorInv, GroupsPass
<1>3. ValidatorTypeOK'
  <2>1. todo' \subseteq Features /\ errors' \subseteq Features
    BY <1>1, <1>2 DEF ValidatorTypeOK, Children
  <2> QED
    BY <1>1, <1>2, <2>1 DEF ValidatorTypeOK
<1>4. Copied'
  BY <1>1, <1>2 DEF Copied
<1>5. NestedCopy'
  BY <1>1, <1>2 DEF NestedCopy
<1>6. Enabled'
  BY <1>1, <1>2 DEF Enabled, Mentioned, Listing
<1>7. PICK V \in SUBSET Features :
        Covers(V) /\ (errors = {} => \A h \in V : \A g \in GroupsOf(h) : ~Broken(g))
  BY <1>1, <1>2 DEF GroupsPass
<1>8. Covers(V \cup {f})'
  BY <1>1, <1>7, CoversNext
<1>9. errors' = {} => \A h \in V \cup {f} : \A g \in GroupsOf(h) : ~Broken(g)'
  <2>1. \A g : Broken(g)' = Broken(g)
    BY <1>1 DEF Broken
  <2> QED
    BY <1>1, <1>7, <2>1
<1>10. GroupsPass'
  BY <1>5, <1>6, <1>7, <1>8, <1>9 DEF GroupsPass
<1> QED
  BY <1>1, <1>2, <1>3, <1>4, <1>10 DEF ValidatorInv, StructurePass, SelectPass, RequiredPass,
      AttributesPass, Finished

LEMMA AttributesHolds ==
    ASSUME ValidatorInv, NEW f \in Features, VisitAttributes(f)
    PROVE  ValidatorInv'
<1>1. /\ step = "attributes" /\ f \in todo
      /\ UNCHANGED <<step, input, present, chosen, known, enabled, outcome, again>>
      /\ values' = [a \in Attributes |->
                      IF AttributeOf[a] = f /\ values[a] = "none" THEN Fallback[a]
                      ELSE values[a]]
      /\ todo' = (todo \ {f}) \cup (Children(f) \cap present)
      /\ errors' \in {errors, errors \cup {f}}
      /\ errors' = {} =>
           \A a \in AttributesOf(f) : values[a] # "invalid" /\ values'[a] # "none"
  BY DEF VisitAttributes, Visiting, VisitNext, Report
<1>2. /\ ValidatorTypeOK /\ Copied /\ outcome = "none"
      /\ NestedCopy /\ Enabled /\ Unbroken
  BY <1>1 DEF ValidatorInv, Finished
<1>3. ValidatorTypeOK'
  <2>1. todo' \subseteq Features /\ errors' \subseteq Features
    BY <1>1, <1>2 DEF ValidatorTypeOK, Children
  <2>2. values' \in [Attributes -> Values]
    BY <1>1, <1>2, FeatureModelAssumption DEF ValidatorTypeOK, HasAttributes, Values
  <2> QED
    BY <1>1, <1>2, <2>1, <2>2 DEF ValidatorTypeOK
<1>4. Copied'
  BY <1>1, <1>2 DEF Copied
<1>5. NestedCopy'
  BY <1>1, <1>2 DEF NestedCopy
<1>6. Enabled' /\ Unbroken'
  BY <1>1, <1>2 DEF Enabled, Unbroken, Broken, Mentioned, Listing
<1>7. Finished'
  BY <1>1, <1>2, <1>5, <1>6 DEF Finished
<1>8. PICK V \in SUBSET Features :
        /\ Covers(V)
        /\ errors = {} /\ DefaultsValid =>
             \A h \in V : \A a \in AttributesOf(h) : values[a] = "valid"
  BY <1>1 DEF ValidatorInv, AttributesPass
<1>9. Covers(V \cup {f})'
  BY <1>1, <1>8, CoversNext
<1>10. ASSUME errors' = {}, DefaultsValid, NEW h \in V \cup {f}, NEW a \in AttributesOf(h)
       PROVE  values'[a] = "valid"
  <2>1. a \in Attributes /\ AttributeOf[a] = h /\ values[a] \in Values
        /\ Fallback[a] \in {"none", "valid"}
    BY <1>2, <1>10, FeatureModelAssumption
       DEF AttributesOf, ValidatorTypeOK, HasAttributes, DefaultsValid
  <2>2. values'[a] = IF h = f /\ values[a] = "none" THEN Fallback[a] ELSE values[a]
    BY <1>1, <2>1
  <2>3. CASE h = f
    BY <1>1, <1>10, <2>1, <2>2, <2>3 DEF Values
  <2>4. CASE h # f
    BY <1>1, <1>8, <1>10, <2>2, <2>4
  <2> QED
    BY <2>3, <2>4
<1>11. AttributesPass'
  BY <1>8, <1>9, <1>10 DEF AttributesPass
<1> QED
  BY <1>1, <1>2, <1>3, <1>4, <1>7, <1>11 DEF ValidatorInv, StructurePass, SelectPass, RequiredPass,
      GroupsPass
-----------------------------------------------------------------------------
(* The end of each pass.                                                   *)

(* All that was mentioned has moved where the feature model has it.        *)
LEMMA StructureEnds ==
    ASSUME ValidatorTypeOK, StructurePass, step = "structure", todo = {}, errors = {}
    PROVE  /\ present = Mentioned(input)
           /\ \A f \in present : Parent[f] \in present \cup {Root}
           /\ \A g \in known : Owner[g] \in present \cup {Root}
           /\ \A a \in Attributes :
                values[a] # "none" => AttributeOf[a] \in present \cup {Root}
           /\ \A g \in known : chosen[g].names \subseteq GroupMembers(g)
<1>1. /\ input \in ProductSpecs /\ Nested(input) /\ Mentioned(input) \subseteq Features \ {Root}
      /\ Present(input) \subseteq Features
  BY Links DEF ValidatorTypeOK, ProductSpecs, Nested, Mentioned, Present
<1>2. PICK V \in SUBSET Features : Covers(V) /\ Structured(V)
  BY DEF StructurePass
<1>3. ASSUME NEW c \in Mentioned(input), Parent[c] \in V
      PROVE  c \in present
  <2>1. CASE c \in input.direct
    BY <2>1 DEF StructurePass
  <2>2. CASE c \in input.grouped
    <3>1. input.form[GroupOf[c]] = "dict" /\ GroupOf[c] \in GroupsOf(Parent[c])
      BY <1>1, <2>2, Links DEF Nested, GroupsOf
    <3>2. c \in Keys(GroupOf[c])
      BY <2>2, <3>1 DEF Keys
    <3> QED
      BY <1>2, <1>3, <3>1, <3>2 DEF Structured
  <2> QED
    BY <1>3, <2>1, <2>2 DEF Mentioned
<1>4. Root \in V
  BY <1>2 DEF Covers
<1>5. \A c \in Present(input) \ {Root} :
        Parent[c] \in Present(input) \cup {Root} /\ (Parent[c] \in V => c \in V)
  BY <1>1, <1>2, <1>3 DEF Nested, Present, Covers, Children
<1>6. Present(input) \subseteq V
  BY <1>1, <1>4, <1>5, Climb
<1>7. present = Mentioned(input)
  BY <1>1, <1>3, <1>6 DEF StructurePass, Nested, Present
<1>8. present \cup {Root} = Present(input)
  BY <1>7 DEF Present
<1>9. ASSUME NEW g \in known
      PROVE  Owner[g] \in Present(input) /\ chosen[g].names \subseteq GroupMembers(g)
  <2>1. g \in Groups /\ input.form[g] # "none"
    BY DEF StructurePass
  <2>2. Owner[g] \in Present(input)
    BY <1>1, <2>1 DEF Nested
  <2>3. g \in GroupsOf(Owner[g]) \cap known /\ Owner[g] \in V
    BY <1>6, <2>1, <2>2 DEF GroupsOf
  <2>4. Keys(g) \subseteq GroupMembers(g)
    BY <1>2, <2>3 DEF Structured
  <2>5. chosen[g].names = Keys(g)
    BY <1>2, <2>1, <2>3 DEF Structured, StructurePass, Keys
  <2> QED
    BY <2>2, <2>4, <2>5
<1>10. \A a \in Attributes : values[a] # "none" => AttributeOf[a] \in Present(input)
  BY <1>1 DEF StructurePass, Nested
<1>11. \A f \in present : Parent[f] \in Present(input)
  BY <1>1, <1>7 DEF Nested
<1> QED
  BY <1>7, <1>8, <1>9, <1>10, <1>11

LEMMA RequiredEnds ==
    ASSUME ValidatorTypeOK, RequiredPass, step = "required", todo = {}
    PROVE  Enabled
<1>1. PICK V \in SUBSET Features :
        /\ enabled \subseteq V /\ Selected(V)
        /\ \A h \in V : Children(h) \cap present \subseteq V
  BY DEF RequiredPass
<1>2. /\ Root \in enabled
      /\ \A f \in enabled : Children(f) \cap present \subseteq enabled
      /\ \A f \in enabled \ {Root} : Parent[f] \in enabled /\ f \in present
  BY DEF RequiredPass, Covers
<1>3. Mentioned(input) \subseteq enabled
  <2>1. /\ Mentioned(input) \subseteq Features /\ Mentioned(input) \subseteq present
        /\ \A c \in Mentioned(input) : Parent[c] \in Mentioned(input) \cup {Root}
    BY DEF ValidatorTypeOK, ProductSpecs, Nested, Mentioned, Present, RequiredPass
  <2>2. \A c \in Mentioned(input) \ {Root} :
          Parent[c] \in Mentioned(input) \cup {Root} /\ c \in present
    BY <2>1
  <2>3. Covers(enabled)
    BY DEF RequiredPass
  <2> QED
    BY <2>1, <2>2, <2>3, CoversAll
<1>4. ASSUME NEW g \in Groups, Owner[g] \in enabled
      PROVE  Listing(g)
  <2>1. g \in GroupsOf(Owner[g]) /\ Owner[g] \in V
    BY <1>1, <1>4 DEF GroupsOf
  <2> QED
    BY <1>1, <2>1 DEF Selected
<1> QED
  BY <1>2, <1>3, <1>4 DEF Enabled

LEMMA GroupsEnd ==
    ASSUME ValidatorTypeOK, GroupsPass, step = "groups", todo = {}, errors = {}
    PROVE  Enabled /\ Unbroken
<1>1. Enabled /\ enabled \subseteq Features
  BY DEF GroupsPass, ValidatorTypeOK
<1>2. PICK V \in SUBSET Features :
        Covers(V) /\ \A h \in V : \A g \in GroupsOf(h) : ~Broken(g)
  BY DEF GroupsPass
<1>3. enabled \subseteq V
  BY <1>1, <1>2, CoversAll DEF Enabled
<1>4. Unbroken
  BY <1>2, <1>3 DEF Unbroken, GroupsOf
<1> QED
  BY <1>1, <1>4

LEMMA AttributesEnd ==
    ASSUME ValidatorTypeOK, Enabled, AttributesPass, step = "attributes", todo = {},
           errors = {}, DefaultsValid
    PROVE  \A a \in Attributes : AttributeOf[a] \in enabled => values[a] = "valid"
<1>1. PICK V \in SUBSET Features :
        Covers(V) /\ \A f \in V : \A a \in AttributesOf(f) : values[a] = "valid"
  BY DEF AttributesPass
<1>2. enabled \subseteq V
  BY <1>1, CoversAll DEF Enabled, ValidatorTypeOK
<1> QED
  BY <1>1, <1>2 DEF AttributesOf

(* A selection whose groups list what is there, unbroken, is a product.    *)
LEMMA EnabledIsConfiguration ==
    ASSUME Enabled, Unbroken
    PROVE  Configuration(enabled)
<1>1. ASSUME NEW g \in Groups, Owner[g] \in enabled
      PROVE  Satisfied(g, enabled)
  <2>1. Listing(g) /\ ~Broken(g)
    BY <1>1 DEF Enabled, Unbroken
  <2>2. GroupMembers(g) \subseteq Children(Owner[g]) /\ Root \notin GroupMembers(g)
    BY Members DEF GroupMembers
  <2>3. enabled \cap GroupMembers(g) = chosen[g].names
        /\ (Rel[g] = "mandatory" => chosen[g].names = GroupMembers(g))
    BY <1>1, <2>1, <2>2 DEF Enabled, Listing
  <2>4. Rel[g] \in Relations
    BY FeatureModelAssumption DEF HasGroups
  <2> QED
    BY <2>1, <2>3, <2>4 DEF Satisfied, Broken, Relations
<1> QED
  BY <1>1 DEF Configuration, Enabled

LEMMA EndHolds ==
    ASSUME ValidatorInv, EndStep
    PROVE  ValidatorInv'
<1>1. /\ todo = {} /\ step \in Steps
      /\ UNCHANGED <<input, present, chosen, known, values, enabled, errors, again>>
      /\ ValidatorTypeOK /\ Copied
      /\ outcome = "none"
  BY DEF EndStep, ValidatorInv, ValidatorTypeOK
<1>2. ValidatorTypeOK' /\ Copied'
  <2>1. step' \in Steps \cup {"idle"} /\ todo' \subseteq Features
        /\ outcome' \in {"none", "accepted", "rejected"}
    BY <1>1, Links DEF EndStep, StepAfter, Steps
  <2> QED
    BY <1>1, <2>1 DEF ValidatorTypeOK, Copied
<1>3. CASE errors # {}
  BY <1>1, <1>2, <1>3 DEF EndStep, ValidatorInv, StructurePass, SelectPass, RequiredPass,
      GroupsPass, AttributesPass, Finished
<1>4. CASE errors = {} /\ step = "structure"
  <2>1. step' = "select" /\ todo' = {Root} /\ outcome' = "none"
    BY <1>4 DEF EndStep, StepAfter
  <2>2. /\ StructurePass /\ enabled = {} /\ present = Mentioned(input)
        /\ \A f \in present : Parent[f] \in present \cup {Root}
        /\ \A g \in known : Owner[g] \in present \cup {Root}
        /\ \A a \in Attributes :
             values[a] # "none" => AttributeOf[a] \in present \cup {Root}
        /\ \A g \in known : chosen[g].names \subseteq GroupMembers(g)
    BY <1>1, <1>4, StructureEnds DEF ValidatorInv, StructurePass
  <2>3. NestedCopy'
    BY <1>1, <2>1, <2>2 DEF NestedCopy
  <2>4. Covers({})' /\ Selected({})'
    BY <2>1 DEF Covers, Selected
  <2>5. Mentioned(input)' \subseteq present'
    BY <1>1, <2>2 DEF Mentioned
  <2> QED
    BY <1>1, <1>2, <2>1, <2>2, <2>3, <2>4, <2>5 DEF ValidatorInv, StructurePass, SelectPass,
        RequiredPass, GroupsPass, AttributesPass, Finished
<1>5. CASE errors = {} /\ step = "select"
  <2>1. step' = "required" /\ todo' = {Root} /\ outcome' = "none"
    BY <1>5 DEF EndStep, StepAfter
  <2>2. NestedCopy /\ Mentioned(input) \subseteq present /\ enabled = {}
    BY <1>5 DEF ValidatorInv, SelectPass
  <2>3. PICK V \in SUBSET Features : Covers(V) /\ Selected(V)
    BY <1>5 DEF ValidatorInv, SelectPass
  <2>4. NestedCopy' /\ Mentioned(input)' \subseteq present'
    BY <1>1, <2>1, <2>2 DEF NestedCopy, Mentioned
  <2>5. Covers(enabled)'
    BY <1>1, <2>1, <2>2 DEF Covers
  <2>6. Selected(V)' /\ enabled' \cup todo' \subseteq V
        /\ \A h \in V : Children(h) \cap present' \subseteq V
    BY <1>1, <2>1, <2>2, <2>3 DEF Selected, Listing, Covers
  <2>7. \A f \in (enabled' \cup todo') \ {Root} : Parent[f] \in enabled' /\ f \in present'
    BY <1>1, <2>1, <2>2
  <2>8. RequiredPass'
    BY <2>4, <2>5, <2>6, <2>7 DEF RequiredPass
  <2> QED
    BY <1>2, <2>1, <2>8 DEF ValidatorInv, StructurePass, SelectPass,
        GroupsPass, AttributesPass, Finished
<1>6. CASE errors = {} /\ step = "required"
  <2>1. step' = "groups" /\ todo' = {Root} /\ outcome' = "none"
    BY <1>6 DEF EndStep, StepAfter
  <2>2. NestedCopy /\ Enabled
    BY <1>1, <1>6, RequiredEnds DEF ValidatorInv, RequiredPass
  <2>3. NestedCopy' /\ Enabled'
    BY <1>1, <2>1, <2>2 DEF NestedCopy, Enabled, Mentioned, Listing
  <2>4. Covers({})'
    BY <2>1 DEF Covers
  <2> QED
    BY <1>2, <2>1, <2>3, <2>4 DEF ValidatorInv, StructurePass, SelectPass, RequiredPass,
        GroupsPass, AttributesPass, Finished
<1>7. CASE errors = {} /\ step = "groups"
  <2>1. step' = "attributes" /\ todo' = {Root} /\ outcome' = "none"
    BY <1>7 DEF EndStep, StepAfter
  <2>2. NestedCopy /\ Enabled /\ Unbroken
    BY <1>1, <1>7, GroupsEnd DEF ValidatorInv, GroupsPass
  <2>3. NestedCopy' /\ Enabled' /\ Unbroken'
    BY <1>1, <2>1, <2>2 DEF NestedCopy, Enabled, Unbroken, Broken, Mentioned, Listing
  <2>4. Covers({})'
    BY <2>1 DEF Covers
  <2>5. AttributesPass'
    BY <2>4 DEF AttributesPass
  <2> QED
    BY <1>2, <2>1, <2>3, <2>5 DEF ValidatorInv, StructurePass, SelectPass, RequiredPass,
        GroupsPass, Finished
<1>8. CASE errors = {} /\ step = "attributes"
  <2>1. step' = "idle" /\ todo' = {} /\ outcome' = "accepted"
    BY <1>8 DEF EndStep, StepAfter
  <2>2. NestedCopy /\ Enabled /\ Unbroken
    BY <1>8 DEF ValidatorInv, Finished
  <2>3. NestedCopy' /\ Enabled' /\ Unbroken'
    BY <1>1, <2>1, <2>2 DEF NestedCopy, Enabled, Unbroken, Broken, Mentioned, Listing
  <2>4. DefaultsValid =>
          \A a \in Attributes : AttributeOf[a] \in enabled' => values'[a] = "valid"
    BY <1>1, <1>8, <2>2, AttributesEnd DEF ValidatorInv
  <2>5. Finished'
    BY <2>3, <2>4 DEF Finished
  <2> QED
    BY <1>2, <2>1, <2>5 DEF ValidatorInv, StructurePass, SelectPass, RequiredPass,
        GroupsPass, AttributesPass
<1> QED
  BY <1>1, <1>3, <1>4, <1>5, <1>6, <1>7, <1>8 DEF Steps
-----------------------------------------------------------------------------
LEMMA StepHolds == ValidatorInv /\ [ValidatorNext]_validatorVars => ValidatorInv'
<1> SUFFICES ASSUME ValidatorInv, [ValidatorNext]_validatorVars PROVE ValidatorInv'
  OBVIOUS
<1>1. CASE UNCHANGED validatorVars
  <2>1. /\ step' = step /\ todo' = todo /\ input' = input /\ present' = present
        /\ chosen' = chosen /\ known' = known /\ values' = values /\ enabled' = enabled
        /\ errors' = errors /\ outcome' = outcome /\ again' = again
    BY <1>1 DEF validatorVars
  <2>2. /\ ValidatorTypeOK' = ValidatorTypeOK /\ Copied' = Copied
        /\ NestedCopy' = NestedCopy
    BY <2>1 DEF ValidatorTypeOK, Copied, NestedCopy
  <2>3. \A V : Covers(V)' = Covers(V) /\ Selected(V)' = Selected(V)
    BY <2>1 DEF Covers, Selected, Listing
  <2>4. \A g : Keys(g)' = Keys(g) /\ Broken(g)' = Broken(g)
    BY <2>1 DEF Keys, Broken
  <2>5. \A V : Structured(V)' = Structured(V)
    BY <2>1, <2>4 DEF Structured
  <2>6. Enabled' = Enabled /\ Unbroken' = Unbroken
    BY <2>1, <2>4 DEF Enabled, Unbroken, Listing, Mentioned
  <2>7. StructurePass' /\ SelectPass'
    BY <2>1, <2>2, <2>3, <2>5 DEF ValidatorInv, StructurePass, SelectPass, Mentioned, Present
  <2>8. RequiredPass' /\ GroupsPass'
    BY <2>1, <2>2, <2>3, <2>4, <2>6 DEF ValidatorInv, RequiredPass, GroupsPass, Mentioned
  <2>9. AttributesPass' /\ Finished'
    BY <2>1, <2>2, <2>3, <2>4, <2>6 DEF ValidatorInv, AttributesPass, Finished
  <2> QED
    BY <2>1, <2>2, <2>7, <2>8, <2>9 DEF ValidatorInv
<1>2. CASE ValidateProduct
  <2>1. PICK p \in Products : Validate(p, FALSE)
    BY <1>2, ProductsAssumption DEF ValidateProduct
  <2> QED
    BY <2>1, ProductsAssumption, ValidateHolds
<1>3. CASE ValidateFullspec
  <2>1. ValidatorTypeOK /\ Copied /\ NestedCopy /\ Validate(Fullspec, TRUE)
    BY <1>3 DEF ValidateFullspec, ValidatorInv, Finished
  <2>2. \E p \in ProductSpecs : Nested(p) /\ Validate(p, TRUE)
    BY <2>1, FullspecIsProduct
  <2> QED
    BY <2>2, ValidateHolds
<1>4. CASE \E f \in Features : VisitMalformed(f)
  <2>1. /\ outcome' = "rejected" /\ step' = "idle"
        /\ UNCHANGED <<todo, input, present, chosen, known, values, enabled, errors, again>>
    BY <1>4 DEF VisitMalformed
  <2> QED
    BY <2>1 DEF ValidatorInv, ValidatorTypeOK, Copied, StructurePass, SelectPass,
        RequiredPass, GroupsPass, AttributesPass, Finished
<1>5. CASE \E f \in Features : Visit(f)
  BY <1>4, <1>5, StructureHolds, SelectHolds, RequiredHolds, GroupsHolds, AttributesHolds
     DEF Visit
<1>6. CASE EndStep
  BY <1>6, EndHolds
<1> QED
  BY <1>1, <1>2, <1>3, <1>5, <1>6 DEF ValidatorNext

THEOREM ValidatorInvariant == ValidatorSpec => []ValidatorInv
  BY InitHolds, StepHolds, PTL DEF ValidatorSpec

(* A validator keeps its types: what it works on stays nested as the       *)
(* feature model nests it, and so does every fullspec it makes.            *)
THEOREM ValidatorType == ValidatorSpec => []ValidatorTypeOK
<1>1. ValidatorInv => ValidatorTypeOK
  BY DEF ValidatorInv
<1> QED
  BY <1>1, ValidatorInvariant, PTL

(* What is accepted is a product of the product line and has every feature *)
(* that was mentioned, for any feature model, any product, any order of    *)
(* keys, and whatever the validator was used for before.                   *)
THEOREM AcceptedConfiguration == ValidatorSpec => []AcceptedIsConfiguration
<1>1. ValidatorInv => AcceptedIsConfiguration
  BY EnabledIsConfiguration DEF ValidatorInv, Finished, AcceptedIsConfiguration, Enabled
<1> QED
  BY <1>1, ValidatorInvariant, PTL
-----------------------------------------------------------------------------
(* A fullspec validated again.                                             *)

LEMMA FullspecIsComplete ==
    ASSUME ValidatorTypeOK, NestedCopy, Enabled, Unbroken,
           \A a \in Attributes : AttributeOf[a] \in enabled => values[a] = "valid"
    PROVE  Complete(Fullspec)
<1> DEFINE p == Fullspec
<1>1. /\ p.direct = present /\ p.grouped = {} /\ p.listed = chosen /\ p.strange = {}
      /\ p.malformed = {} /\ p.values = values
      /\ p.form = [g \in Groups |-> IF g \in known THEN "list" ELSE "none"]
  BY DEF Fullspec
<1>2. present \subseteq enabled
  <2>1. present \subseteq Features
    BY DEF ValidatorTypeOK
  <2>2. \A c \in present \ {Root} :
          Parent[c] \in present \cup {Root} /\ (Parent[c] \in enabled => c \in enabled)
    BY <2>1 DEF NestedCopy, Enabled, Children
  <2> QED
    BY <2>1, <2>2, Climb DEF Enabled
<1>3. Present(p) \subseteq enabled
  BY <1>1, <1>2 DEF Present, Mentioned, Enabled
<1> HIDE DEF p
<1>4. ASSUME NEW g \in Groups, Owner[g] \in Present(p)
      PROVE  /\ p.form[g] = "list"
             /\ GroupMembers(g) \cap p.direct = p.listed[g].names
             /\ Rel[g] = "mandatory" =>
                  p.listed[g] = [names |-> GroupMembers(g), repeats |-> FALSE]
             /\ Rel[g] = "alternative" =>
                  ~p.listed[g].repeats /\ \E c \in Features : p.listed[g].names = {c}
             /\ Rel[g] = "or" => p.listed[g].names # {}
  <2>1. Listing(g) /\ ~Broken(g)
    BY <1>3, <1>4 DEF Enabled, Unbroken
  <2> QED
    BY <1>1, <2>1 DEF Listing, Broken
<1> QED
  BY <1>1, <1>3, <1>4 DEF Complete, p

LEMMA Below ==
    ASSUME ValidatorInv, Unchanged, again, DefaultsValid, step # "idle", NEW f \in todo
    PROVE  /\ f \in Present(input) /\ Complete(input)
           /\ \A g \in GroupsOf(f) : g \in Groups /\ Owner[g] \in Present(input)
<1>1. Complete(input) /\ present = input.direct
  BY DEF Unchanged
<1>2. step \in Steps
  BY DEF ValidatorInv, ValidatorTypeOK
<1>3. CASE step = "structure"
  BY <1>1, <1>3 DEF ValidatorInv, StructurePass, GroupsOf
<1>4. CASE step # "structure"
  <2>1. NestedCopy
    BY <1>2, <1>4 DEF ValidatorInv, SelectPass, RequiredPass, GroupsPass, Finished, Steps
  <2> QED
    BY <1>1, <2>1 DEF NestedCopy, Present, Mentioned, GroupsOf
<1> QED
  BY <1>3, <1>4

LEMMA StructureUnchanged ==
    ASSUME ValidatorInv, Unchanged, NEW f \in Features, VisitStructure(f)
    PROVE  Unchanged'
<1> SUFFICES ASSUME again, DefaultsValid PROVE Unchanged'
  BY DEF VisitStructure, Unchanged
<1>1. /\ step = "structure" /\ f \in todo
      /\ Complete(input) /\ outcome # "rejected" /\ errors = {} /\ present = input.direct
      /\ chosen = input.listed /\ known = {g \in Groups : input.form[g] = "list"}
      /\ values = input.values
  BY DEF VisitStructure, Visiting, Unchanged
<1>2. \A g \in GroupsOf(f) : g \in Groups /\ Owner[g] \in Present(input)
  BY <1>1, Below
<1>3. ~\E g \in GroupsOf(f) : input.form[g] = "dict"
  BY <1>1, <1>2 DEF Complete
<1>4. \A g \in GroupsOf(f) : ~BadGroup(g)
  BY <1>1, <1>2 DEF Complete, BadGroup, Keys
<1>5. f \notin input.strange
  BY <1>1 DEF Complete
<1>6. present' = present
  BY <1>3 DEF VisitStructure
<1>7. chosen' = chosen
  <2>1. chosen \in [Groups -> Lists]
    BY DEF ValidatorInv, ValidatorTypeOK
  <2> QED
    BY <1>3, <2>1 DEF VisitStructure
<1>8. errors' = errors
  BY <1>4, <1>5 DEF VisitStructure, Report
<1> QED
  BY <1>1, <1>6, <1>7, <1>8 DEF VisitStructure, Unchanged

LEMMA SelectUnchanged ==
    ASSUME ValidatorInv, Unchanged, NEW f \in Features, VisitSelect(f)
    PROVE  Unchanged'
<1> SUFFICES ASSUME again, DefaultsValid PROVE Unchanged'
  BY DEF VisitSelect, Unchanged
<1> DEFINE decided == {g \in GroupsOf(f) : ~Undecided(g)}
           added == UNION {Selection(g).names : g \in decided}
<1>1. /\ step = "select" /\ f \in todo
      /\ Complete(input) /\ outcome # "rejected" /\ errors = {} /\ present = input.direct
      /\ chosen = input.listed /\ known = {g \in Groups : input.form[g] = "list"}
      /\ values = input.values
  BY DEF VisitSelect, Visiting, Unchanged
<1>2. \A g \in GroupsOf(f) : g \in Groups /\ Owner[g] \in Present(input)
  BY <1>1, Below
<1>3. \A g \in GroupsOf(f) : /\ g \in known
                             /\ GroupMembers(g) \cap present = chosen[g].names
                             /\ Selection(g) = chosen[g]
  BY <1>1, <1>2 DEF Complete, Selection
<1>4. decided = GroupsOf(f)
  BY <1>3 DEF Undecided
<1>5. added \subseteq present
  BY <1>3, <1>4
<1>6. \A c \in Children(f) \cap present : c \in Selection(GroupOf[c]).names
  BY <1>3, Members DEF GroupMembers
<1>7. /\ known' = known \cup decided
      /\ chosen' = [g \in Groups |-> IF g \in decided THEN Selection(g) ELSE chosen[g]]
      /\ present' = present \cup added
      /\ UNCHANGED <<input, values, outcome, again>>
  BY DEF VisitSelect
<1>8. errors' = errors
  BY <1>4, <1>6 DEF VisitSelect, Report
<1> HIDE DEF decided, added
<1>9. known' = known /\ present' = present
  BY <1>3, <1>4, <1>5, <1>7
<1>10. chosen' = chosen
  <2>1. chosen \in [Groups -> Lists]
    BY DEF ValidatorInv, ValidatorTypeOK
  <2> QED
    BY <1>3, <1>4, <1>7, <2>1
<1> QED
  BY <1>1, <1>7, <1>8, <1>9, <1>10 DEF Unchanged

LEMMA GroupsUnchanged ==
    ASSUME ValidatorInv, Unchanged, NEW f \in Features, VisitGroups(f)
    PROVE  Unchanged'
<1> SUFFICES ASSUME again, DefaultsValid PROVE Unchanged'
  BY DEF VisitGroups, Unchanged
<1>1. step = "groups" /\ f \in todo /\ Complete(input) /\ chosen = input.listed
  BY DEF VisitGroups, Visiting, Unchanged
<1>2. \A g \in GroupsOf(f) : g \in Groups /\ Owner[g] \in Present(input)
  BY <1>1, Below
<1>3. \A g \in GroupsOf(f) : ~Broken(g)
  BY <1>1, <1>2 DEF Complete, Broken
<1>4. errors' = errors
  BY <1>3 DEF VisitGroups, Report
<1> QED
  BY <1>4 DEF VisitGroups, Unchanged

LEMMA AttributesUnchanged ==
    ASSUME ValidatorInv, Unchanged, NEW f \in Features, VisitAttributes(f)
    PROVE  Unchanged'
<1> SUFFICES ASSUME again, DefaultsValid PROVE Unchanged'
  BY DEF VisitAttributes, Unchanged
<1>1. step = "attributes" /\ f \in todo /\ Complete(input) /\ values = input.values
  BY DEF VisitAttributes, Visiting, Unchanged
<1>2. f \in Present(input)
  BY <1>1, Below
<1>3. \A a \in AttributesOf(f) : a \in Attributes /\ AttributeOf[a] = f /\ values[a] = "valid"
  BY <1>1, <1>2 DEF Complete, AttributesOf
<1>4. values' = values
  <2>1. values \in [Attributes -> Values]
    BY DEF ValidatorInv, ValidatorTypeOK
  <2>2. \A a \in Attributes : AttributeOf[a] = f => values[a] = "valid"
    BY <1>3 DEF AttributesOf
  <2>3. values' = [a \in Attributes |->
                     IF AttributeOf[a] = f /\ values[a] = "none" THEN Fallback[a]
                     ELSE values[a]]
    BY DEF VisitAttributes
  <2> QED
    BY <2>1, <2>2, <2>3
<1>5. errors' = errors
  BY <1>3, <1>4 DEF VisitAttributes, Report
<1> QED
  BY <1>4, <1>5 DEF VisitAttributes, Unchanged

LEMMA StepUnchanged ==
    ASSUME ValidatorInv, Unchanged, [ValidatorNext]_validatorVars
    PROVE  Unchanged'
<1>1. CASE UNCHANGED validatorVars
  BY <1>1 DEF validatorVars, Unchanged
<1>2. CASE ValidateProduct
  BY <1>2 DEF ValidateProduct, Validate, Unchanged
<1>3. CASE ValidateFullspec
  <2>1. DefaultsValid => Complete(Fullspec)
    BY <1>3, FullspecIsComplete DEF ValidateFullspec, ValidatorInv, Finished
  <2>2. \E p : (DefaultsValid => Complete(p)) /\ Validate(p, TRUE)
    BY <1>3, <2>1 DEF ValidateFullspec
  <2>3. PICK p : (DefaultsValid => Complete(p)) /\ Validate(p, TRUE)
    BY <2>2
  <2>4. DefaultsValid =>
          {g \in Groups : p.form[g] # "none"} = {g \in Groups : p.form[g] = "list"}
    BY <2>3 DEF Complete
  <2> QED
    BY <2>3, <2>4 DEF Validate, Unchanged
<1>4. CASE \E f \in Features : VisitMalformed(f)
  BY <1>4 DEF VisitMalformed, Unchanged, Complete
<1>5. CASE \E f \in Features : VisitRequired(f)
  BY <1>5 DEF VisitRequired, Unchanged
<1>6. CASE \E f \in Features : Visit(f)
  BY <1>4, <1>5, <1>6, StructureUnchanged, SelectUnchanged, GroupsUnchanged,
     AttributesUnchanged DEF Visit
<1>7. CASE EndStep
  BY <1>7 DEF EndStep, Unchanged
<1> QED
  BY <1>1, <1>2, <1>3, <1>6, <1>7 DEF ValidatorNext

THEOREM UnchangedInvariant == ValidatorSpec => []Unchanged
<1>1. ValidatorInit => Unchanged
  BY DEF ValidatorInit, Unchanged
<1>2. ValidatorInv /\ Unchanged /\ [ValidatorNext]_validatorVars => Unchanged'
  BY StepUnchanged
<1> QED
  BY <1>1, <1>2, ValidatorInvariant, PTL DEF ValidatorSpec

(* The fullspec of a product is accepted as a product and is its own       *)
(* fullspec, for any feature model whose defaults keep their schema.       *)
THEOREM FullspecFixpoint == ValidatorSpec => []FullspecIsFixpoint
<1>1. ASSUME ValidatorInv, Unchanged, again, outcome # "none", DefaultsValid
      PROVE  outcome = "accepted" /\ Fullspec = input
  <2>1. /\ Complete(input) /\ outcome # "rejected" /\ present = input.direct
        /\ chosen = input.listed /\ known = {g \in Groups : input.form[g] = "list"}
        /\ values = input.values /\ input \in ProductSpecs
        /\ outcome \in {"none", "accepted", "rejected"}
    BY <1>1 DEF Unchanged, ValidatorInv, ValidatorTypeOK
  <2>2. input.form = [g \in Groups |-> IF g \in known THEN "list" ELSE "none"]
    BY <2>1 DEF ProductSpecs, Complete
  <2>3. input = [direct |-> input.direct, grouped |-> input.grouped, form |-> input.form,
                 listed |-> input.listed, strange |-> input.strange,
                 malformed |-> input.malformed, values |-> input.values]
    BY <2>1 DEF ProductSpecs
  <2>4. Fullspec = input
    BY <2>1, <2>2, <2>3 DEF Fullspec, Complete
  <2> QED
    BY <1>1, <2>1, <2>4
<1>2. ValidatorInv /\ Unchanged => FullspecIsFixpoint
  BY <1>1 DEF FullspecIsFixpoint, DefaultsValid
<1> QED
  BY <1>2, ValidatorInvariant, UnchangedInvariant, PTL
-----------------------------------------------------------------------------
(* The verdict: nothing is refused without a reason.                       *)

(* The selection the product under validation describes.                   *)
TheSelection(p) == CHOOSE fs \in SUBSET Features : IsSelection(p, fs)
Goal == TheSelection(input)

(* A pass has visited V, each feature once and after its parent.           *)
Walked(V) ==
    /\ Covers(V)
    /\ V \cap todo = {}
    /\ \A c \in (V \cup todo) \ {Root} : Parent[c] \in V

SoundObject(f) ==
    /\ f \notin input.strange \cup input.malformed
    /\ \A g \in GroupsOf(f) :
         /\ input.form[g] # "other"
         /\ input.form[g] = "list" => input.listed[g].names \subseteq GroupMembers(g)
         /\ input.form[g] = "dict" => Keys(g) \cap input.direct = {}

(* What the value of g says before a default is looked up.                 *)
Stated(g) ==
    IF input.form[g] = "dict" THEN [names |-> Keys(g), repeats |-> FALSE]
    ELSE input.listed[g]

StructureVerdict ==
    step = "structure" /\ errors = {} =>
        \E V \in SUBSET Features :
            /\ Walked(V)
            /\ \A f \in V : SoundObject(f)
            /\ present = input.direct \cup {c \in input.grouped : Parent[c] \in V}
            /\ \A g \in Groups : Owner[g] \in V => chosen[g] = Stated(g)

(* The list of a group in the selection.                                   *)
Choice(g) ==
    [names |-> Wanted(input, g),
     repeats |-> Rel[g] # "mandatory" /\ input.listed[g].repeats]

Chosen(g) == Decided(input, g) /\ chosen[g] = Choice(g)

SelectVerdict ==
    step = "select" =>
        /\ WellFormed(input)
        /\ values = input.values
        /\ errors = {} => \E V \in SUBSET Features :
            /\ Walked(V)
            /\ V \cup todo \subseteq Goal
            /\ \A c \in Features \ {Root} :
                 c \in present <=>
                    IF Parent[c] \in V THEN c \in Wanted(input, GroupOf[c])
                    ELSE c \in Mentioned(input)
            /\ \A c \in Mentioned(input) : Parent[c] \in V => c \in Goal
            /\ \A g \in Groups :
                 IF Owner[g] \in V THEN Chosen(g)
                 ELSE /\ g \in known <=> input.form[g] # "none"
                      /\ chosen[g] = Stated(g)

(* Later passes work on that selection.                                    *)
SelectionMade ==
    /\ WellFormed(input)
    /\ present \cup {Root} = Goal
    /\ \A g \in Groups : Owner[g] \in Goal => Chosen(g)

AfterSelect ==
    /\ step \in {"required", "groups", "attributes"} \/ outcome = "accepted" =>
         SelectionMade
    /\ step \in {"required", "groups"} => values = input.values

Valued(a) ==
    \/ input.values[a] = "valid"
    \/ input.values[a] = "none" /\ Fallback[a] # "none"

AttributesVerdict ==
    step = "attributes" /\ errors = {} =>
        \E V \in SUBSET Features :
            /\ Walked(V)
            /\ \A a \in Attributes :
                 IF AttributeOf[a] \in V THEN Valued(a)
                 ELSE values[a] = input.values[a]

AllValued ==
    outcome = "accepted" =>
        \A a \in Attributes : AttributeOf[a] \in Goal => Valued(a)

(* What the code accepts: it wants a decision on empty groups too.         *)
Accepting(p, fs) ==
    /\ WellFormed(p)
    /\ Configuration(fs)
    /\ Mentioned(p) \subseteq fs
    /\ \A g \in Groups :
         Owner[g] \in fs =>
             Decided(p, g) /\ (Rel[g] = "alternative" => ~p.listed[g].repeats)
    /\ \A a \in Attributes :
         AttributeOf[a] \in fs =>
             p.values[a] = "valid" \/ (p.values[a] = "none" /\ Fallback[a] # "none")

(* Every error is a reason to refuse the product.                          *)
ErrorsAreReasons ==
    errors # {} \/ outcome = "rejected" => ~Accepting(input, Goal)

VerdictInv ==
    /\ StructureVerdict
    /\ SelectVerdict
    /\ AfterSelect
    /\ AttributesVerdict
    /\ AllValued
    /\ ErrorsAreReasons

-----------------------------------------------------------------------------
(* The selection a product describes.                                      *)

(* There is one: the union of all sets that each member has a reason in.   *)
LEMMA SelectionExists ==
    ASSUME NEW p
    PROVE  \E fs \in SUBSET Features : IsSelection(p, fs)
<1> DEFINE Grounded(S) ==
              \A f \in S : f = Root \/ (Parent[f] \in S /\ f \in Wanted(p, GroupOf[f]))
           fs == UNION {S \in SUBSET Features : Grounded(S)}
<1>1. fs \in SUBSET Features
  OBVIOUS
<1>2. ASSUME NEW f \in fs
      PROVE  f = Root \/ (Parent[f] \in fs /\ f \in Wanted(p, GroupOf[f]))
  <2>1. PICK S \in SUBSET Features : Grounded(S) /\ f \in S
    BY <1>2
  <2>2. S \subseteq fs
    BY <2>1
  <2> QED
    BY <2>1, <2>2
<1>3. Root \in fs
  <2>1. {Root} \in SUBSET Features /\ Grounded({Root})
    BY Links
  <2> QED
    BY <2>1
<1>4. ASSUME NEW f \in Features, Parent[f] \in fs, f \in Wanted(p, GroupOf[f])
      PROVE  f \in fs
  <2>1. PICK S \in SUBSET Features : Grounded(S) /\ Parent[f] \in S
    BY <1>4
  <2>2. S \cup {f} \in SUBSET Features /\ Grounded(S \cup {f})
    BY <1>4, <2>1
  <2> QED
    BY <2>2
<1> HIDE DEF fs
<1>5. IsSelection(p, fs)
  BY <1>1, <1>2, <1>3, <1>4 DEF IsSelection
<1> QED
  BY <1>1, <1>5

(* There is only one, for a feature tree has no cycle.                     *)
LEMMA SelectionUnique ==
    ASSUME NEW p, NEW S \in SUBSET Features, NEW T \in SUBSET Features,
           IsSelection(p, S), IsSelection(p, T)
    PROVE  S = T
<1>1. ASSUME NEW A \in SUBSET Features, NEW B \in SUBSET Features,
             IsSelection(p, A), IsSelection(p, B)
      PROVE  A \subseteq B
  <2>1. Root \in B
    BY <1>1, Links DEF IsSelection
  <2>2. \A c \in A \ {Root} :
          Parent[c] \in A \cup {Root} /\ (Parent[c] \in B => c \in B)
    BY <1>1 DEF IsSelection
  <2> QED
    BY <2>1, <2>2, Climb
<1> QED
  BY <1>1

LEMMA GoalIs ==
    /\ Goal \in SUBSET Features /\ IsSelection(input, Goal)
    /\ Root \in Goal
    /\ \A c \in Features \ {Root} :
         c \in Goal <=> Parent[c] \in Goal /\ c \in Wanted(input, GroupOf[c])
<1>1. Goal \in SUBSET Features /\ IsSelection(input, Goal)
  BY SelectionExists DEF Goal, TheSelection
<1> QED
  BY <1>1, Links DEF IsSelection

LEMMA GoalStays == input' = input => Goal' = Goal
  BY DEF Goal

LEMMA WantedMembers ==
    ASSUME ValidatorTypeOK, WellFormed(input), NEW g \in Groups
    PROVE  Wanted(input, g) \subseteq GroupMembers(g)
<1>1. /\ input.direct \subseteq Features \ {Root}
      /\ input.grouped \subseteq Features \ {Root}
  BY DEF ValidatorTypeOK, ProductSpecs, Nested, Mentioned
<1>2. Default[g] # NoDefault => Default[g] \subseteq GroupMembers(g)
  BY FeatureModelAssumption DEF HasGroups
<1> QED
  BY <1>1, <1>2 DEF Wanted, WellFormed, GroupMembers

(* A member of a group whose owner is selected is when the group wants it. *)
LEMMA GoalMembers ==
    ASSUME ValidatorTypeOK, WellFormed(input), NEW g \in Groups, Owner[g] \in Goal
    PROVE  Goal \cap GroupMembers(g) = Wanted(input, g)
<1>1. Wanted(input, g) \subseteq GroupMembers(g)
  BY WantedMembers
<1>2. \A c \in GroupMembers(g) :
        c \in Features \ {Root} /\ GroupOf[c] = g /\ Parent[c] = Owner[g]
  BY Links DEF GroupMembers
<1> QED
  BY <1>1, <1>2, GoalIs
-----------------------------------------------------------------------------
(* The visits.                                                             *)

LEMMA WalkedNext ==
    ASSUME NEW V \in SUBSET Features, NEW f \in Features, Walked(V), f \in todo,
           todo' = (todo \ {f}) \cup (Children(f) \cap present'),
           \A h \in Features \ {f} : Children(h) \cap present' \subseteq present
    PROVE  f \notin V /\ Walked(V \cup {f})'
<1>1. f \notin V
  BY DEF Walked
<1>2. Covers(V \cup {f})'
  BY CoversNext DEF Walked
<1>3. f \notin Children(f)
  <2>1. Root \in {f} \/ \E c \in {f} : Parent[c] \notin {f}
    <3>1. \A S \in SUBSET Features :
            S # {} => Root \in S \/ \E c \in S : Parent[c] \notin S
      BY FeatureModelAssumption DEF IsTree
    <3>2. {f} \in SUBSET Features /\ {f} # {}
      OBVIOUS
    <3> QED
      BY <3>1, <3>2
  <2> QED
    BY <2>1 DEF Children
<1>4. \A c \in Children(f) : c # Root /\ Parent[c] = f
  BY DEF Children
<1>5. Children(f) \cap V = {}
  BY <1>1, <1>4 DEF Walked
<1>6. (V \cup {f}) \cap todo' = {}
  BY <1>3, <1>5 DEF Walked
<1>7. \A c \in (V \cup {f} \cup todo') \ {Root} : Parent[c] \in V \cup {f}
  BY <1>4 DEF Walked
<1> QED
  BY <1>1, <1>2, <1>6, <1>7 DEF Walked

LEMMA WalkStarts ==
    ASSUME todo' = {Root}
    PROVE  Walked({})'
  BY DEF Walked, Covers

LEMMA StructureVisit ==
    ASSUME ValidatorInv, VerdictInv, NEW f \in Features, VisitStructure(f)
    PROVE  StructureVerdict' /\ ErrorsAreReasons'
<1> DEFINE dicts == {g \in GroupsOf(f) : input.form[g] = "dict"}
           moved == UNION {Keys(g) : g \in dicts}
           wrong == f \in input.strange \/ \E g \in GroupsOf(f) \cap known : BadGroup(g)
<1>1. /\ step = "structure" /\ f \in todo
      /\ f \notin input.malformed
      /\ UNCHANGED <<step, input, known, values, enabled, outcome, again>>
      /\ present' = present \cup moved
      /\ chosen' = [g \in Groups |->
                       IF g \in dicts THEN [names |-> Keys(g), repeats |-> FALSE]
                       ELSE chosen[g]]
      /\ todo' = (todo \ {f}) \cup (Children(f) \cap present')
      /\ errors' = IF wrong THEN errors \cup {f} ELSE errors
  BY DEF VisitStructure, Visiting, VisitNext, Report
<1>2. /\ outcome = "none" /\ Nested(input)
      /\ known = {g \in Groups : input.form[g] # "none"}
      /\ \A g \in Groups : input.form[g] # "dict" => chosen[g] = input.listed[g]
      /\ input.grouped \subseteq Features \ {Root}
      /\ input.form \in [Groups -> Forms]
  BY <1>1 DEF ValidatorInv, StructurePass, ValidatorTypeOK, ProductSpecs, Nested, Mentioned
<1>3. Goal' = Goal /\ input' = input
  BY <1>1, GoalStays
<1>4. moved = {c \in input.grouped : Parent[c] = f}
  <2>1. \A g \in dicts : Keys(g) = {c \in input.grouped : GroupOf[c] = g} /\ Owner[g] = f
    BY DEF Keys, GroupsOf
  <2>2. \A c \in input.grouped : /\ GroupOf[c] \in Groups /\ Owner[GroupOf[c]] = Parent[c]
                                 /\ input.form[GroupOf[c]] = "dict"
    BY <1>2, Links DEF Nested
  <2>3. \A c \in input.grouped : Parent[c] = f => GroupOf[c] \in dicts
    BY <2>2 DEF GroupsOf
  <2> QED
    BY <2>1, <2>2, <2>3
<1>5. moved \subseteq Children(f)
  BY <1>2, <1>4 DEF Children
<1>6. CASE errors # {}
  <2>1. errors' # {}
    BY <1>1, <1>6
  <2> QED
    BY <1>2, <1>3, <1>6, <2>1 DEF StructureVerdict, ErrorsAreReasons, VerdictInv
<1>7. CASE errors = {}
  <2>1. PICK V \in SUBSET Features :
          /\ Walked(V)
          /\ \A h \in V : SoundObject(h)
          /\ present = input.direct \cup {c \in input.grouped : Parent[c] \in V}
          /\ \A g \in Groups : Owner[g] \in V => chosen[g] = Stated(g)
    BY <1>1, <1>7 DEF VerdictInv, StructureVerdict
  <2> HIDE DEF moved, dicts
  <2>2. f \notin V /\ Walked(V \cup {f})'
    <3>1. \A h \in Features \ {f} : Children(h) \cap present' \subseteq present
      BY <1>1, <1>5 DEF Children
    <3> QED
      BY <1>1, <2>1, <3>1, WalkedNext
  <2>3. present' = input.direct \cup {c \in input.grouped : Parent[c] \in V \cup {f}}
    BY <1>1, <1>4, <2>1
  <2>4. ASSUME NEW g \in Groups, Owner[g] \in V \cup {f}
        PROVE  chosen'[g] = Stated(g)
    <3>1. CASE Owner[g] = f
      <4>1. g \in dicts <=> input.form[g] = "dict"
        BY <3>1 DEF dicts, GroupsOf
      <4> QED
        BY <1>1, <1>2, <4>1 DEF Stated
    <3>2. CASE Owner[g] # f
      <4>1. g \notin dicts
        BY <3>2 DEF dicts, GroupsOf
      <4> QED
        BY <1>1, <2>1, <2>4, <3>2, <4>1
    <3> QED
      BY <3>1, <3>2
  <2>5. ASSUME NEW g \in GroupsOf(f), input.form[g] = "dict"
        PROVE  /\ Keys(g) \subseteq GroupMembers(g)
               /\ Keys(g) \cap present = Keys(g) \cap input.direct
    <3>1. Keys(g) = {c \in input.grouped : GroupOf[c] = g} /\ Owner[g] = f
      BY <2>5 DEF Keys, GroupsOf
    <3>2. \A c \in Keys(g) : c \in Features \ {Root} /\ Parent[c] = f /\ GroupOf[c] = g
      BY <1>2, <3>1, Links
    <3> QED
      BY <2>1, <2>2, <3>2 DEF GroupMembers
  <2>6. ASSUME ~wrong
        PROVE  SoundObject(f)
    <3>1. ASSUME NEW g \in GroupsOf(f)
          PROVE  /\ input.form[g] # "other"
                 /\ input.form[g] = "list" =>
                      input.listed[g].names \subseteq GroupMembers(g)
                 /\ input.form[g] = "dict" => Keys(g) \cap input.direct = {}
      <4>1. g \in Groups
        BY DEF GroupsOf
      <4>2. CASE input.form[g] = "none"
        BY <4>2
      <4>3. CASE input.form[g] # "none"
        <5>1. ~BadGroup(g)
          BY <1>2, <2>6, <4>1, <4>3
        <5>2. input.form[g] = "list" => Keys(g) = input.listed[g].names
          BY DEF Keys
        <5> QED
          BY <2>5, <5>1, <5>2 DEF BadGroup
      <4> QED
        BY <4>2, <4>3
    <3> QED
      BY <1>1, <2>6, <3>1 DEF SoundObject
  <2>7. ASSUME wrong
        PROVE  ~WellFormed(input)
    <3>1. CASE f \in input.strange
      BY <3>1 DEF WellFormed
    <3>2. ASSUME NEW g \in GroupsOf(f) \cap known, BadGroup(g), WellFormed(input)
          PROVE  FALSE
      <4>1. g \in Groups /\ input.form[g] # "none" /\ input.form[g] # "other"
        BY <1>2, <3>2 DEF GroupsOf, WellFormed
      <4>2. CASE input.form[g] = "dict"
        <5>1. Keys(g) \cap input.direct # {}
          BY <2>5, <3>2, <4>2 DEF BadGroup
        <5>2. Keys(g) \subseteq input.grouped
          BY <4>2 DEF Keys
        <5> QED
          BY <3>2, <5>1, <5>2 DEF WellFormed
      <4>3. CASE input.form[g] = "list"
        BY <3>2, <4>1, <4>3 DEF BadGroup, Keys, WellFormed
      <4> QED
        BY <1>2, <4>1, <4>2, <4>3 DEF Forms
    <3> QED
      BY <2>7, <3>1, <3>2
  <2> HIDE DEF wrong
  <2>8. StructureVerdict'
    <3>1. SUFFICES ASSUME errors' = {}
                   PROVE  \E W \in SUBSET Features :
                            /\ Walked(W)'
                            /\ \A h \in W : SoundObject(h)'
                            /\ present' = input'.direct
                                    \cup {c \in input'.grouped : Parent[c] \in W}
                            /\ \A g \in Groups : Owner[g] \in W => chosen'[g] = Stated(g)'
      BY DEF StructureVerdict
    <3>2. SoundObject(f)
      BY <1>1, <2>6, <3>1
    <3>3. \A h : SoundObject(h)' = SoundObject(h)
      BY <1>3 DEF SoundObject, Keys
    <3>4. \A g : Stated(g)' = Stated(g)
      BY <1>3 DEF Stated, Keys
    <3>5. V \cup {f} \in SUBSET Features
      OBVIOUS
    <3> QED
      BY <1>3, <2>1, <2>2, <2>3, <2>4, <3>2, <3>3, <3>4, <3>5
  <2>9. ErrorsAreReasons'
    <3>1. errors' # {} => ~WellFormed(input)
      BY <1>1, <1>7, <2>7
    <3> QED
      BY <1>1, <1>2, <1>3, <3>1 DEF ErrorsAreReasons, Accepting
  <2> QED
    BY <2>8, <2>9
<1> QED
  BY <1>6, <1>7

(* What the product says does not change while it is validated.            *)
LEMMA InputStays ==
    ASSUME input' = input
    PROVE  /\ Goal' = Goal
           /\ WellFormed(input)' <=> WellFormed(input)
           /\ Mentioned(input)' = Mentioned(input)
           /\ \A g : /\ Wanted(input, g)' = Wanted(input, g)
                     /\ Decided(input, g)' <=> Decided(input, g)
                     /\ Stated(g)' = Stated(g)
                     /\ Choice(g)' = Choice(g)
           /\ Accepting(input, Goal)' <=> Accepting(input, Goal)
<1>1. Goal' = Goal
  BY GoalStays
<1>2. WellFormed(input)' <=> WellFormed(input)
  BY DEF WellFormed
<1>3. Mentioned(input)' = Mentioned(input)
  BY DEF Mentioned
<1>4. \A g : /\ Wanted(input, g)' = Wanted(input, g)
             /\ Decided(input, g)' <=> Decided(input, g)
             /\ Stated(g)' = Stated(g)
  BY DEF Wanted, Decided, Stated, Keys
<1>5. \A g : Choice(g)' = Choice(g)
  BY <1>4 DEF Choice
<1>6. Configuration(Goal)' <=> Configuration(Goal)
  BY <1>1 DEF Configuration, Satisfied
<1>7. Accepting(input, Goal)' <=> Accepting(input, Goal)
  BY <1>1, <1>2, <1>3, <1>4, <1>6 DEF Accepting
<1> QED
  BY <1>1, <1>2, <1>3, <1>4, <1>5, <1>7

LEMMA StructureVerdictHolds ==
    ASSUME ValidatorInv, VerdictInv, NEW f \in Features, VisitStructure(f)
    PROVE  VerdictInv'
<1>1. StructureVerdict' /\ ErrorsAreReasons'
  BY StructureVisit
<1>2. step' = "structure" /\ outcome' = "none"
  BY DEF VisitStructure, Visiting, ValidatorInv
<1> QED
  BY <1>1, <1>2 DEF VerdictInv, SelectVerdict, AfterSelect, AttributesVerdict, AllValued

LEMMA MalformedVerdictHolds ==
    ASSUME ValidatorInv, VerdictInv, NEW f \in Features, VisitMalformed(f)
    PROVE  VerdictInv'
<1>1. step' = "idle" /\ outcome' = "rejected" /\ input' = input /\ input.malformed # {}
  BY DEF VisitMalformed
<1>2. ~Accepting(input, Goal)
  BY <1>1 DEF Accepting, WellFormed
<1>3. ErrorsAreReasons'
  BY <1>1, <1>2, InputStays DEF ErrorsAreReasons
<1> QED
  BY <1>1, <1>3 DEF VerdictInv, StructureVerdict, SelectVerdict, AfterSelect,
     AttributesVerdict, AllValued

(* A group whose owner the pass has not visited is decided when the        *)
(* product decides it, and gets what the product wants.                    *)
LEMMA SelectionIsWanted ==
    ASSUME ValidatorTypeOK, WellFormed(input), NEW g \in Groups,
           g \in known <=> input.form[g] # "none",
           chosen[g] = Stated(g),
           GroupMembers(g) \cap present = GroupMembers(g) \cap Mentioned(input)
    PROVE  /\ Undecided(g) <=> ~Decided(input, g)
           /\ Selection(g) = Choice(g)
<1> DEFINE direct == {c \in input.direct : GroupOf[c] = g}
<1>1. /\ input.direct \subseteq Features \ {Root}
      /\ input.grouped \subseteq Features \ {Root}
      /\ \A c \in input.grouped : input.form[GroupOf[c]] = "dict"
      /\ input.form[g] \in Forms
      /\ input.listed[g] \in Lists
      /\ input.form[g] # "list" => input.listed[g] = NoList
  BY DEF ValidatorTypeOK, ProductSpecs, Nested, Mentioned
<1>2. input.form[g] # "dict" => GroupMembers(g) \cap present = direct
  BY <1>1 DEF GroupMembers, Mentioned
<1>3. Undecided(g) <=> ~Decided(input, g)
  BY <1>2 DEF Undecided, Decided
<1>4. ASSUME NEW S, Wanted(input, g) = S,
             Rel[g] = "mandatory" \/ input.form[g] # "list"
      PROVE  Choice(g) = [names |-> S, repeats |-> FALSE]
  <2>1. Rel[g] # "mandatory" => input.listed[g].repeats = FALSE
    BY <1>1, <1>4 DEF NoList
  <2>2. (Rel[g] # "mandatory" /\ input.listed[g].repeats) = FALSE
    BY <2>1
  <2> QED
    BY <1>4, <2>2, Zenon DEF Choice
<1>5. CASE Rel[g] = "mandatory"
  <2>1. Wanted(input, g) = GroupMembers(g)
    BY <1>5 DEF Wanted
  <2> QED
    BY <1>3, <1>4, <1>5, <2>1 DEF Selection
<1>6. CASE Rel[g] # "mandatory" /\ input.form[g] = "dict"
  <2>1. Wanted(input, g) = Keys(g)
    BY <1>6 DEF Wanted, Keys
  <2>2. Selection(g) = [names |-> Keys(g), repeats |-> FALSE]
    BY <1>6 DEF Selection, Stated
  <2> QED
    BY <1>3, <1>4, <1>6, <2>1, <2>2
<1>7. CASE Rel[g] # "mandatory" /\ input.form[g] = "list"
  <2>1. Selection(g) = input.listed[g]
    BY <1>7 DEF Selection, Stated
  <2>2. Wanted(input, g) = input.listed[g].names
    BY <1>7 DEF Wanted
  <2>3. (Rel[g] # "mandatory" /\ input.listed[g].repeats) = input.listed[g].repeats
    BY <1>1, <1>7 DEF Lists
  <2>4. Choice(g) = [names |-> input.listed[g].names, repeats |-> input.listed[g].repeats]
    BY <2>2, <2>3, Zenon DEF Choice
  <2> QED
    BY <1>1, <1>3, <2>1, <2>4 DEF Lists
<1>8. CASE Rel[g] # "mandatory" /\ input.form[g] = "none"
  <2>1. GroupMembers(g) \cap present = direct
    BY <1>2, <1>8
  <2>2. CASE direct # {}
    <3>1. Wanted(input, g) = direct
      BY <1>8, <2>2 DEF Wanted
    <3>2. Selection(g) = [names |-> direct, repeats |-> FALSE]
      BY <1>8, <2>1, <2>2 DEF Selection
    <3> QED
      BY <1>3, <1>4, <1>8, <3>1, <3>2
  <2>3. CASE direct = {}
    <3>1. Wanted(input, g) = IF Default[g] # NoDefault THEN Default[g] ELSE {}
      BY <1>8, <2>3 DEF Wanted
    <3>2. Selection(g) = [names |-> IF Default[g] # NoDefault THEN Default[g] ELSE {},
                          repeats |-> FALSE]
      BY <1>8, <2>1, <2>3 DEF Selection, NoList
    <3> QED
      BY <1>3, <1>4, <1>8, <3>1, <3>2
  <2> QED
    BY <2>2, <2>3
<1>9. input.form[g] # "other"
  BY DEF WellFormed
<1> QED
  BY <1>1, <1>5, <1>6, <1>7, <1>8, <1>9 DEF Forms

LEMMA SelectVerdictHolds ==
    ASSUME ValidatorInv, VerdictInv, NEW f \in Features, VisitSelect(f)
    PROVE  VerdictInv'
<1> DEFINE decided == {g \in GroupsOf(f) : ~Undecided(g)}
           added == UNION {Selection(g).names : g \in decided}
           wrong == \/ GroupsOf(f) # decided
                    \/ \E c \in Children(f) \cap present :
                         c \notin Selection(GroupOf[c]).names
<1>1. /\ step = "select" /\ f \in todo
      /\ UNCHANGED <<step, input, values, enabled, outcome, again>>
      /\ known' = known \cup decided
      /\ chosen' = [g \in Groups |-> IF g \in decided THEN Selection(g) ELSE chosen[g]]
      /\ present' = present \cup added
      /\ todo' = (todo \ {f}) \cup (Children(f) \cap present')
      /\ errors' = IF wrong THEN errors \cup {f} ELSE errors
  BY DEF VisitSelect, Visiting, VisitNext, Report
<1>2. /\ ValidatorTypeOK /\ outcome = "none"
      /\ WellFormed(input) /\ values = input.values
  BY <1>1 DEF ValidatorInv, VerdictInv, SelectVerdict
<1>3. input' = input /\ Goal' = Goal /\ (WellFormed(input)' <=> WellFormed(input))
      /\ Mentioned(input)' = Mentioned(input)
      /\ (Accepting(input, Goal)' <=> Accepting(input, Goal))
  BY <1>1, InputStays
<1>4. StructureVerdict' /\ AfterSelect' /\ AttributesVerdict' /\ AllValued'
  BY <1>1, <1>2 DEF StructureVerdict, AfterSelect, AttributesVerdict, AllValued
<1>5. SUFFICES ErrorsAreReasons' /\ (errors' = {} => \E W \in SUBSET Features :
            /\ Walked(W)'
            /\ W \cup todo' \subseteq Goal
            /\ \A c \in Features \ {Root} :
                 c \in present' <=>
                    IF Parent[c] \in W THEN c \in Wanted(input, GroupOf[c])
                    ELSE c \in Mentioned(input)
            /\ \A c \in Mentioned(input) : Parent[c] \in W => c \in Goal
            /\ \A g \in Groups :
                 IF Owner[g] \in W THEN Decided(input, g) /\ chosen'[g] = Choice(g)
                 ELSE /\ g \in known' <=> input.form[g] # "none"
                      /\ chosen'[g] = Stated(g))
  BY <1>1, <1>2, <1>3, <1>4, InputStays DEF VerdictInv, SelectVerdict, Chosen
<1>6. CASE errors # {}
  <2>1. errors' # {}
    BY <1>1, <1>6
  <2> QED
    BY <1>2, <1>3, <1>6, <2>1 DEF ErrorsAreReasons, VerdictInv
<1>7. CASE errors = {}
  <2>1. PICK V \in SUBSET Features :
          /\ Walked(V)
          /\ V \cup todo \subseteq Goal
          /\ \A c \in Features \ {Root} :
               c \in present <=>
                  IF Parent[c] \in V THEN c \in Wanted(input, GroupOf[c])
                  ELSE c \in Mentioned(input)
          /\ \A c \in Mentioned(input) : Parent[c] \in V => c \in Goal
          /\ \A g \in Groups :
               IF Owner[g] \in V THEN Chosen(g)
               ELSE /\ g \in known <=> input.form[g] # "none"
                    /\ chosen[g] = Stated(g)
    BY <1>1, <1>7 DEF VerdictInv, SelectVerdict
  <2>2. f \notin V /\ f \in Goal
    BY <1>1, <2>1 DEF Walked
  <2>3. \A g \in GroupsOf(f) : /\ g \in Groups /\ Owner[g] = f
                               /\ Wanted(input, g) \subseteq GroupMembers(g)
    BY <1>2, WantedMembers DEF GroupsOf
  <2>4. ASSUME NEW g \in GroupsOf(f)
        PROVE  /\ Undecided(g) <=> ~Decided(input, g)
               /\ Selection(g) = Choice(g)
    <3>1. g \in Groups /\ Owner[g] \notin V
      BY <2>2, <2>3
    <3>2. \A c \in GroupMembers(g) : c \in Features \ {Root} /\ Parent[c] \notin V
      BY <3>1, Links DEF GroupMembers
    <3>3. GroupMembers(g) \cap present = GroupMembers(g) \cap Mentioned(input)
      BY <2>1, <3>2
    <3> QED
      BY <1>2, <2>1, <3>1, <3>3, SelectionIsWanted
  <2>5. \A g \in GroupsOf(f) : Selection(g).names = Wanted(input, g)
    BY <2>4 DEF Choice
  <2>6. \A c \in Children(f) : /\ c \in Features \ {Root} /\ Parent[c] = f
                               /\ GroupOf[c] \in GroupsOf(f)
                               /\ c \in present <=> c \in Mentioned(input)
                               /\ c \in Goal <=> c \in Wanted(input, GroupOf[c])
    BY <2>1, <2>2, Members, GoalIs
  <2>7. added \subseteq Children(f)
    BY <2>3, <2>5, Members
  <2>8. ASSUME wrong
        PROVE  ~Accepting(input, Goal)
    <3>1. CASE GroupsOf(f) # decided
      <4>1. PICK g \in GroupsOf(f) : Undecided(g)
        BY <3>1
      <4> QED
        BY <2>2, <2>3, <2>4, <4>1 DEF Accepting
    <3>2. ASSUME NEW c \in Children(f) \cap present, c \notin Selection(GroupOf[c]).names
          PROVE  ~Accepting(input, Goal)
      BY <2>5, <2>6, <3>2 DEF Accepting
    <3> QED
      BY <2>8, <3>1, <3>2
  <2>9. ErrorsAreReasons'
    <3>1. errors' # {} => ~Accepting(input, Goal)
      BY <1>1, <1>7, <2>8
    <3> QED
      BY <1>1, <1>2, <1>3, <3>1 DEF ErrorsAreReasons
  <2>10. ASSUME ~wrong
         PROVE  /\ GroupsOf(f) = decided
                /\ \A c \in Children(f) \cap present : c \in Wanted(input, GroupOf[c])
    BY <2>5, <2>6, <2>10
  <2>11. ASSUME ~wrong, NEW c \in Children(f)
         PROVE  c \in present' <=> c \in Wanted(input, GroupOf[c])
    <3>1. \A g \in decided : c \in Selection(g).names => g = GroupOf[c]
      BY <2>3, <2>5 DEF GroupMembers
    <3>2. c \in added <=> c \in Wanted(input, GroupOf[c])
      BY <2>5, <2>6, <2>10, <2>11, <3>1
    <3> QED
      BY <1>1, <2>10, <2>11, <3>2
  <2>12. \A g \in Groups : Owner[g] # f => g \notin decided
    BY <2>3
  <2> HIDE DEF decided, added, wrong
  <2>13. Walked(V \cup {f})'
    <3>1. \A h \in Features \ {f} : Children(h) \cap present' \subseteq present
      BY <1>1, <2>7 DEF Children
    <3> QED
      BY <1>1, <2>1, <3>1, WalkedNext
  <2>14. ASSUME ~wrong
         PROVE  V \cup {f} \cup todo' \subseteq Goal
    BY <1>1, <2>1, <2>2, <2>6, <2>11, <2>14
  <2>15. ASSUME ~wrong, NEW c \in Features \ {Root}
         PROVE  c \in present' <=>
                  IF Parent[c] \in V \cup {f} THEN c \in Wanted(input, GroupOf[c])
                  ELSE c \in Mentioned(input)
    <3>1. CASE Parent[c] = f
      <4>1. c \in Children(f)
        BY <3>1 DEF Children
      <4> QED
        BY <2>11, <2>15, <3>1, <4>1
    <3>2. CASE Parent[c] # f
      <4>1. c \notin added
        BY <2>7, <3>2 DEF Children
      <4> QED
        BY <1>1, <2>1, <3>2, <4>1
    <3> QED
      BY <3>1, <3>2
  <2>16. ASSUME ~wrong, NEW c \in Mentioned(input), Parent[c] \in V \cup {f}
         PROVE  c \in Goal
    <3>1. c \in Features \ {Root}
      BY <1>2 DEF ValidatorTypeOK, ProductSpecs, Nested, Mentioned
    <3>2. CASE Parent[c] = f
      <4>1. c \in Children(f)
        BY <3>1, <3>2 DEF Children
      <4> QED
        BY <2>6, <2>10, <2>16, <4>1
    <3> QED
      BY <2>1, <2>16, <3>2
  <2>17. ASSUME ~wrong, NEW g \in Groups
         PROVE  IF Owner[g] \in V \cup {f} THEN Decided(input, g) /\ chosen'[g] = Choice(g)
                ELSE /\ g \in known' <=> input.form[g] # "none"
                     /\ chosen'[g] = Stated(g)
    <3>1. chosen'[g] = IF g \in decided THEN Selection(g) ELSE chosen[g]
      BY <1>1
    <3>2. CASE Owner[g] = f
      <4>1. g \in GroupsOf(f) /\ g \in decided
        BY <2>10, <2>17, <3>2 DEF GroupsOf
      <4>2. ~Undecided(g)
        BY <4>1 DEF decided
      <4> QED
        BY <2>4, <3>1, <3>2, <4>1, <4>2
    <3>3. CASE Owner[g] # f
      <4>1. g \notin decided
        BY <2>12, <3>3
      <4> QED
        BY <1>1, <2>1, <3>1, <3>3, <4>1 DEF Chosen
    <3> QED
      BY <3>2, <3>3
  <2>18. errors' = {} => ~wrong
    BY <1>1
  <2>19. V \cup {f} \in SUBSET Features
    OBVIOUS
  <2> QED
    BY <2>9, <2>13, <2>14, <2>15, <2>16, <2>17, <2>18, <2>19
<1> QED
  BY <1>6, <1>7

LEMMA RequiredVerdictHolds ==
    ASSUME ValidatorInv, VerdictInv, NEW f \in Features, VisitRequired(f)
    PROVE  VerdictInv'
<1>1. /\ step = "required"
      /\ UNCHANGED <<step, input, present, chosen, known, values, errors, outcome>>
  BY DEF VisitRequired, Visiting
<1>2. outcome = "none" /\ SelectionMade /\ values = input.values
  BY <1>1 DEF ValidatorInv, VerdictInv, AfterSelect
<1>3. SelectionMade'
  BY <1>1, <1>2, InputStays DEF SelectionMade, Chosen
<1>4. ErrorsAreReasons'
  BY <1>1, InputStays DEF VerdictInv, ErrorsAreReasons
<1> QED
  BY <1>1, <1>2, <1>3, <1>4 DEF VerdictInv, StructureVerdict, SelectVerdict, AfterSelect,
     AttributesVerdict, AllValued

LEMMA ChoiceRepeats ==
    ASSUME NEW g, Rel[g] = "alternative"
    PROVE  Choice(g).repeats <=> input.listed[g].repeats
<1>1. ASSUME NEW r
      PROVE  [names |-> Wanted(input, g), repeats |-> r].repeats = r
  OBVIOUS
<1>2. Choice(g).repeats = (Rel[g] # "mandatory" /\ input.listed[g].repeats)
  BY <1>1, Zenon DEF Choice
<1>3. Rel[g] # "mandatory"
  OBVIOUS
<1> QED
  BY <1>2, <1>3, Zenon

(* A group that is broken is one the selection does not satisfy, or one    *)
(* whose list repeats a name.                                              *)
LEMMA BrokenIsReason ==
    ASSUME ValidatorTypeOK, SelectionMade, NEW g \in Groups, Owner[g] \in Goal, Broken(g)
    PROVE  ~Accepting(input, Goal)
<1>1. chosen[g] = Choice(g) /\ WellFormed(input)
  BY DEF SelectionMade, Chosen
<1>2. chosen[g].names = Goal \cap GroupMembers(g)
  BY <1>1, GoalMembers DEF Choice
<1>3. CASE Rel[g] = "alternative" /\ chosen[g].repeats
  <2>1. input.listed[g].repeats
    BY <1>1, <1>3, ChoiceRepeats
  <2> QED
    BY <1>3, <2>1 DEF Accepting
<1>4. CASE Rel[g] = "alternative" /\ ~\E c \in Features : chosen[g].names = {c}
  <2>1. ~Satisfied(g, Goal)
    BY <1>2, <1>4 DEF Satisfied
  <2> QED
    BY <2>1 DEF Accepting, Configuration
<1>5. CASE Rel[g] = "or" /\ chosen[g].names = {}
  <2>1. ~Satisfied(g, Goal)
    BY <1>2, <1>5 DEF Satisfied
  <2> QED
    BY <2>1 DEF Accepting, Configuration
<1> QED
  BY <1>3, <1>4, <1>5 DEF Broken

LEMMA GroupsVerdictHolds ==
    ASSUME ValidatorInv, VerdictInv, NEW f \in Features, VisitGroups(f)
    PROVE  VerdictInv'
<1>1. /\ step = "groups" /\ f \in todo
      /\ UNCHANGED <<step, input, present, chosen, known, values, outcome>>
      /\ errors' = IF \E g \in GroupsOf(f) : Broken(g) THEN errors \cup {f} ELSE errors
  BY DEF VisitGroups, Visiting, Report
<1>2. /\ outcome = "none" /\ SelectionMade /\ values = input.values
      /\ ValidatorTypeOK /\ NestedCopy
  BY <1>1 DEF ValidatorInv, VerdictInv, AfterSelect, GroupsPass
<1>3. SelectionMade'
  BY <1>1, <1>2, InputStays DEF SelectionMade, Chosen
<1>4. f \in Goal
  BY <1>1, <1>2 DEF NestedCopy, SelectionMade
<1>5. (\E g \in GroupsOf(f) : Broken(g)) => ~Accepting(input, Goal)
  BY <1>2, <1>4, BrokenIsReason DEF GroupsOf
<1>6. errors' # {} => ~Accepting(input, Goal)
  BY <1>1, <1>5 DEF VerdictInv, ErrorsAreReasons
<1>7. ErrorsAreReasons'
  BY <1>1, <1>2, <1>6, InputStays DEF ErrorsAreReasons
<1> QED
  BY <1>1, <1>2, <1>3, <1>7 DEF VerdictInv, StructureVerdict, SelectVerdict, AfterSelect,
     AttributesVerdict, AllValued

LEMMA AttributesVerdictHolds ==
    ASSUME ValidatorInv, VerdictInv, NEW f \in Features, VisitAttributes(f)
    PROVE  VerdictInv'
<1> DEFINE wrong == \E a \in AttributesOf(f) : values[a] = "invalid" \/ values'[a] = "none"
<1>1. /\ step = "attributes" /\ f \in todo
      /\ UNCHANGED <<step, input, present, chosen, known, outcome>>
      /\ values' = [a \in Attributes |->
                      IF AttributeOf[a] = f /\ values[a] = "none" THEN Fallback[a]
                      ELSE values[a]]
      /\ todo' = (todo \ {f}) \cup (Children(f) \cap present')
      /\ errors' = IF wrong THEN errors \cup {f} ELSE errors
  BY DEF VisitAttributes, Visiting, VisitNext, Report
<1>2. /\ outcome = "none" /\ SelectionMade /\ ValidatorTypeOK /\ NestedCopy
      /\ values \in [Attributes -> Values]
  BY <1>1 DEF ValidatorInv, VerdictInv, AfterSelect, Finished, ValidatorTypeOK
<1>3. SelectionMade'
  BY <1>1, <1>2, InputStays DEF SelectionMade, Chosen
<1>4. f \in Goal
  BY <1>1, <1>2 DEF NestedCopy, SelectionMade
<1> HIDE DEF wrong
<1>5. SUFFICES AttributesVerdict' /\ (errors' # {} => ~Accepting(input, Goal))
  BY <1>1, <1>2, <1>3, InputStays DEF VerdictInv, StructureVerdict, SelectVerdict,
     AfterSelect, AllValued, ErrorsAreReasons
<1>6. CASE errors # {}
  <2>1. errors' # {} /\ ~Accepting(input, Goal)
    BY <1>1, <1>6 DEF VerdictInv, ErrorsAreReasons
  <2> QED
    BY <2>1 DEF AttributesVerdict
<1>7. CASE errors = {}
  <2>1. PICK V \in SUBSET Features :
          /\ Walked(V)
          /\ \A a \in Attributes :
               IF AttributeOf[a] \in V THEN Valued(a)
               ELSE values[a] = input.values[a]
    BY <1>1, <1>7 DEF VerdictInv, AttributesVerdict
  <2>2. f \notin V /\ Walked(V \cup {f})'
    BY <1>1, <2>1, WalkedNext
  <2>3. \A a \in AttributesOf(f) :
          /\ a \in Attributes /\ AttributeOf[a] = f
          /\ values[a] = input.values[a] /\ values[a] \in Values
          /\ values'[a] = IF values[a] = "none" THEN Fallback[a] ELSE values[a]
    BY <1>1, <1>2, <2>1, <2>2 DEF AttributesOf
  <2>4. wrong => \E a \in AttributesOf(f) : ~Valued(a)
    BY <2>3 DEF wrong, Valued
  <2>5. wrong => ~Accepting(input, Goal)
    BY <1>4, <2>3, <2>4 DEF Accepting, Valued
  <2>6. ASSUME ~wrong, NEW a \in Attributes
        PROVE  IF AttributeOf[a] \in V \cup {f} THEN Valued(a)
               ELSE values'[a] = input.values[a]
    <3>1. CASE AttributeOf[a] = f
      <4>1. a \in AttributesOf(f)
        BY <3>1 DEF AttributesOf
      <4>2. values[a] # "invalid" /\ values'[a] # "none"
        BY <2>6, <4>1 DEF wrong
      <4>3. Valued(a)
        BY <2>3, <4>1, <4>2 DEF Valued, Values
      <4> QED
        BY <3>1, <4>3
    <3>2. CASE AttributeOf[a] # f
      BY <1>1, <2>1, <3>2
    <3> QED
      BY <3>1, <3>2
  <2>7. \A a : Valued(a)' <=> Valued(a)
    BY <1>1 DEF Valued
  <2>8. errors' = {} => ~wrong
    BY <1>1
  <2>9. V \cup {f} \in SUBSET Features /\ input' = input
    BY <1>1
  <2>10. AttributesVerdict'
    BY <2>2, <2>6, <2>7, <2>8, <2>9 DEF AttributesVerdict
  <2>11. errors' # {} => ~Accepting(input, Goal)
    BY <1>1, <1>7, <2>5
  <2> QED
    BY <2>10, <2>11
<1> QED
  BY <1>6, <1>7
-----------------------------------------------------------------------------
(* The end of each pass.                                                   *)

(* A product the structure pass has no errors for is well formed.          *)
LEMMA StructureVerdictEnds ==
    ASSUME ValidatorInv, VerdictInv, step = "structure", todo = {}, errors = {}
    PROVE  /\ WellFormed(input)
           /\ present = Mentioned(input)
           /\ \A g \in Groups : /\ g \in known <=> input.form[g] # "none"
                                /\ chosen[g] = Stated(g)
<1>1. PICK V \in SUBSET Features :
        /\ Walked(V)
        /\ \A f \in V : SoundObject(f)
        /\ present = input.direct \cup {c \in input.grouped : Parent[c] \in V}
        /\ \A g \in Groups : Owner[g] \in V => chosen[g] = Stated(g)
  BY DEF VerdictInv, StructureVerdict
<1>2. /\ input \in ProductSpecs /\ Nested(input) /\ Mentioned(input) \subseteq Features \ {Root}
      /\ Present(input) \subseteq Features
  BY Links DEF ValidatorInv, ValidatorTypeOK, ProductSpecs, Nested, Mentioned, Present
<1>3. /\ present = Mentioned(input)
      /\ known = {g \in Groups : input.form[g] # "none"}
      /\ \A g \in Groups : input.form[g] # "dict" => chosen[g] = input.listed[g]
  BY StructureEnds DEF ValidatorInv, StructurePass
<1>4. Present(input) \subseteq V
  <2>1. Covers(V)
    BY <1>1 DEF Walked
  <2>2. \A c \in Present(input) \ {Root} :
          Parent[c] \in Present(input) \cup {Root} /\ c \in present
    BY <1>2, <1>3 DEF Nested, Present
  <2> QED
    BY <1>2, <2>1, <2>2, CoversAll
<1>5. \A f \in Present(input) : SoundObject(f)
  BY <1>1, <1>4
<1>6. ASSUME NEW g \in Groups, input.form[g] # "none"
      PROVE  /\ Owner[g] \in Present(input)
             /\ input.form[g] # "other"
             /\ input.form[g] = "list" => input.listed[g].names \subseteq GroupMembers(g)
             /\ input.form[g] = "dict" => Keys(g) \cap input.direct = {}
  <2>1. Owner[g] \in Present(input)
    BY <1>2, <1>6 DEF Nested
  <2> QED
    BY <1>5, <2>1 DEF SoundObject, GroupsOf
<1>7. input.strange = {} /\ input.malformed = {}
  BY <1>2, <1>5 DEF Nested, Present, SoundObject
<1>8. ASSUME NEW c \in input.direct \cap input.grouped
      PROVE  FALSE
  <2>1. c \in Features \ {Root} /\ input.form[GroupOf[c]] = "dict" /\ GroupOf[c] \in Groups
    BY <1>2, Links DEF Nested, Mentioned
  <2>2. c \in Keys(GroupOf[c])
    BY <2>1 DEF Keys
  <2> QED
    BY <1>6, <2>1, <2>2
<1>9. WellFormed(input)
  BY <1>6, <1>7, <1>8 DEF WellFormed
<1>10. ASSUME NEW g \in Groups
       PROVE  chosen[g] = Stated(g)
  <2>1. CASE input.form[g] = "dict"
    BY <1>1, <1>4, <1>6, <2>1
  <2>2. CASE input.form[g] # "dict"
    BY <1>3, <2>2 DEF Stated
  <2> QED
    BY <2>1, <2>2
<1> QED
  BY <1>3, <1>9, <1>10

(* The select pass has visited the selection and nothing else.             *)
LEMMA SelectVerdictEnds ==
    ASSUME ValidatorInv, VerdictInv, step = "select", todo = {}, errors = {}
    PROVE  SelectionMade
<1>1. PICK V \in SUBSET Features :
        /\ Walked(V)
        /\ V \cup todo \subseteq Goal
        /\ \A c \in Features \ {Root} :
             c \in present <=>
                IF Parent[c] \in V THEN c \in Wanted(input, GroupOf[c])
                ELSE c \in Mentioned(input)
        /\ \A g \in Groups :
             IF Owner[g] \in V THEN Chosen(g)
             ELSE /\ g \in known <=> input.form[g] # "none"
                  /\ chosen[g] = Stated(g)
  BY DEF VerdictInv, SelectVerdict
<1>2. WellFormed(input) /\ NestedCopy /\ present \subseteq Features \ {Root}
  BY DEF VerdictInv, SelectVerdict, ValidatorInv, SelectPass, ValidatorTypeOK
<1>3. /\ Goal \in SUBSET Features /\ Root \in Goal
      /\ \A c \in Features \ {Root} :
           c \in Goal <=> Parent[c] \in Goal /\ c \in Wanted(input, GroupOf[c])
  BY GoalIs
<1>4. Root \in V /\ \A h \in V : Children(h) \cap present \subseteq V
  BY <1>1 DEF Walked, Covers
<1>5. Goal \subseteq V
  <2>1. ASSUME NEW c \in Goal \ {Root}
        PROVE  Parent[c] \in Goal \cup {Root} /\ (Parent[c] \in V => c \in V)
    <3>1. c \in Features \ {Root} /\ Parent[c] \in Goal /\ c \in Wanted(input, GroupOf[c])
      BY <1>3
    <3>2. Parent[c] \in V => c \in Children(Parent[c]) \cap present
      BY <1>1, <3>1 DEF Children
    <3> QED
      BY <1>4, <3>1, <3>2
  <2> QED
    BY <1>3, <1>4, <2>1, Climb
<1>6. V = Goal
  BY <1>1, <1>5
<1>7. present \subseteq Goal
  <2>1. \A c \in present \ {Root} :
          Parent[c] \in present \cup {Root} /\ (Parent[c] \in Goal => c \in Goal)
    BY <1>1, <1>2, <1>3, <1>6 DEF NestedCopy
  <2> QED
    BY <1>2, <1>3, <2>1, Climb
<1>8. Goal \subseteq present \cup {Root}
  BY <1>1, <1>3, <1>6
<1> QED
  BY <1>1, <1>2, <1>3, <1>6, <1>7, <1>8 DEF SelectionMade

LEMMA EndVerdictHolds ==
    ASSUME ValidatorInv, VerdictInv, EndStep
    PROVE  VerdictInv'
<1>1. /\ todo = {} /\ step \in Steps /\ outcome = "none"
      /\ UNCHANGED <<input, present, chosen, known, values, enabled, errors>>
  BY DEF EndStep, ValidatorInv, ValidatorTypeOK
<1>2. /\ Goal' = Goal
      /\ WellFormed(input)' <=> WellFormed(input)
      /\ Mentioned(input)' = Mentioned(input)
      /\ \A g : /\ Wanted(input, g)' = Wanted(input, g)
                /\ Decided(input, g)' <=> Decided(input, g)
                /\ Stated(g)' = Stated(g)
                /\ Choice(g)' = Choice(g)
      /\ Accepting(input, Goal)' <=> Accepting(input, Goal)
  BY <1>1, InputStays
<1>3. SelectionMade => SelectionMade'
  BY <1>1, <1>2 DEF SelectionMade, Chosen
<1>4. CASE errors # {}
  <2>1. step' = "idle" /\ outcome' = "rejected" /\ ~Accepting(input, Goal)
    BY <1>4 DEF EndStep, VerdictInv, ErrorsAreReasons
  <2>2. ErrorsAreReasons'
    BY <1>2, <2>1 DEF ErrorsAreReasons
  <2> QED
    BY <2>1, <2>2 DEF VerdictInv, StructureVerdict, SelectVerdict, AfterSelect,
       AttributesVerdict, AllValued
<1>5. errors = {} => ErrorsAreReasons'
  BY <1>1 DEF EndStep, ErrorsAreReasons
<1>6. CASE errors = {} /\ step = "structure"
  <2>1. step' = "select" /\ todo' = {Root} /\ outcome' = "none"
    BY <1>6 DEF EndStep, StepAfter
  <2>2. /\ WellFormed(input)
        /\ present = Mentioned(input)
        /\ \A g \in Groups : /\ g \in known <=> input.form[g] # "none"
                             /\ chosen[g] = Stated(g)
    BY <1>1, <1>6, StructureVerdictEnds
  <2>3. values = input.values
    BY <1>6 DEF ValidatorInv, StructurePass
  <2>4. Walked({})' /\ {} \cup todo' \subseteq Goal
    BY <2>1, WalkStarts, GoalIs
  <2>5. SelectVerdict'
    BY <1>1, <1>2, <2>2, <2>3, <2>4 DEF SelectVerdict
  <2> QED
    BY <1>5, <1>6, <2>1, <2>5 DEF VerdictInv, StructureVerdict, AfterSelect,
       AttributesVerdict, AllValued
<1>7. CASE errors = {} /\ step = "select"
  <2>1. step' = "required" /\ outcome' = "none"
    BY <1>7 DEF EndStep, StepAfter
  <2>2. SelectionMade /\ values = input.values
    BY <1>1, <1>7, SelectVerdictEnds DEF VerdictInv, SelectVerdict
  <2> QED
    BY <1>1, <1>3, <1>5, <1>7, <2>1, <2>2 DEF VerdictInv, StructureVerdict, SelectVerdict,
       AfterSelect, AttributesVerdict, AllValued
<1>8. CASE errors = {} /\ step = "required"
  <2>1. step' = "groups" /\ outcome' = "none"
    BY <1>8 DEF EndStep, StepAfter
  <2>2. SelectionMade /\ values = input.values
    BY <1>8 DEF VerdictInv, AfterSelect
  <2> QED
    BY <1>1, <1>3, <1>5, <1>8, <2>1, <2>2 DEF VerdictInv, StructureVerdict, SelectVerdict,
       AfterSelect, AttributesVerdict, AllValued
<1>9. CASE errors = {} /\ step = "groups"
  <2>1. step' = "attributes" /\ todo' = {Root} /\ outcome' = "none"
    BY <1>9 DEF EndStep, StepAfter
  <2>2. SelectionMade /\ values = input.values
    BY <1>9 DEF VerdictInv, AfterSelect
  <2>3. Walked({})'
    BY <2>1, WalkStarts
  <2>4. AttributesVerdict'
    BY <1>1, <2>2, <2>3 DEF AttributesVerdict
  <2> QED
    BY <1>3, <1>5, <1>9, <2>1, <2>2, <2>4 DEF VerdictInv, StructureVerdict, SelectVerdict,
       AfterSelect, AllValued
<1>10. CASE errors = {} /\ step = "attributes"
  <2>1. step' = "idle" /\ outcome' = "accepted"
    BY <1>10 DEF EndStep, StepAfter
  <2>2. SelectionMade
    BY <1>10 DEF VerdictInv, AfterSelect
  <2>3. PICK V \in SUBSET Features :
          /\ Walked(V)
          /\ \A a \in Attributes :
               IF AttributeOf[a] \in V THEN Valued(a)
               ELSE values[a] = input.values[a]
    BY <1>10 DEF VerdictInv, AttributesVerdict
  <2>4. Goal \subseteq V
    <3>1. Goal \in SUBSET Features /\ \A c \in Goal \ {Root} : Parent[c] \in Goal /\ c \in present
      BY <2>2, GoalIs DEF SelectionMade
    <3> QED
      BY <1>1, <2>3, <3>1, CoversAll DEF Walked
  <2>5. \A a \in Attributes : AttributeOf[a] \in Goal => Valued(a)
    BY <2>3, <2>4
  <2>6. \A a : Valued(a)' <=> Valued(a)
    BY <1>1 DEF Valued
  <2>7. AllValued'
    BY <1>2, <2>5, <2>6 DEF AllValued
  <2> QED
    BY <1>3, <1>5, <1>10, <2>1, <2>2, <2>7 DEF VerdictInv, StructureVerdict, SelectVerdict,
       AfterSelect, AttributesVerdict
<1> QED
  BY <1>1, <1>4, <1>6, <1>7, <1>8, <1>9, <1>10 DEF Steps
-----------------------------------------------------------------------------
LEMMA ValidateVerdictHolds ==
    ASSUME NEW p, NEW b, Validate(p, b)
    PROVE  VerdictInv'
<1>1. /\ step' = "structure" /\ todo' = {Root} /\ input' = p /\ present' = p.direct
      /\ errors' = {} /\ outcome' = "none"
  BY DEF Validate
<1>2. Walked({})'
  BY <1>1, WalkStarts
<1>3. StructureVerdict'
  BY <1>1, <1>2 DEF StructureVerdict
<1> QED
  BY <1>1, <1>3 DEF VerdictInv, SelectVerdict, AfterSelect, AttributesVerdict, AllValued,
     ErrorsAreReasons

LEMMA VerdictStays ==
    ASSUME VerdictInv, UNCHANGED validatorVars
    PROVE  VerdictInv'
<1>1. /\ step' = step /\ todo' = todo /\ input' = input /\ present' = present
      /\ chosen' = chosen /\ known' = known /\ values' = values
      /\ errors' = errors /\ outcome' = outcome
  BY DEF validatorVars
<1>2. /\ Goal' = Goal
      /\ WellFormed(input)' <=> WellFormed(input)
      /\ Mentioned(input)' = Mentioned(input)
      /\ \A g : /\ Wanted(input, g)' = Wanted(input, g)
                /\ Decided(input, g)' <=> Decided(input, g)
                /\ Stated(g)' = Stated(g)
                /\ Choice(g)' = Choice(g)
      /\ Accepting(input, Goal)' <=> Accepting(input, Goal)
  BY <1>1, InputStays
<1>3. /\ \A V : Walked(V)' <=> Walked(V)
      /\ \A f : SoundObject(f)' <=> SoundObject(f)
      /\ \A g : Chosen(g)' <=> Chosen(g)
      /\ \A a : Valued(a)' <=> Valued(a)
  BY <1>1, <1>2 DEF Walked, Covers, SoundObject, Keys, Chosen, Valued
<1>4. StructureVerdict' /\ AttributesVerdict'
  BY <1>1, <1>2, <1>3 DEF VerdictInv, StructureVerdict, AttributesVerdict
<1>5. SelectVerdict'
  BY <1>1, <1>2, <1>3 DEF VerdictInv, SelectVerdict
<1>6. AfterSelect' /\ AllValued' /\ ErrorsAreReasons'
  BY <1>1, <1>2, <1>3 DEF VerdictInv, AfterSelect, SelectionMade, AllValued, ErrorsAreReasons
<1> QED
  BY <1>4, <1>5, <1>6 DEF VerdictInv

LEMMA VerdictStep ==
    ASSUME ValidatorInv, VerdictInv, [ValidatorNext]_validatorVars
    PROVE  VerdictInv'
<1>1. CASE ValidateProduct
  BY <1>1, ValidateVerdictHolds DEF ValidateProduct
<1>2. CASE ValidateFullspec
  BY <1>2, ValidateVerdictHolds DEF ValidateFullspec
<1>3. CASE \E f \in Features : Visit(f)
  BY <1>3, StructureVerdictHolds, MalformedVerdictHolds, SelectVerdictHolds,
     RequiredVerdictHolds, GroupsVerdictHolds, AttributesVerdictHolds DEF Visit
<1>4. CASE EndStep
  BY <1>4, EndVerdictHolds
<1> QED
  BY <1>1, <1>2, <1>3, <1>4, VerdictStays DEF ValidatorNext

(* Each pass keeps to the one selection the product describes, and what it *)
(* reports is a reason to refuse the product.                              *)
THEOREM VerdictInvariant == ValidatorSpec => []VerdictInv
<1>1. ValidatorInit => VerdictInv
  BY DEF ValidatorInit, VerdictInv, StructureVerdict, SelectVerdict, AfterSelect,
     AttributesVerdict, AllValued, ErrorsAreReasons
<1>2. ValidatorInv /\ VerdictInv /\ [ValidatorNext]_validatorVars => VerdictInv'
  BY VerdictStep
<1> QED
  BY <1>1, <1>2, ValidatorInvariant, PTL DEF ValidatorSpec

(* What is accepted is what the selection makes acceptable, and it is that *)
(* selection that is enabled.                                              *)
LEMMA AcceptedIsRight ==
    ASSUME ValidatorInv, VerdictInv, outcome = "accepted"
    PROVE  enabled = Goal /\ Accepting(input, Goal)
<1>1. SelectionMade /\ Enabled /\ Unbroken /\ enabled \subseteq Features
  BY DEF VerdictInv, AfterSelect, ValidatorInv, Finished, ValidatorTypeOK
<1>2. enabled \subseteq Goal
  BY <1>1, GoalIs DEF SelectionMade, Enabled
<1>3. Goal \subseteq enabled
  <2>1. ASSUME NEW c \in Goal \ {Root}
        PROVE  Parent[c] \in Goal \cup {Root} /\ (Parent[c] \in enabled => c \in enabled)
    <3>1. c \in Features \ {Root} /\ Parent[c] \in Goal /\ c \in present
      BY <1>1, GoalIs DEF SelectionMade
    <3>2. c \in Children(Parent[c]) \cap present
      BY <3>1 DEF Children
    <3> QED
      BY <1>1, <3>1, <3>2 DEF Enabled
  <2> QED
    BY <1>1, <2>1, GoalIs, Climb DEF Enabled
<1>4. enabled = Goal
  BY <1>2, <1>3
<1>5. Configuration(Goal) /\ Mentioned(input) \subseteq Goal
  BY <1>1, <1>4, EnabledIsConfiguration DEF Enabled
<1>6. ASSUME NEW g \in Groups, Owner[g] \in Goal
      PROVE  Decided(input, g) /\ (Rel[g] = "alternative" => ~input.listed[g].repeats)
  <2>1. Chosen(g) /\ ~Broken(g)
    BY <1>1, <1>4, <1>6 DEF SelectionMade, Unbroken
  <2> QED
    BY <2>1, ChoiceRepeats DEF Chosen, Broken
<1>7. \A a \in Attributes : AttributeOf[a] \in Goal => Valued(a)
  BY DEF VerdictInv, AllValued
<1> QED
  BY <1>1, <1>4, <1>5, <1>6, <1>7 DEF Accepting, SelectionMade, Valued

LEMMA AcceptingMeans ==
    ASSUME NEW p, NEW fs
    PROVE  Accepting(p, fs) <=> Acceptable(p, fs) /\ ~LeavesEmptyGroup(p, fs)
BY DEF Accepting, Acceptable, LeavesEmptyGroup

(* A product that is accepted is one that the selection it describes makes *)
(* acceptable, and that selection is enabled; one whose selection makes it *)
(* acceptable is accepted unless it says nothing of a group that has no    *)
(* members: for any feature model, any product, any order of keys, and     *)
(* whatever the validator was used for before.                             *)
THEOREM VerdictRight == ValidatorSpec => []VerdictIsRight
<1>1. ValidatorInv /\ VerdictInv => VerdictIsRight
  <2> SUFFICES ASSUME ValidatorInv, VerdictInv, outcome # "none"
               PROVE  /\ Goal \in SUBSET Features /\ IsSelection(input, Goal)
                      /\ outcome = "accepted" => enabled = Goal /\ Acceptable(input, Goal)
                      /\ Acceptable(input, Goal) /\ ~LeavesEmptyGroup(input, Goal)
                            => outcome = "accepted"
    BY DEF VerdictIsRight
  <2>1. outcome \in {"accepted", "rejected"}
    BY DEF ValidatorInv, ValidatorTypeOK
  <2>2. outcome = "rejected" => ~Accepting(input, Goal)
    BY DEF VerdictInv, ErrorsAreReasons
  <2>3. Accepting(input, Goal) <=> Acceptable(input, Goal) /\ ~LeavesEmptyGroup(input, Goal)
    BY AcceptingMeans
  <2> QED
    BY <2>1, <2>2, <2>3, AcceptedIsRight, GoalIs
<1> QED
  BY <1>1, ValidatorInvariant, VerdictInvariant, PTL
=============================================================================
