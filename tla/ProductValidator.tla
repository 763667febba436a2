-------------------------- MODULE ProductValidator --------------------------
(***************************************************************************)
(* One ProductValidator and the products it is given: five passes over the *)
(* feature tree, each ending the validation when it has reported errors.   *)
(* An action is the visit of one feature in one pass; the recursion leaves *)
(* the features still to be visited in todo, in whatever order the keys of *)
(* the product have.                                                       *)
(*                                                                         *)
(* A product is a nested JSON object.  Its keys are features and groups:   *)
(* direct are the features that are keys of their parent's object, grouped *)
(* those that are keys of their group's object; form and listed say what   *)
(* the value of a group is.                                                *)
(***************************************************************************)
EXTENDS FeatureModel

CONSTANTS
    Products,    \* the products it may be given
    Later        \* those it may be given after another one

Forms == {"none", "list", "dict", "other"}
Values == {"none", "valid", "invalid"}
Lists == [names : SUBSET Features, repeats : BOOLEAN]
NoList == [names |-> {}, repeats |-> FALSE]

ProductSpecs ==
    [direct : SUBSET Features, grouped : SUBSET Features,
     form : [Groups -> Forms], listed : [Groups -> Lists],
     strange : SUBSET Features,       \* have a key that is no member
     malformed : SUBSET Features,     \* have a value that is no object
     values : [Attributes -> Values]]

Mentioned(p) == p.direct \cup p.grouped
Present(p) == Mentioned(p) \cup {Root}

(* Features and groups nested as the feature model nests them; whatever    *)
(* else an object holds is strange.                                        *)
Nested(p) ==
    /\ Root \notin Mentioned(p)
    /\ p.malformed \subseteq Mentioned(p)
    /\ p.strange \subseteq Present(p) \ p.malformed
    /\ \A f \in Mentioned(p) : Parent[f] \in Present(p) \ p.malformed
    /\ \A f \in p.grouped : p.form[GroupOf[f]] = "dict"
    /\ \A g \in Groups : p.form[g] # "none" => Owner[g] \in Present(p) \ p.malformed
    /\ \A g \in Groups : p.form[g] # "list" => p.listed[g] = NoList
    /\ \A g \in Groups : p.listed[g].names \subseteq Children(Owner[g])
    /\ \A a \in Attributes :
         p.values[a] # "none" => AttributeOf[a] \in Present(p) \ p.malformed

ASSUME ProductsAssumption ==
    /\ \A p \in Products : p \in ProductSpecs /\ Nested(p)
    /\ Later \subseteq Products

Steps == {"structure", "select", "required", "groups", "attributes"}

VARIABLES
    step,       \* the pass it is in
    todo,       \* the features this pass has still to visit
    input,      \* the product under validation
    present,    \* features that are keys of their parent in the working copy
    chosen,     \* group -> the list it has in the working copy
    known,      \* groups that are keys in the working copy
    values,     \* attribute -> value in the working copy
    enabled,    \* enabled_features
    errors,     \* features with validation errors
    outcome,    \* of the last product
    again       \* history: that product was a fullspec produced before

validatorVars == <<step, todo, input, present, chosen, known, values, enabled,
                   errors, outcome, again>>

NoProduct ==
    [direct |-> {}, grouped |-> {}, form |-> [g \in Groups |-> "none"],
     listed |-> [g \in Groups |-> NoList], strange |-> {}, malformed |-> {},
     values |-> [a \in Attributes |-> "none"]]

ValidatorTypeOK ==
    /\ step \in Steps \cup {"idle"}
    /\ todo \subseteq Features
    /\ input \in ProductSpecs
    /\ Nested(input)
    /\ present \subseteq Features \ {Root}
    /\ chosen \in [Groups -> Lists]
    /\ known \subseteq Groups
    /\ values \in [Attributes -> Values]
    /\ enabled \subseteq Features
    /\ errors \subseteq Features
    /\ outcome \in {"none", "accepted", "rejected"}
    /\ again \in BOOLEAN

ValidatorInit ==
    /\ step = "idle"
    /\ todo = {}
    /\ input = NoProduct
    /\ present = {}
    /\ chosen = [g \in Groups |-> NoList]
    /\ known = {}
    /\ values = [a \in Attributes |-> "none"]
    /\ enabled = {}
    /\ errors = {}
    /\ outcome = "none"
    /\ again = FALSE

-----------------------------------------------------------------------------
(* Mutant: a validator used again still holds the features of the product  *)
(* before.                                                                 *)
Validate_KeepsEnabled(p, isFullspec) ==
    /\ step = "idle"
    /\ step' = "structure"
    /\ todo' = {Root}
    /\ input' = p
    /\ present' = p.direct
    /\ chosen' = p.listed
    /\ known' = {g \in Groups : p.form[g] # "none"}
    /\ values' = p.values
    /\ errors' = {}
    /\ outcome' = "none"
    /\ again' = isFullspec
    /\ UNCHANGED enabled

(* Clear the validator, copy the product, begin.                           *)
Validate(p, isFullspec) ==
    /\ step = "idle"
    /\ step' = "structure"
    /\ todo' = {Root}
    /\ input' = p
    /\ present' = p.direct
    /\ chosen' = p.listed
    /\ known' = {g \in Groups : p.form[g] # "none"}
    /\ values' = p.values
    /\ enabled' = {}
    /\ errors' = {}
    /\ outcome' = "none"
    /\ again' = isFullspec

Visiting(pass, f) == step = pass /\ f \in todo

(* Visit the features among cs next.                                       *)
VisitNext(f, cs) == todo' = (todo \ {f}) \cup cs

Report(f, wrong) == errors' = IF wrong THEN errors \cup {f} ELSE errors

-----------------------------------------------------------------------------
(* The keys of the object of g, or the names in its list.                  *)
Keys(g) ==
    IF input.form[g] = "dict"
    THEN {c \in input.grouped : GroupOf[c] = g}
    ELSE input.listed[g].names

(* Mutant: a member may not be listed and have an object of its own.       *)
BadGroup_ListsToo(g) ==
    \/ input.form[g] = "other"
    \/ ~(Keys(g) \subseteq GroupMembers(g))
    \/ Keys(g) \cap present # {}

BadGroup(g) ==
    \/ input.form[g] = "other"
    \/ ~(Keys(g) \subseteq GroupMembers(g))
    \/ input.form[g] = "dict" /\ Keys(g) \cap present # {}

(* Group objects are dissolved: features move up, the group is a list.     *)
VisitStructure(f) ==
    LET dicts == {g \in GroupsOf(f) : input.form[g] = "dict"}
        moved == UNION {Keys(g) : g \in dicts} IN
    /\ Visiting("structure", f)
    /\ f \notin input.malformed
    /\ present' = present \cup moved
    /\ chosen' = [g \in Groups |->
                    IF g \in dicts THEN [names |-> Keys(g), repeats |-> FALSE]
                    ELSE chosen[g]]
    /\ Report(f, f \in input.strange
                   \/ \E g \in GroupsOf(f) \cap known : BadGroup(g))
    /\ VisitNext(f, Children(f) \cap present')
    /\ UNCHANGED <<step, input, known, values, enabled, outcome, again>>

(* A value that is no object raises at once.                               *)
VisitMalformed(f) ==
    /\ Visiting("structure", f)
    /\ f \in input.malformed
    /\ outcome' = "rejected"
    /\ step' = "idle"
    /\ UNCHANGED <<todo, input, present, chosen, known, values, enabled, errors,
                   again>>

-----------------------------------------------------------------------------
(* Selection of a group: all of it, what the product lists or mentions,    *)
(* the default.                                                            *)
Selection(g) ==
    LET mentioned == GroupMembers(g) \cap present IN
    IF Rel[g] = "mandatory" THEN [names |-> GroupMembers(g), repeats |-> FALSE]
    ELSE IF g \in known THEN chosen[g]
    ELSE IF mentioned # {} THEN [names |-> mentioned, repeats |-> FALSE]
    ELSE IF Default[g] # NoDefault THEN [names |-> Default[g], repeats |-> FALSE]
    ELSE NoList

Undecided(g) ==
    /\ Rel[g] # "mandatory"
    /\ g \notin known
    /\ GroupMembers(g) \cap present = {}
    /\ Default[g] = NoDefault

(* Mutant: a group that is listed passes with members it does not list.    *)
VisitSelect_UnlistedPass(f) ==
    LET decided == {g \in GroupsOf(f) : ~Undecided(g)}
        added == UNION {Selection(g).names : g \in decided} IN
    /\ Visiting("select", f)
    /\ known' = known \cup decided
    /\ chosen' = [g \in Groups |-> IF g \in decided THEN Selection(g) ELSE chosen[g]]
    /\ present' = present \cup added
    /\ Report(f, GroupsOf(f) # decided)
    /\ VisitNext(f, Children(f) \cap present')
    /\ UNCHANGED <<step, input, values, enabled, outcome, again>>

VisitSelect(f) ==
    LET decided == {g \in GroupsOf(f) : ~Undecided(g)}
        added == UNION {Selection(g).names : g \in decided} IN
    /\ Visiting("select", f)
    /\ known' = known \cup decided
    /\ chosen' = [g \in Groups |-> IF g \in decided THEN Selection(g) ELSE chosen[g]]
    /\ present' = present \cup added
    /\ Report(f, \/ GroupsOf(f) # decided
                 \/ \E c \in Children(f) \cap present :
                      c \notin Selection(GroupOf[c]).names)
    /\ VisitNext(f, Children(f) \cap present')
    /\ UNCHANGED <<step, input, values, enabled, outcome, again>>

-----------------------------------------------------------------------------
VisitRequired(f) ==
    /\ Visiting("required", f)
    /\ enabled' = enabled \cup {f}
    /\ VisitNext(f, Children(f) \cap present)
    /\ UNCHANGED <<step, input, present, chosen, known, values, errors, outcome,
                   again>>

(* Mutant: an alternative group passes with two of its members.            *)
Broken_ManyAlternatives(g) ==
    Rel[g] \in {"alternative", "or"} /\ chosen[g].names = {}

(* The length of the list counts, repeated names included.                 *)
Broken(g) ==
    \/ /\ Rel[g] = "alternative"
       /\ chosen[g].repeats \/ ~\E c \in Features : chosen[g].names = {c}
    \/ Rel[g] = "or" /\ chosen[g].names = {}

VisitGroups(f) ==
    /\ Visiting("groups", f)
    /\ Report(f, \E g \in GroupsOf(f) : Broken(g))
    /\ VisitNext(f, Children(f) \cap present)
    /\ UNCHANGED <<step, input, present, chosen, known, values, enabled, outcome,
                   again>>

(* Mutant: a default replaces what the product says.                       *)
VisitAttributes_DefaultsWin(f) ==
    /\ Visiting("attributes", f)
    /\ values' = [a \in Attributes |->
                    IF AttributeOf[a] = f /\ Fallback[a] # "none"
                    THEN Fallback[a] ELSE values[a]]
    /\ Report(f, \E a \in AttributesOf(f) : values'[a] # "valid")
    /\ VisitNext(f, Children(f) \cap present)
    /\ UNCHANGED <<step, input, present, chosen, known, enabled, outcome, again>>

(* An attribute that is there must be valid; one that is not gets its      *)
(* default, unchecked.                                                     *)
VisitAttributes(f) ==
    /\ Visiting("attributes", f)
    /\ values' = [a \in Attributes |->
                    IF AttributeOf[a] = f /\ values[a] = "none" THEN Fallback[a]
                    ELSE values[a]]
    /\ Report(f, \E a \in AttributesOf(f) :
                   values[a] = "invalid" \/ values'[a] = "none")
    /\ VisitNext(f, Children(f) \cap present)
    /\ UNCHANGED <<step, input, present, chosen, known, enabled, outcome, again>>

-----------------------------------------------------------------------------
StepAfter(s) ==
    CASE s = "structure" -> "select"
      [] s = "select" -> "required"
      [] s = "required" -> "groups"
      [] s = "groups" -> "attributes"
      [] s = "attributes" -> "idle"

(* A pass is over: raise, go on to the next pass, or keep the result.      *)
EndStep ==
    /\ step # "idle"
    /\ todo = {}
    /\ \/ /\ errors # {}
          /\ step' = "idle"
          /\ outcome' = "rejected"
          /\ UNCHANGED todo
       \/ /\ errors = {}
          /\ step' = StepAfter(step)
          /\ todo' = (IF step = "attributes" THEN {} ELSE {Root})
          /\ outcome' = (IF step = "attributes" THEN "accepted" ELSE "none")
    /\ UNCHANGED <<input, present, chosen, known, values, enabled, errors, again>>

(* Mutant: the root is a key of its own fullspec.                          *)
Fullspec_WithRoot ==
    [direct |-> present \cup {Root}, grouped |-> {},
     form |-> [g \in Groups |-> IF g \in known THEN "list" ELSE "none"],
     listed |-> chosen, strange |-> {}, malformed |-> {}, values |-> values]

(* fullspec, read as a product.                                            *)
Fullspec ==
    [direct |-> present, grouped |-> {},
     form |-> [g \in Groups |-> IF g \in known THEN "list" ELSE "none"],
     listed |-> chosen, strange |-> {}, malformed |-> {}, values |-> values]

ValidateProduct ==
    /\ step = "idle"
    /\ \E p \in IF outcome = "none" THEN Products ELSE Later : Validate(p, FALSE)

ValidateFullspec == outcome = "accepted" /\ Validate(Fullspec, TRUE)

Visit(f) ==
    \/ VisitStructure(f)
    \/ VisitMalformed(f)
    \/ VisitSelect(f)
    \/ VisitRequired(f)
    \/ VisitGroups(f)
    \/ VisitAttributes(f)

ValidatorNext ==
    \/ ValidateProduct
    \/ ValidateFullspec
    \/ \E f \in Features : Visit(f)
    \/ EndStep

ValidatorSpec == ValidatorInit /\ [][ValidatorNext]_validatorVars
-----------------------------------------------------------------------------
(* Whatever was validated before, an accepted product is a product of the  *)
(* feature model - every group satisfied at every level, which no pass     *)
(* checks by itself - and has every feature that was mentioned.            *)
AcceptedIsConfiguration ==
    outcome = "accepted" =>
        Configuration(enabled) /\ Mentioned(input) \subseteq enabled

(* The selection a product describes, in one formula.                      *)
Wanted(p, g) ==
    IF Rel[g] = "mandatory" THEN GroupMembers(g)
    ELSE IF p.form[g] = "list" THEN p.listed[g].names
    ELSE IF p.form[g] = "dict" THEN {c \in p.grouped : GroupOf[c] = g}
    ELSE IF \E c \in p.direct : GroupOf[c] = g THEN {c \in p.direct : GroupOf[c] = g}
    ELSE IF Default[g] # NoDefault THEN Default[g] ELSE {}

Decided(p, g) ==
    \/ Rel[g] = "mandatory" \/ p.form[g] # "none" \/ Default[g] # NoDefault
    \/ \E c \in p.direct : GroupOf[c] = g

IsSelection(p, fs) ==
    fs = {f \in Features : f = Root \/ (Parent[f] \in fs /\ f \in Wanted(p, GroupOf[f]))}

WellFormed(p) ==
    /\ p.strange = {} /\ p.malformed = {}
    /\ p.direct \cap p.grouped = {}
    /\ \A g \in Groups :
         /\ p.form[g] # "other"
         /\ p.form[g] = "list" => p.listed[g].names \subseteq GroupMembers(g)

(* Every group is decided, but for one without members: the comment in     *)
(* product.py excuses it ("an error, unless the group is empty").          *)
Acceptable(p, fs) ==
    /\ WellFormed(p)
    /\ Configuration(fs)
    /\ Mentioned(p) \subseteq fs
    /\ \A g \in Groups :
         Owner[g] \in fs =>
             /\ Decided(p, g) \/ GroupMembers(g) = {}
             /\ Rel[g] = "alternative" => ~p.listed[g].repeats
    /\ \A a \in Attributes :
         AttributeOf[a] \in fs =>
             p.values[a] = "valid" \/ (p.values[a] = "none" /\ Fallback[a] # "none")

LeavesEmptyGroup(p, fs) ==
    \E g \in Groups : Owner[g] \in fs /\ GroupMembers(g) = {} /\ ~Decided(p, g)

(* The five passes compute that selection.  What they accept it makes      *)
(* acceptable, and nothing is refused without a reason; of a product that  *)
(* says nothing of an empty group only the first is claimed.               *)
VerdictIsRight ==
    outcome # "none" =>
        \E fs \in SUBSET Features :
            /\ IsSelection(input, fs)
            /\ outcome = "accepted" => enabled = fs /\ Acceptable(input, fs)
            /\ Acceptable(input, fs) /\ ~LeavesEmptyGroup(input, fs) => outcome = "accepted"

(* product.py, _select_features: "No selection for this group!! an error,  *)
(* unless the group is empty": a product is not refused for being silent   *)
(* about a group that has no members.                                      *)
EmptyGroupNeedsNoSelection ==
    outcome # "none" =>
        \A fs \in SUBSET Features :
            IsSelection(input, fs) /\ Acceptable(input, fs) => outcome = "accepted"

(* The fullspec of a product is a product, and its own fullspec (for       *)
(* defaults that keep their schema): what is stored in a lake may be read  *)
(* as what the operator asked for.                                         *)
FullspecIsFixpoint ==
    again /\ outcome # "none" /\ (\A a \in Attributes : Fallback[a] # "invalid")
        => outcome = "accepted" /\ Fullspec = input
=============================================================================
