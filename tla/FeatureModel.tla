---------------------------- MODULE FeatureModel ----------------------------
(***************************************************************************)
(* A feature model: a tree of features, the children of each organised in  *)
(* groups, and attributes.  A feature, group or attribute stands for its   *)
(* path of names, so that the names inside one feature are distinct is in  *)
(* the shape of the constants.  (The loader refuses two children, or two   *)
(* groups, or a group and an attribute of one name.  It lets a child have  *)
(* the name of a group or of an attribute, which would hide the child.)    *)
(***************************************************************************)
EXTENDS FiniteSets

CONSTANTS
    Features,
    Root,
    Parent,         \* feature other than Root -> its parent
    Groups,
    GroupOf,        \* feature other than Root -> the group it is a member of
    Owner,          \* group -> the feature whose children it organises
    Rel,            \* group -> its relationship
    Default,        \* group -> members it selects by default, or NoDefault
    NoDefault,
    Attributes,
    AttributeOf,    \* attribute -> the feature that has it
    Fallback        \* attribute -> what its schema's default is

Children(f) == {c \in Features \ {Root} : Parent[c] = f}
GroupsOf(f) == {g \in Groups : Owner[g] = f}
AttributesOf(f) == {a \in Attributes : AttributeOf[a] = f}
GroupMembers(g) == {c \in Features \ {Root} : GroupOf[c] = g}

Relations == {"mandatory", "optional", "alternative", "or"}

(* Parents, groups and owners as rebuild() links them.  A set of features  *)
(* closed under "parent" has the root in it: the model is a finite tree.   *)
IsTree ==
    /\ Root \in Features
    /\ Parent \in [Features \ {Root} -> Features]
    /\ GroupOf \in [Features \ {Root} -> Groups]
    /\ Owner \in [Groups -> Features]
    /\ \A c \in Features \ {Root} : Owner[GroupOf[c]] = Parent[c]
    /\ \A S \in SUBSET Features :
         S # {} => Root \in S \/ \E c \in S : Parent[c] \notin S

(* A default is checked against its own schema by nobody.                  *)
HasAttributes ==
    /\ AttributeOf \in [Attributes -> Features]
    /\ Fallback \in [Attributes -> {"none", "valid", "invalid"}]

(* check_membership and check_default_selection.                           *)
HasGroups ==
    /\ Rel \in [Groups -> Relations]
    /\ DOMAIN Default = Groups
    /\ \A g \in Groups :
         /\ Rel[g] \in {"or", "alternative"} => GroupMembers(g) # {}
         /\ Default[g] # NoDefault =>
              /\ Rel[g] # "mandatory"
              /\ Default[g] \subseteq GroupMembers(g)
              /\ Rel[g] = "alternative" => \E c \in Features : Default[g] = {c}
              /\ Rel[g] = "or" => Default[g] # {}

ASSUME FeatureModelAssumption == IsTree /\ HasAttributes /\ HasGroups

-----------------------------------------------------------------------------
(* What the docstring of SubfeatureGroup says of a group.                  *)
Satisfied(g, enabled) ==
    LET chosen == enabled \cap GroupMembers(g) IN
    CASE Rel[g] = "mandatory" -> chosen = GroupMembers(g)
      [] Rel[g] = "optional" -> TRUE
      [] Rel[g] = "alternative" -> \E c \in Features : chosen = {c}
      [] Rel[g] = "or" -> chosen # {}

(* A product of the product line.                                          *)
Configuration(enabled) ==
    /\ Root \in enabled
    /\ \A f \in enabled \ {Root} : Parent[f] \in enabled
    /\ \A g \in Groups : Owner[g] \in enabled => Satisfied(g, enabled)
=============================================================================
