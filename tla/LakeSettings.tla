---------------------------- MODULE LakeSettings ----------------------------
(***************************************************************************)
(* What the commands promise about the settings of a lake environment when *)
(* they are run one after another: a command changes the aspect it is for  *)
(* and no other, product and fullspec are selected together, unmarked      *)
(* settings are marked before anything else, settings that became          *)
(* unreadable are left as they are, and settings with a selection are      *)
(* removed only when that is forced.  Where the product file of a product  *)
(* is spec.json, creating it replaces all settings, and the lake goes on   *)
(* without its mark.                                                       *)
(***************************************************************************)
CONSTANTS
    Products, Fullspecs, Targets, NoProduct, NoFullspec,
    Blank,          \* the settings of a new environment
    Absent,
    Lost            \* unreadable, or nothing is promised any more

VARIABLES
    settings,
    forced,         \* the command at work may remove a selection
    overwriting     \* it creates the product whose file is spec.json

Usable == settings \notin {Absent, Lost}
Marked == Usable /\ settings.marked

(* Settings that are marked, or that just lost their mark to a product.    *)
Taken == Usable /\ (settings.marked \/ overwriting)

Init == settings # Lost

Establish ==
    /\ settings = Absent
    /\ settings' = [Blank EXCEPT !.marked = TRUE]

Mark ==
    /\ Usable
    /\ settings' = [settings EXCEPT !.marked = TRUE]

Select ==
    /\ Taken
    /\ \E p \in Products, f \in Fullspecs :
         settings' = [settings EXCEPT !.name = p, !.active = f]

Retarget ==
    /\ Taken
    /\ \E t \in Targets : settings' = [settings EXCEPT !.target = t]

Forget ==
    /\ Marked
    /\ settings' = [settings EXCEPT !.legacy = FALSE]

Remove ==
    /\ Marked
    /\ settings.active = NoFullspec \/ forced
    /\ settings' = Absent

Overwrite ==
    /\ overwriting
    /\ Marked
    /\ settings' = Blank

(* A command died while it wrote, or two commands were at work at a time.  *)
Lose ==
    /\ settings # Lost
    /\ settings' = Lost

Next == Establish \/ Mark \/ Select \/ Retarget \/ Forget \/ Remove
        \/ Overwrite \/ Lose

(* What a command is asked to do is up to its operator.                    *)
Spec == Init /\ [][Next]_settings
=============================================================================
