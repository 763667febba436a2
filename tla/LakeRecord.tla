----------------------------- MODULE LakeRecord -----------------------------
(***************************************************************************)
(* What the bootstrap and unbootstrap commands promise about the record of *)
(* a lake in one namespace, free of Secrets and API calls: at most one     *)
(* record at a time, made by one bootstrap and never replaced, only        *)
(* erased; a bootstrap reports success only in the step that records.      *)
(***************************************************************************)
CONSTANTS Products, Bootstraps, NoRecord

VARIABLES
    record,     \* NoRecord, or who recorded which fullspec
    outcome     \* how each bootstrap ended, if it has

Init ==
    /\ record = NoRecord
    /\ outcome = [b \in Bootstraps |-> "pending"]

(* The answer to the call that records may be lost: the record is there    *)
(* and the command reports failure.                                        *)
Record(b) ==
    /\ record = NoRecord
    /\ outcome[b] = "pending"
    /\ \E p \in Products : record' = [by |-> b, holds |-> p]
    /\ \E result \in {"success", "failure"} :
         outcome' = [outcome EXCEPT ![b] = result]

Fail(b) ==
    /\ outcome[b] = "pending"
    /\ outcome' = [outcome EXCEPT ![b] = "failure"]
    /\ UNCHANGED record

Erase ==
    /\ record # NoRecord
    /\ record' = NoRecord
    /\ UNCHANGED outcome

Next == Erase \/ \E b \in Bootstraps : Record(b) \/ Fail(b)

Spec == Init /\ [][Next]_<<record, outcome>>
=============================================================================
