------------------------- MODULE MCLakeEnvironment -------------------------
(* Small instances of LakeEnvironment: who is asked to do what.            *)
EXTENDS LakeEnvironment, Integers, TLC

(* The products "p", "p_fullspec" and "spec", the input iDual that is also *)
(* a fullspec, and the names of the other fullspec files.                  *)
CONSTANTS pLake, pFullspec, pSpec, i1, iDual, f1, f2, t1, t2, nFullspec, nSpec,
          addT, addU, createP, createD, createOther, createSpec, switchP,
          boot, unboot, remove, forcedRemove

MCFullspecOf == i1 :> f1 @@ iDual :> f2

MCFullName ==
    pLake :> pFullspec @@ pFullspec :> nFullspec @@ pSpec :> nSpec

AJob(op, product, input, target, consent, minimal) ==
    [op |-> op, product |-> product, input |-> input, target |-> target,
     consent |-> consent, minimal |-> minimal]

AllJobs ==
    addT :> AJob("add", NoProduct, NoInput, t1, FALSE, FALSE)
    @@ addU :> AJob("add", NoProduct, NoInput, t2, TRUE, FALSE)
    @@ createP :> AJob("create", pLake, i1, NoTarget, FALSE, FALSE)
    @@ createD :> AJob("create", pLake, iDual, t2, FALSE, TRUE)
    @@ createOther :> AJob("create", pFullspec, iDual, NoTarget, FALSE, FALSE)
    @@ createSpec :> AJob("create", pSpec, i1, t2, FALSE, TRUE)
    @@ switchP :> AJob("switch", pLake, NoInput, NoTarget, FALSE, FALSE)
    @@ boot :> AJob("bootstrap", NoProduct, NoInput, t1, FALSE, FALSE)
    @@ unboot :> AJob("unbootstrap", NoProduct, NoInput, NoTarget, FALSE, FALSE)
    @@ remove :> AJob("remove", NoProduct, NoInput, NoTarget, FALSE, FALSE)
    @@ forcedRemove :> AJob("remove", NoProduct, NoInput, NoTarget, TRUE, FALSE)

MCJob == [c \in Commands |-> AllJobs[c]]

Begun == {c \in Commands : pc[c] # "ready"}

(* Three kinds of behaviour are explored: products are made, selected and  *)
(* bootstrapped at the same time; environments are added and removed at    *)
(* the same time; and commands of any kind take turns.  Up to three of     *)
(* them begin, and of lakes of an older release one will do.               *)
MCScenario ==
    /\ Cardinality(Begun) <= 3
    /\ Begun = {} => files[FullFile(pLake)] \in {NoFile, f1}
    /\ \/ Begun \subseteq {createD, createOther, switchP, boot}
       \/ Begun \subseteq {createSpec, switchP, boot}
       \/ Begun \subseteq {addT, addU, remove, forcedRemove}
       \/ ~overlapped
=============================================================================
