-------------------------- MODULE MCLakePreflight --------------------------
(* Small instances of LakePreflight.                                       *)
EXTENDS LakePreflight, TLC

CONSTANTS k1, k2, s1, s2, pod1, pod2, pod3, crd, deployment, issuer, standard, vendor

MCNameOrder == <<s1, s2>>
MCPreferred == <<s2>>
MCDefaults == {}
MCCrds == <<crd>>
MCDeployments == <<deployment>>
MCSelectors == <<standard, vendor>>
(* One labelled controller, one without labels, one labelled pod that is   *)
(* no controller.                                                          *)
MCLabels == pod1 :> {standard} @@ pod2 :> {} @@ pod3 :> {vendor}
MCNamed == {pod1, pod2}

MCHttps ==
    [scheme |-> "https", tls |-> <<"cert_manager">>, issuer |-> issuer,
     tlsNames |-> FALSE, minioUser |-> "root", insecure |-> "false",
     dynamic |-> s1, provisioning |-> NoValue, volume |-> s2]
MCHttp ==
    [MCHttps EXCEPT !.scheme = "http", !.tls = <<"no_tls">>, !.issuer = NoValue,
                    !.insecure = "true"]
MCManual ==
    [MCHttps EXCEPT !.tls = <<"manual_tls">>, !.tlsNames = TRUE, !.volume = s1]

(* Fullspecs to begin with, some around the limits of the validation.      *)
MCWritten ==
    {MCHttps, MCHttp, MCManual,
     [MCHttps EXCEPT !.tls = <<>>], [MCHttps EXCEPT !.issuer = NoValue],
     [MCHttp EXCEPT !.insecure = "false"], [MCManual EXCEPT !.tlsNames = FALSE],
     [MCHttps EXCEPT !.volume = NoValue],
     [MCHttps EXCEPT !.provisioning = s2, !.volume = NoValue],
     [MCHttps EXCEPT !.provisioning = s1]}

(* Two kinds of behaviour are explored: a fullspec is there from the       *)
(* beginning and anything may change in its one context; or a product is   *)
(* created first, and classes and the current context change.              *)
MCFocus ==
    IF active # NoValue /\ product = NoValue
    THEN /\ current = k1 /\ target = k1
         /\ served[k2] = StorageClasses
         /\ changes = 0 => served[k1] = StorageClasses
    ELSE denied = {} /\ ready = Pods /\ \A o \in Objects : health[o] = "ready"
=============================================================================
