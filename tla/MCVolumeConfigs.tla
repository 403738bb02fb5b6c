-------------------------- MODULE MCVolumeConfigs ---------------------------
(* Two files and two volumes. Providers of every kind; v1's device is       *)
(* initialised with its secret, v2's is initialised, blank or missing.      *)
EXTENDS VolumeConfigs

Sec(type, mode, fields) == [type |-> type, mode |-> mode, fields |-> fields, key |-> "k"]
ClientKey == Sec("kms", "", {"client_key", "client_key_password", "kms_cert_pem"})
RamRole == Sec("kms", "ecs_ram_role", {})
NamedRole == Sec("kms", "ecs_ram_role", {"region_id", "ecs_ram_role_name"})
OneShot == [Sec("kbs", "", {"kbs_url"}) EXCEPT !.key = "raw"]
Daemon == [Sec("kbs", "daemon", {}) EXCEPT !.key = "raw"]
Oidc == [Sec("oidc", "", {}) EXCEPT !.key = "line"]
KmsLine == [ClientKey EXCEPT !.key = "line"]
Exec == [Sec("exec", "", {}) EXCEPT !.key = "raw"]
Otp == Sec("otp", "", {})
Tpm2 == Sec("tpm2", "", {})
NoUrl == Sec("kbs", "one-shot", {})
Vol(v, d, s, auto) == [volume |-> v, dev |-> d, section |-> s, auto_open |-> auto]

MCOrder == <<"v1", "v2">>
MCSecrets == [k \in {"k", "line", "raw"} |->
                [value |-> 1, form |-> IF k = "k" THEN "base64" ELSE k]]
MCDevs ==
    [d \in {"d1", "d2", "d3", "d4"} |->
        [exists |-> d # "d4", header |-> IF d \in {"d1", "d2"} THEN "ready" ELSE "none",
         slot |-> IF d = "d1" THEN <<"decoded", 1>> ELSE IF d = "d2" THEN <<"raw", 1>> ELSE <<>>,
         user |-> None]]
Kms1 == Vol("v1", "d1", ClientKey, TRUE)
Kbs1 == Vol("v1", "d2", OneShot, TRUE)
Pairs == {<<Kms1, Vol("v2", "d2", Daemon, FALSE)>>, <<Vol("v1", "d1", Oidc, TRUE), Vol("v2", "d2", Exec, TRUE)>>,
          <<Kbs1, Vol("v2", "d3", Otp, FALSE)>>, <<Vol("v1", "d1", RamRole, TRUE), Absent>>,
          <<Kbs1, Vol("v2", "d3", NamedRole, FALSE)>>, <<Kbs1, Vol("v2", "d4", Otp, TRUE)>>,
          <<Kbs1, Vol("v2", "d1", Tpm2, FALSE)>>, <<Kbs1, Vol("v2", "d1", KmsLine, FALSE)>>,
          <<Kms1, Vol("v2", "d1", NoUrl, FALSE)>>}
MCFiles == {("f1" :> p[1]) @@ ("f2" :> p[2]) : p \in Pairs}
MCContents == {Absent, Broken, Vol("v1", "d1", Exec, FALSE), Vol("v2", "d2", OneShot, FALSE)}

Check(keep, skip) == [kind |-> "check", keep |-> keep, skip |-> skip, volumes |-> <<>>]
OpenBoth == [kind |-> "open", keep |-> FALSE, skip |-> FALSE, volumes |-> <<"v1", "v2">>]
MCJobs == {("c1" :> check) @@ ("c2" :> OpenBoth) :
             check \in {Check(TRUE, FALSE), Check(FALSE, FALSE), Check(TRUE, TRUE)}}
=============================================================================
