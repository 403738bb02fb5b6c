---------------------------- MODULE KeyProviders ----------------------------
(***************************************************************************)
(* What the key providers make of their configuration and of the secret    *)
(* they are given: how a provider section is read, which calls get_key     *)
(* makes one after the other, and how the answer becomes a passphrase.     *)
(*                                                                         *)
(* A provider section is [type, mode, fields, key]: `mode` the value of    *)
(* auth_mode or cdh_type ("" if absent), `fields` the optional fields that *)
(* are present, `key` the secret it names. A secret is [value, form]; the  *)
(* form of the stored text is "base64", "line" (base64 and a line break),  *)
(* or "raw".                                                               *)
(***************************************************************************)
EXTENDS Naturals, Sequences

CONSTANT MaxAttempts    \* max_attempts in get_key_from_kms

ASSUME AttemptsAssumption == MaxAttempts \in Nat \ {0}

Invalid == "invalid"

(* deserialize_auth_mode: only "ecs_ram_role" is looked for.                *)
deserialize_auth_mode(section) ==
    IF section.mode = "ecs_ram_role" THEN "ecs_ram_role"
    ELSE IF {"client_key", "client_key_password", "kms_cert_pem"} \subseteq section.fields
    THEN "client_key" ELSE Invalid

(* deserialize_cdh_type: any other value is an error.                       *)
deserialize_cdh_type(section) ==
    CASE section.mode \in {"", "one-shot"} -> IF "kbs_url" \in section.fields THEN "one_shot" ELSE Invalid
      [] section.mode = "daemon" -> "daemon"
      [] OTHER -> Invalid

(* How a section is used; the other providers have no variants.             *)
Variant(section) ==
    CASE section.type = "kms" -> deserialize_auth_mode(section)
      [] section.type = "kbs" -> deserialize_cdh_type(section)
      [] OTHER -> section.type

volume_type(section) == IF section.type = "otp" THEN "Temporary" ELSE "Persistent"

-----------------------------------------------------------------------------
(* get_key *)

Discover(section) ==
    (IF "region_id" \in section.fields THEN <<>> ELSE <<"discover_region">>)
    \o (IF "ecs_ram_role_name" \in section.fields THEN <<>> ELSE <<"discover_ram_role_name">>)

(* The calls that can fail, in their order.                                 *)
KmsCalls(section) ==
    IF Variant(section) = "ecs_ram_role" THEN Discover(section) \o <<"get_secret">>
    ELSE <<"new_client_key_client", "get_secret">>

KbsCalls(section) ==
    IF Variant(section) = "daemon" THEN <<"connect", "get_resource">>
    ELSE <<"find_cdh_binary", "cdh_config", "get-resource">>

OidcCalls == <<"find_cdh_binary", "oidc_token", "sealed_secret", "unseal-secret">>

Calls(section) ==
    CASE section.type = "kms" -> KmsCalls(section)
      [] section.type = "kbs" -> KbsCalls(section)
      [] section.type = "oidc" -> OidcCalls
      [] section.type = "exec" -> <<"command">>
      [] OTHER -> <<>>

(* RetryPolicy::fixed with max_attempts - 1 retries, around get_secret only.*)
Retried(call, tries) == call = "get_secret" /\ tries < MaxAttempts

(* The forms of a stored secret that a provider can decode. The secrets of  *)
(* the KMS must be base64; only oidc trims the text first. A resource of    *)
(* the KBS may be anything: the one-shot command encodes it itself.         *)
Decodes(section, form) ==
    CASE section.type = "kms" -> form = "base64"
      [] section.type = "oidc" -> form \in {"base64", "line"}
      [] OTHER -> TRUE

(* The passphrase in a secret as the provider hands it out.                 *)
Passphrase(section, secret) ==
    IF section.type \in {"kms", "oidc"} THEN <<"decoded", secret.value>>
    ELSE <<secret.form, secret.value>>

=============================================================================
