---------------------------- MODULE PsaIdentity ----------------------------
(***************************************************************************)
(* The identity of the device: a key derived from the hardware key at each *)
(* boot and a self-signed certificate kept in slot 8 of trusted storage    *)
(* (proj_cm33_ns/app_psa_mqtt.c, gencert.c).  The key is the same in every *)
(* boot; the signature of a certificate is random, so certificates are     *)
(* numbered in the order they are generated.  0: no certificate.           *)
(***************************************************************************)
EXTENDS Naturals

CONSTANT Failing    \* the calls that may fail: "crypto", "its_get", "its_set"

VARIABLES
    huk,             \* where app_psa_mqtt_setup_huk is
    slot,            \* the certificate in slot APP_PSA_CERT_ITS_UID
    generated,       \* certificates generated so far
    key_id,          \* TRUE: the key is loaded and its handle kept
    der_data,        \* the certificate read or generated in this boot
    crt_pem_buffer,  \* the certificate as printed and as given to the SDK
    firstPrinted,    \* history: the first certificate the user could read
    x509_config      \* what the SDK was given: a certificate and its key

identityVars == <<huk, slot, generated, key_id, der_data, crt_pem_buffer,
                  firstPrinted, x509_config>>

NotGiven == [device_cert |-> 0, device_key |-> FALSE]

(* The flash as delivered, the RAM as a boot finds it.                     *)
Init ==
    /\ huk = "derive"
    /\ slot = 0 /\ generated = 0 /\ firstPrinted = 0
    /\ key_id = FALSE /\ der_data = 0 /\ crt_pem_buffer = 0
    /\ x509_config = NotGiven

PowerUp ==
    /\ huk' = "derive"
    /\ key_id' = FALSE /\ der_data' = 0 /\ crt_pem_buffer' = 0
    /\ x509_config' = NotGiven
    /\ UNCHANGED <<slot, generated, firstPrinted>>

-----------------------------------------------------------------------------
(* app_psa_mqtt_setup_huk, called by main before any task runs.            *)

(* error_cleanup: the handle is forgotten, main goes on.                   *)
ErrorCleanup(step, call) ==
    /\ huk = step
    /\ call \in Failing
    /\ huk' = "done"
    /\ key_id' = FALSE
    /\ UNCHANGED <<slot, der_data, crt_pem_buffer, firstPrinted, x509_config>>

DeriveKey ==
    \/ /\ huk = "derive"
       /\ huk' = "lookup"
       /\ key_id' = TRUE
       /\ UNCHANGED <<slot, generated, der_data, crt_pem_buffer, firstPrinted, x509_config>>
    \/ ErrorCleanup("derive", "crypto") /\ UNCHANGED generated

(* A slot that cannot be read is taken for an empty one.                   *)
LookUp ==
    /\ huk = "lookup"
    /\ \/ slot # 0 /\ der_data' = slot /\ huk' = "print"
       \/ (slot = 0 \/ "its_get" \in Failing) /\ huk' = "generate" /\ UNCHANGED der_data
    /\ UNCHANGED <<slot, generated, key_id, crt_pem_buffer, firstPrinted, x509_config>>

Generate ==
    \/ /\ huk = "generate"
       /\ huk' = "store"
       /\ generated' = generated + 1
       /\ der_data' = generated + 1
       /\ UNCHANGED <<slot, key_id, crt_pem_buffer, firstPrinted, x509_config>>
    \/ ErrorCleanup("generate", "crypto") /\ UNCHANGED generated

(* Mutant: a certificate that could not be stored is used all the same.    *)
StoreFailureIgnored ==
    /\ huk = "store"
    /\ huk' = "print"
    /\ slot' \in {der_data} \cup (IF "its_set" \in Failing THEN {slot} ELSE {})
    /\ UNCHANGED <<generated, key_id, der_data, crt_pem_buffer, firstPrinted, x509_config>>

Store ==
    \/ /\ huk = "store"
       /\ huk' = "print"
       /\ slot' = der_data
       /\ UNCHANGED <<generated, key_id, der_data, crt_pem_buffer, firstPrinted, x509_config>>
    \/ ErrorCleanup("store", "its_set") /\ UNCHANGED generated

PrintPem ==
    \/ /\ huk = "print"
       /\ huk' = "done"
       /\ crt_pem_buffer' = der_data
       /\ firstPrinted' = IF firstPrinted = 0 THEN der_data ELSE firstPrinted
       /\ UNCHANGED <<slot, generated, key_id, der_data, x509_config>>
    \/ ErrorCleanup("print", "crypto") /\ UNCHANGED generated

SetupHuk == DeriveKey \/ LookUp \/ Generate \/ Store \/ PrintPem

(* app_psa_mqtt_setup_sdk_credentials: nothing is given without a key.     *)
SetupSdkCredentials ==
    /\ huk = "done"
    /\ x509_config' = IF key_id THEN [device_cert |-> crt_pem_buffer, device_key |-> TRUE]
                      ELSE x509_config
    /\ UNCHANGED <<huk, slot, generated, key_id, der_data, crt_pem_buffer, firstPrinted>>

Next == PowerUp \/ SetupHuk \/ SetupSdkCredentials

Spec == Init /\ [][Next]_identityVars

-----------------------------------------------------------------------------
(* "The same certificate will be retrieved and printed upon subsequent     *)
(* reboots": whatever fails and whenever the power goes between            *)
(* generating, storing and printing, as long as a stored certificate can   *)
(* be read back.                                                           *)
SameCertificate == crt_pem_buffer \in {0, firstPrinted}

(* The cloud is never shown a certificate that the next boot would not     *)
(* find again, nor one without its key.                                    *)
SdkCertificateIsStored ==
    \/ x509_config = NotGiven
    \/ x509_config = [device_cert |-> slot, device_key |-> TRUE] /\ slot # 0
=============================================================================
