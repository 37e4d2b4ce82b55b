------------------------------- MODULE Device -------------------------------
(***************************************************************************)
(* A configured device from boot to SDK: Provisioning and PsaIdentity in   *)
(* the order of main and app_task of the CM33.  Every boot sets up the key *)
(* and the certificate before the scheduler starts the tasks; app_task     *)
(* takes certificate and key where it takes its identity.                  *)
(***************************************************************************)
EXTENDS Provisioning

CONSTANT CryptoFails    \* TRUE: a call of PSA crypto or mbedtls may fail

ASSUME CryptoAssumption == CryptoFails \in BOOLEAN

VARIABLES huk, slot, generated, key_id, der_data, crt_pem_buffer, firstPrinted, x509_config

Identity == INSTANCE PsaIdentity WITH
                Failing <- Failing \cup (IF CryptoFails THEN {"crypto"} ELSE {})

identityVars == <<huk, slot, generated, key_id, der_data, crt_pem_buffer,
                  firstPrinted, x509_config>>
deviceVars == <<vars, identityVars>>

DeviceInit == Init /\ Identity!Init

Main == Identity!SetupHuk /\ UNCHANGED vars

Restart == (PowerCycle \/ ResetBoard) /\ Identity!PowerUp

TakeIdentity == InitConfig /\ Identity!SetupSdkCredentials

(* A task runs once main has started the scheduler.                        *)
Running == huk = "done" /\ UNCHANGED identityVars

DeviceConfigurator == (IoInit \/ SaveConfig \/ SaveFails \/ Finish) /\ Running

DeviceApp ==
    \/ TakeIdentity
    \/ (InitRadio \/ ReadCredentials \/ Joined \/ RetriesExhausted \/ SdkInit) /\ Running

DeviceUser == User /\ Running

DeviceNext == Main \/ DeviceUser \/ DeviceConfigurator \/ DeviceApp \/ Restart

(* main ends if nothing cuts the power; two tasks of one priority share    *)
(* the core in time slices; a user who has started answers every prompt,   *)
(* in the end with a line that is taken.                                   *)
DeviceSpec ==
    /\ DeviceInit /\ [][DeviceNext]_deviceVars
    /\ WF_deviceVars(Main)
    /\ WF_deviceVars((ConfirmClear \/ EnterSsid \/ EnterPassword \/ EnterJson) /\ Running)
    /\ WF_deviceVars(DeviceConfigurator \/ (ResetBoard /\ Identity!PowerUp))
    /\ WF_deviceVars(DeviceApp)

-----------------------------------------------------------------------------
(* See PsaIdentity: what is printed is the same certificate in every boot, *)
(* whatever fails, whenever the power goes and whatever is configured.     *)
SameCertificate == Identity!SameCertificate

(* See PsaIdentity: what the SDK is given is what the next boot will find. *)
SdkCertificateIsStored == Identity!SdkCertificateIsStored
=============================================================================
