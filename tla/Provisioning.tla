---------------------------- MODULE Provisioning ----------------------------
(***************************************************************************)
(* Device configuration on the CM33: the record in RAM and in PSA internal *)
(* trusted storage (app_its_config.c), the configurator that a user talks  *)
(* to over USB (app_configurator_task.c) and app_task, which takes its     *)
(* identity and its Wi-Fi credentials from the record (app_task.c,         *)
(* wifi_app.c), with power cycles between any two steps.                   *)
(*                                                                         *)
(* A value is known by where it comes from: 0 is the empty string, 1 the   *)
(* value built into the image, 2 what an earlier firmware left in trusted  *)
(* storage, b + 2 the value a user entered in boot b.                      *)
(* "duid" stands for duid, cpid and env, which are set and read alike.     *)
(*                                                                         *)
(* A stretch of either task between two blocking calls is one step: both   *)
(* run on one core and a user needs many time slices for a line of input.  *)
(* A line the configurator rejects and asks for again changes nothing.     *)
(***************************************************************************)
EXTENDS Naturals

CONSTANTS
    MaxBoots,   \* bound: boots of the device
    BuiltIn,    \* TRUE: wifi_config.h holds a network and its password
    LongInput,  \* TRUE: the user may enter a value longer than its field
    OldRecords, \* records of another version or size an earlier firmware left
    Failing     \* the TF-M calls that may fail, of TfmCalls

TfmCalls == {"its_get", "its_set", "its_remove", "reset"}

Left == 2

ASSUME ConstantsAssumption ==
    /\ MaxBoots \in Nat \ {0}
    /\ BuiltIn \in BOOLEAN
    /\ LongInput \in BOOLEAN
    /\ OldRecords \subseteq [version : BOOLEAN, ssid : {0, Left}, pass : {0, Left},
                              platform : {0, Left}, duid : {0, Left}]
    /\ Failing \subseteq TfmCalls

VARIABLES
    boots,         \* power cycles and resets so far, from 1
    its,           \* the record in trusted storage; version FALSE: none
                   \* of this version
    app_its_data,  \* the record in RAM
    had_existing_config,
    s_configurator_in_progress,
    configurator,  \* where the configurator task is
    app,           \* where app_task is
    attempt,       \* which of the two calls of wifi_connect
    config,        \* what app_task took for the SDK before Wi-Fi was up
    connect_param, \* the credentials wifi_connect copied
    used           \* the identity iotconnect_sdk_init was given

recordVars == <<its, app_its_data>>
cfgVars    == <<had_existing_config, s_configurator_in_progress, configurator>>
appVars    == <<app, attempt, config, connect_param, used>>
vars       == <<boots, recordVars, cfgVars, appVars>>

Values == 0 .. MaxBoots + 2
Entered == boots + 2
Built   == IF BuiltIn THEN 1 ELSE 0

DeviceConfig == [version : BOOLEAN, ssid : Values, pass : Values,
                 platform : Values, duid : Values]
Erased == [version |-> FALSE, ssid |-> 0, pass |-> 0, platform |-> 0, duid |-> 0]

NoIdentity    == [platform |-> 0, duid |-> 0]
NoCredentials == [ssid |-> 0, pass |-> 0]

-----------------------------------------------------------------------------
(* app_its_config.c                                                        *)

(* A getter hands out the default unless the record is valid and the       *)
(* string is not empty.                                                    *)
Get(field, default) ==
    IF app_its_data.version /\ app_its_data[field] # 0
    THEN app_its_data[field] ELSE default

(* app_its_config_get_platform: a number, which has no empty value.        *)
GetPlatform == IF app_its_data.version THEN app_its_data.platform ELSE 1

(* The ways a line of the user may change a record: the value fits its     *)
(* field and makes the record valid, or is too long and changes nothing.   *)
SetValue(record, field) ==
    {[record EXCEPT ![field] = Entered, !.version = TRUE]}
        \cup (IF LongInput THEN {record} ELSE {})

(* psa_its_get fills the record in RAM with whatever is stored, and what   *)
(* app_its_config_init then finds wrong with its size or version is only   *)
(* printed.  A read that fails leaves the record erased.                   *)
Loaded == {its} \cup (IF "its_get" \in Failing THEN {Erased} ELSE {})

Init ==
    /\ boots = 1
    /\ its \in {Erased} \cup OldRecords
    /\ app_its_data \in Loaded
    /\ had_existing_config = app_its_data.version
    /\ s_configurator_in_progress = FALSE
    /\ configurator = "start"
    /\ app = "start"
    /\ attempt = 1
    /\ config = [platform |-> 0, ownDuid |-> FALSE]
    /\ connect_param = NoCredentials
    /\ used = NoIdentity

(* main: the record is loaded before the scheduler starts both tasks.      *)
Boot ==
    /\ boots' = boots + 1
    /\ UNCHANGED its
    /\ app_its_data' \in Loaded
    /\ had_existing_config' = app_its_data'.version
    /\ s_configurator_in_progress' = FALSE
    /\ configurator' = "start"
    /\ app' = "start"
    /\ attempt' = 1
    /\ config' = [platform |-> 0, ownDuid |-> FALSE]
    /\ connect_param' = NoCredentials
    /\ used' = NoIdentity

PowerCycle == boots < MaxBoots /\ Boot

-----------------------------------------------------------------------------
(* app_configurator_task: each action takes a line of the user (or ends a  *)
(* delay) and runs to the next prompt.                                     *)

CfgStep(from, to) == configurator = from /\ configurator' = to /\ UNCHANGED <<boots, appVars>>

IoInit ==
    /\ \E to \in {"enter", "deleted"} : CfgStep("start", to)
    /\ UNCHANGED <<recordVars, had_existing_config, s_configurator_in_progress>>

(* ENTER.  Bound: a stored configuration is not replaced in the last boot,  *)
(* since that ends in a reset.                                             *)
PressEnter ==
    /\ had_existing_config => boots < MaxBoots
    /\ CfgStep("enter", IF had_existing_config THEN "confirm" ELSE "ssid")
    /\ s_configurator_in_progress' = TRUE
    /\ UNCHANGED <<recordVars, had_existing_config>>

(* Mutants of the clearing: only the RAM, only the storage.                *)
ClearRamOnly ==
    /\ CfgStep("confirm", "ssid")
    /\ app_its_data' = Erased
    /\ UNCHANGED <<its, had_existing_config, s_configurator_in_progress>>

ClearStoreOnly ==
    /\ CfgStep("confirm", "ssid")
    /\ its' = Erased
    /\ UNCHANGED <<app_its_data, had_existing_config, s_configurator_in_progress>>

(* "y": app_its_config_clear erases the RAM and removes the stored record;  *)
(* a failure to remove it is only logged.                                  *)
ConfirmClear ==
    /\ CfgStep("confirm", "ssid")
    /\ app_its_data' = Erased
    /\ its' \in {Erased} \cup (IF "its_remove" \in Failing THEN {its} ELSE {})
    /\ UNCHANGED <<had_existing_config, s_configurator_in_progress>>

(* The prompt for the network repeats until the record has a name for it.  *)
EnterSsid ==
    /\ CfgStep("ssid", "pass")
    /\ app_its_data' = [app_its_data EXCEPT !.ssid = Entered, !.version = TRUE]
    /\ UNCHANGED <<its, had_existing_config, s_configurator_in_progress>>

(* Anything is taken for a password: an empty line for an open network, and *)
(* one that is too long is dropped without a word.                         *)
EnterPassword ==
    /\ CfgStep("pass", "json")
    /\ app_its_data' \in SetValue(app_its_data, "pass") \cup {[app_its_data EXCEPT !.pass = 0]}
    /\ UNCHANGED <<its, had_existing_config, s_configurator_in_progress>>

(* A document that parses: each member is set, whatever the others did.    *)
EnterJson ==
    /\ CfgStep("json", "save")
    /\ \E r \in SetValue(app_its_data, "platform") : app_its_data' \in SetValue(r, "duid")
    /\ UNCHANGED <<its, had_existing_config, s_configurator_in_progress>>

SaveConfig ==
    /\ CfgStep("save", "saved")
    /\ app_its_data' = [app_its_data EXCEPT !.version = TRUE]
    /\ its' = app_its_data'
    /\ UNCHANGED <<had_existing_config, s_configurator_in_progress>>

(* psa_its_set fails: the task ends there and then.                        *)
SaveFails ==
    /\ "its_set" \in Failing
    /\ CfgStep("save", "deleted")
    /\ app_its_data' = [app_its_data EXCEPT !.version = TRUE]
    /\ UNCHANGED <<its, had_existing_config, s_configurator_in_progress>>

(* After the delay: a device that had a configuration resets.              *)
ResetBoard == configurator = "saved" /\ had_existing_config /\ Boot

(* Mutant: the flag is left set.                                           *)
FinishInProgress ==
    /\ had_existing_config => "reset" \in Failing
    /\ CfgStep("saved", "deleted")
    /\ UNCHANGED <<recordVars, had_existing_config, s_configurator_in_progress>>

Finish ==
    /\ had_existing_config => "reset" \in Failing
    /\ CfgStep("saved", "deleted")
    /\ s_configurator_in_progress' = FALSE
    /\ UNCHANGED <<recordVars, had_existing_config>>

-----------------------------------------------------------------------------
(* app_task up to the SDK.                                                 *)

AppStep(from, to) == app = from /\ app' = to /\ UNCHANGED <<boots, recordVars, cfgVars>>

(* Mutant: the platform built in is used.                                  *)
InitConfigBuiltIn ==
    /\ AppStep("start", "radio")
    /\ config' = [platform |-> 1, ownDuid |-> app_its_data.version /\ app_its_data.duid # 0]
    /\ UNCHANGED <<attempt, connect_param, used>>

(* The CM55 has answered.  The platform is copied; the other members become *)
(* pointers, into the record or to the defaults.                           *)
InitConfig ==
    /\ AppStep("start", "radio")
    /\ config' = [platform |-> GetPlatform,
                  ownDuid  |-> app_its_data.version /\ app_its_data.duid # 0]
    /\ UNCHANGED <<attempt, connect_param, used>>

(* cy_wcm_init; "this call will not return if it fails".                   *)
InitRadio ==
    /\ \E to \in {"wifi", "stopped"} : AppStep("radio", to)
    /\ UNCHANGED <<attempt, config, connect_param, used>>

(* Mutant: no wait for the configurator.                                   *)
ReadWithoutWait ==
    /\ Get("ssid", Built) # 0
    /\ AppStep("wifi", "joining")
    /\ connect_param' = [ssid |-> Get("ssid", Built), pass |-> Get("pass", Built)]
    /\ UNCHANGED <<attempt, config, used>>

(* app_configurator_wait_if_in_progress, then both getters; with no network *)
(* wifi_connect sleeps, waits and reads again.                             *)
ReadCredentials ==
    /\ ~s_configurator_in_progress
    /\ Get("ssid", Built) # 0
    /\ AppStep("wifi", "joining")
    /\ connect_param' = [ssid |-> Get("ssid", Built), pass |-> Get("pass", Built)]
    /\ UNCHANGED <<attempt, config, used>>

(* cy_wcm_connect_ap, MAX_WIFI_CONN_RETRIES times with the same copy.      *)
Joined ==
    /\ AppStep("joining", "sdk")
    /\ UNCHANGED <<attempt, config, connect_param, used>>

(* Mutant: one call of wifi_connect too many.                              *)
RetriesUnlimited ==
    /\ AppStep("joining", "wifi")
    /\ attempt' = attempt + 1
    /\ UNCHANGED <<config, connect_param, used>>

RetriesExhausted ==
    /\ AppStep("joining", IF attempt = 1 THEN "wifi" ELSE "stopped")
    /\ attempt' = 2
    /\ UNCHANGED <<config, connect_param, used>>

SdkInit ==
    /\ \E to \in {"running", "stopped"} : AppStep("sdk", to)
    /\ used' = [platform |-> config.platform,
                duid     |-> IF config.ownDuid THEN app_its_data.duid ELSE 1]
    /\ UNCHANGED <<attempt, config, connect_param>>

-----------------------------------------------------------------------------
User         == PressEnter \/ ConfirmClear \/ EnterSsid \/ EnterPassword \/ EnterJson
Configurator == IoInit \/ SaveConfig \/ SaveFails \/ ResetBoard \/ Finish
AppTask      == \/ InitConfig \/ InitRadio \/ ReadCredentials
                \/ Joined \/ RetriesExhausted \/ SdkInit

Next == User \/ Configurator \/ AppTask \/ PowerCycle

Spec == Init /\ [][Next]_vars

-----------------------------------------------------------------------------
(* Types of the two records, of the configurator and of app_task.          *)
TypeOK ==
    /\ boots \in 1 .. MaxBoots
    /\ its \in DeviceConfig
    /\ app_its_data \in DeviceConfig
    /\ had_existing_config \in BOOLEAN
    /\ s_configurator_in_progress \in BOOLEAN
    /\ configurator \in {"start", "enter", "confirm", "ssid", "pass", "json",
                         "save", "saved", "deleted"}
    /\ app \in {"start", "radio", "wifi", "joining", "sdk", "running", "stopped"}
    /\ attempt \in 1 .. 2
    /\ config \in [platform : Values, ownDuid : BOOLEAN]
    /\ connect_param \in [ssid : Values, pass : Values]
    /\ used \in [platform : Values, duid : Values]

(* What is set in a record was entered in one and the same session, or is  *)
(* left of a record of an earlier firmware, which nothing erases.          *)
OneSession(r) ==
    \A f \in {"ssid", "pass", "platform", "duid"} : r[f] \in {0, Left, r.ssid}

(* Whatever the order of sessions, failures and power cycles, the stored   *)
(* record never mixes the answers of two sessions, and one that this       *)
(* firmware stored names a network.                                        *)
StoredIsOneSession ==
    OneSession(its) /\ (its.version => its.ssid # 0 \/ its \in OldRecords)

(* app_configurator_wait_if_in_progress keeps wifi_connect from reading a  *)
(* record that is half filled: a configured network is joined with the     *)
(* password configured for it, none where the configurator shows the user  *)
(* "[open network]".                                                       *)
CredentialsOfOneSource ==
    connect_param.ssid > 1 /\ connect_param.ssid = app_its_data.ssid
        => connect_param.pass = app_its_data.pass

(* While a device asks for a network, its old configuration is gone for    *)
(* good, provided that psa_its_remove works: the header says "clear the    *)
(* stored config data", the configurator "Configuration cleared.".         *)
ClearedIsGone ==
    configurator \in {"ssid", "pass", "json"} => ~its.version

(* The device that connects to the configured network is the configured    *)
(* device: wifi_connect waits because "eventually the user may configure   *)
(* the values via the configurator".                                       *)
IdentityFollowsCredentials ==
    app = "running" /\ connect_param.ssid > 1
        => used = [platform |-> connect_param.ssid, duid |-> connect_param.ssid]

(* A device that restarts with a stored record and whose user leaves it    *)
(* alone runs with that record's network and identity.                     *)
StoredRecordIsUsed ==
    app = "running" /\ had_existing_config /\ configurator \in {"start", "enter"}
        => /\ connect_param.ssid = IF its.ssid = 0 THEN Built ELSE its.ssid
           /\ used = [platform |-> its.platform,
                      duid |-> IF its.duid = 0 THEN 1 ELSE its.duid]

(* The configurator ended with answers that are not in the storage.        *)
SaveFailed == configurator = "deleted" /\ s_configurator_in_progress /\ its # app_its_data

(* The application waits for the configurator only as long as there is one *)
(* that works.                                                             *)
WaitEndsOrSaveFailed ==
    s_configurator_in_progress ~> (~s_configurator_in_progress \/ SaveFailed)

(* "Blocking call. If the configurator is in progress, wait until it is    *)
(* done": the wait ends.                                                   *)
WaitEnds == s_configurator_in_progress ~> ~s_configurator_in_progress

(* A network that is entered while the application waits for one is tried, *)
(* at once or after the reset, if it could be saved.                       *)
NewCredentialsTried ==
    \A b \in 1 .. MaxBoots :
        (boots = b /\ app = "wifi" /\ configurator = "ssid")
            ~> (connect_param.ssid = b + 2 \/ boots # b \/ SaveFailed)
=============================================================================
