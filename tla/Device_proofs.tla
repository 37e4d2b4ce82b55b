---------------------------- MODULE Device_proofs ----------------------------
(***************************************************************************)
(* A device from boot to SDK, for every number of boots, every set of      *)
(* failing calls and every order of configuring and losing power: first    *)
(* its configuration (Provisioning, by itself and in the device), then its *)
(* certificate (PsaIdentity).                                              *)
(***************************************************************************)
EXTENDS Device, TLAPS

(* What the device does with its configuration is what Provisioning says:  *)
(* no step of main, of the identity or of the boot order adds to it.       *)
THEOREM DeviceConfigures == DeviceSpec => Spec
<1>1. DeviceInit => Init
  BY DEF DeviceInit
<1>2. [DeviceNext]_deviceVars => [Next]_vars
  <2>1. CASE Main \/ UNCHANGED deviceVars
    BY <2>1 DEF Main, deviceVars
  <2>2. CASE DeviceUser \/ DeviceConfigurator \/ DeviceApp \/ Restart
    BY <2>2 DEF DeviceUser, DeviceConfigurator, DeviceApp, TakeIdentity, Restart,
                Next, Configurator, AppTask
  <2> QED
    BY <2>1, <2>2 DEF DeviceNext
<1> QED
  BY <1>1, <1>2, PTL DEF DeviceSpec, Spec

-----------------------------------------------------------------------------
(* A record is as an earlier firmware left it, erased, or names a network, *)
(* and it holds one session's answers.                                     *)
Whole(r) ==
    /\ OneSession(r)
    /\ r.version => r.ssid # 0 \/ r \in OldRecords
    /\ ~r.version => r \in {Erased} \cup OldRecords

(* Nothing in a record was entered by a user of this firmware.             *)
Unconfigured(r) ==
    \A f \in {"ssid", "pass", "platform", "duid"} : r[f] \in {0, Left}

(* Such are the records with which a device may be delivered.              *)
LEMMA DeliveredRecords ==
    ASSUME NEW r \in {Erased} \cup OldRecords
    PROVE  r \in DeviceConfig /\ Whole(r) /\ Unconfigured(r)
<1>1. CASE r = Erased
  BY <1>1, ConstantsAssumption DEF Erased, DeviceConfig, Values, Whole, OneSession, Unconfigured
<1>2. CASE r \in OldRecords
  <2>1. /\ r \in [version : BOOLEAN, ssid : {0, Left}, pass : {0, Left},
                  platform : {0, Left}, duid : {0, Left}]
        /\ Left \in Values /\ 0 \in Values
    BY <1>2, ConstantsAssumption DEF Values, Left
  <2>2. r \in DeviceConfig
    BY <2>1 DEF DeviceConfig
  <2>3. Unconfigured(r)
    BY <2>1 DEF Unconfigured
  <2> QED
    BY <1>2, <2>2, <2>3 DEF Whole, OneSession, Unconfigured
<1> QED
  BY <1>1, <1>2

(* A session that ends in a reset is not begun in the last boot (bound).   *)
BootsLeft ==
    had_existing_config /\ configurator \notin {"start", "enter", "deleted"} => boots < MaxBoots

Typed == TypeOK /\ BootsLeft

(* The type invariant with the bound on sessions is inductive.             *)
LEMMA TypedInductive == Init /\ [][Next]_vars => []Typed
<1> USE ConstantsAssumption
<1>1. Init => Typed
  <2> SUFFICES ASSUME Init PROVE Typed
    OBVIOUS
  <2>1. its \in DeviceConfig /\ app_its_data \in DeviceConfig
    BY DeliveredRecords DEF Init, Loaded
  <2>2. boots \in 1 .. MaxBoots /\ config \in [platform : Values, ownDuid : BOOLEAN]
    BY DEF Init, Values
  <2>3. connect_param \in [ssid : Values, pass : Values] /\ used \in [platform : Values, duid : Values]
    BY DEF Init, Values, NoCredentials, NoIdentity
  <2>4. had_existing_config \in BOOLEAN /\ s_configurator_in_progress \in BOOLEAN
    BY <2>1 DEF Init, DeviceConfig
  <2>5. attempt \in 1 .. 2
    BY DEF Init
  <2> QED
    BY <2>1, <2>2, <2>3, <2>4, <2>5, Zenon DEF Init, Typed, TypeOK, BootsLeft
<1>2. Typed /\ [Next]_vars => Typed'
  <2> SUFFICES ASSUME Typed, [Next]_vars PROVE Typed'
    OBVIOUS
  <2> USE DEF Typed
  <2>e. Entered \in Values /\ Built \in Values /\ 0 \in Values /\ 1 \in Values
    BY DEF TypeOK, Entered, Built, Values
  <2>z. Erased \in DeviceConfig
    BY <2>e DEF Erased, DeviceConfig
  <2>s. ASSUME NEW r \in DeviceConfig, NEW f \in {"ssid", "pass", "platform", "duid"}
        PROVE  SetValue(r, f) \subseteq DeviceConfig
    BY <2>e DEF SetValue, DeviceConfig
  <2>v. [app_its_data EXCEPT !.version = TRUE] \in DeviceConfig
    BY DEF TypeOK, DeviceConfig
  <2>g. Get("ssid", Built) \in Values /\ Get("pass", Built) \in Values /\ GetPlatform \in Values
    BY <2>e DEF TypeOK, Get, GetPlatform, DeviceConfig
  <2>b. ASSUME Boot, boots < MaxBoots PROVE Typed'
    <3>1. app_its_data' \in DeviceConfig
      BY <2>b, <2>z, Zenon DEF TypeOK, Boot, Loaded
    <3>2. app_its_data'.version \in BOOLEAN
      BY <3>1 DEF DeviceConfig
    <3>3. boots' \in 1 .. MaxBoots
      BY <2>b DEF TypeOK, Boot
    <3>4. /\ config' \in [platform : Values, ownDuid : BOOLEAN]
          /\ connect_param' \in [ssid : Values, pass : Values]
          /\ used' \in [platform : Values, duid : Values]
      BY <2>b, <2>e DEF Boot, NoCredentials, NoIdentity
    <3>5. attempt' \in 1 .. 2
      BY <2>b DEF Boot
    <3>10. s_configurator_in_progress' \in BOOLEAN
      BY <2>b, Zenon DEF Boot
    <3>6. had_existing_config' \in BOOLEAN
      BY <2>b, <3>2, Zenon DEF Boot
    <3>7. its' \in DeviceConfig /\ configurator' = "start" /\ app' = "start"
      BY <2>b, Zenon DEF TypeOK, Boot
    <3>8. BootsLeft'
      BY <3>7 DEF BootsLeft
    <3>9. TypeOK'
      BY <3>1, <3>3, <3>4, <3>5, <3>6, <3>7, <3>10, Zenon DEF TypeOK
    <3> QED
      BY <3>8, <3>9
  <2>1. CASE User
    <3> USE DEF TypeOK, BootsLeft, CfgStep, recordVars, appVars
    <3>1. CASE PressEnter
      BY <3>1 DEF PressEnter
    <3>2. CASE ConfirmClear
      BY <3>2, <2>z DEF ConfirmClear
    <3>3. CASE EnterSsid
      <4>1. app_its_data' \in DeviceConfig
        BY <3>3, <2>e DEF EnterSsid, DeviceConfig
      <4> QED
        BY <3>3, <4>1, Zenon DEF EnterSsid
    <3>4. CASE EnterPassword
      <4>1. app_its_data' \in DeviceConfig
        BY <3>4, <2>e, <2>s DEF EnterPassword, DeviceConfig
      <4> QED
        BY <3>4, <4>1, Zenon DEF EnterPassword
    <3>5. CASE EnterJson
      <4>1. app_its_data' \in DeviceConfig
        BY <3>5, <2>s DEF EnterJson
      <4> QED
        BY <3>5, <4>1, Zenon DEF EnterJson
    <3> QED
      BY <2>1, <3>1, <3>2, <3>3, <3>4, <3>5 DEF User
  <2>2. CASE Configurator
    <3> USE DEF TypeOK, BootsLeft, CfgStep, recordVars, appVars
    <3>1. CASE IoInit
      BY <3>1, Zenon DEF IoInit
    <3>2. CASE SaveConfig
      BY <3>2, <2>v, Zenon DEF SaveConfig
    <3>3. CASE SaveFails
      BY <3>3, <2>v, Zenon DEF SaveFails
    <3>4. CASE ResetBoard
      BY <3>4, <2>b DEF ResetBoard
    <3>5. CASE Finish
      BY <3>5 DEF Finish
    <3> QED
      BY <2>2, <3>1, <3>2, <3>3, <3>4, <3>5 DEF Configurator
  <2>3. CASE AppTask
    <3> USE DEF TypeOK, BootsLeft, AppStep, recordVars, cfgVars
    <3>1. CASE InitConfig
      <4>1. config' \in [platform : Values, ownDuid : BOOLEAN]
        BY <3>1, <2>g DEF InitConfig, DeviceConfig
      <4> QED
        BY <3>1, <4>1, Zenon DEF InitConfig
    <3>2. CASE InitRadio
      <4>1. app' \in {"wifi", "stopped"}
        BY <3>2 DEF InitRadio
      <4>2. UNCHANGED <<boots, recordVars, cfgVars, attempt, config, connect_param, used>>
        BY <3>2 DEF InitRadio
      <4> QED
        BY <4>1, <4>2, Zenon
    <3>3. CASE ReadCredentials
      <4>1. connect_param' \in [ssid : Values, pass : Values]
        BY <3>3, <2>g DEF ReadCredentials
      <4> QED
        BY <3>3, <4>1, Zenon DEF ReadCredentials
    <3>4. CASE Joined
      BY <3>4, Zenon DEF Joined
    <3>5. CASE RetriesExhausted
      <4>1. attempt' \in 1 .. 2 /\ app' \in {"wifi", "stopped"}
        BY <3>5 DEF RetriesExhausted
      <4> QED
        BY <3>5, <4>1, Zenon DEF RetriesExhausted
    <3>6. CASE SdkInit
      <4>1. used' \in [platform : Values, duid : Values]
        BY <3>6, <2>e DEF SdkInit, DeviceConfig
      <4>2. app' \in {"running", "stopped"}
        BY <3>6 DEF SdkInit
      <4>3. UNCHANGED <<boots, recordVars, cfgVars, attempt, config, connect_param>>
        BY <3>6 DEF SdkInit
      <4> QED
        BY <4>1, <4>2, <4>3, Zenon
    <3> QED
      BY <2>3, <3>1, <3>2, <3>3, <3>4, <3>5, <3>6 DEF AppTask
  <2>4. CASE PowerCycle
    BY <2>4, <2>b DEF PowerCycle
  <2>5. CASE UNCHANGED vars
    BY <2>5, Zenon DEF TypeOK, BootsLeft, DeviceConfig, vars, recordVars, cfgVars, appVars, Values
  <2> QED
    BY <2>1, <2>2, <2>3, <2>4, <2>5 DEF Next
<1> QED
  BY <1>1, <1>2, PTL

(* Every variable stays within its type, however many boots there are and  *)
(* whichever TF-M calls fail.                                              *)
THEOREM TypeCorrect == (Spec => []TypeOK) /\ (DeviceSpec => []TypeOK)
<1>1. Typed => TypeOK
  BY DEF Typed
<1> QED
  BY <1>1, TypedInductive, DeviceConfigures, PTL DEF Spec

-----------------------------------------------------------------------------
(* How far the configurator has come tells what is in the RAM record.      *)
SessionInv ==
    /\ configurator \in {"start", "enter"} => had_existing_config = app_its_data.version
    /\ configurator = "ssid" => Unconfigured(app_its_data)
    /\ configurator \in {"pass", "json", "save", "saved"} =>
          app_its_data.ssid = Entered /\ app_its_data.version = TRUE

Sessions == Whole(its) /\ Whole(app_its_data) /\ SessionInv

(* Writing a value of this session into a record of this session.          *)
LEMMA SetKeepsWhole ==
    ASSUME TypeOK,
           NEW r \in DeviceConfig, Whole(r), r.ssid = Entered, r.version = TRUE,
           NEW f \in {"pass", "platform", "duid"},
           NEW q \in SetValue(r, f)
    PROVE  q \in DeviceConfig /\ Whole(q) /\ q.ssid = Entered /\ q.version = TRUE
<1> USE ConstantsAssumption
<1>1. Entered \in Values /\ Entered # 0
  BY DEF TypeOK, Entered, Values
<1>2. CASE q = r
  BY <1>2
<1>3. CASE q = [r EXCEPT ![f] = Entered, !.version = TRUE]
  <2>1. q \in DeviceConfig /\ q.ssid = Entered /\ q.version = TRUE
    BY <1>1, <1>3 DEF DeviceConfig
  <2>2. \A g \in {"ssid", "pass", "platform", "duid"} : q[g] \in {r[g], Entered}
    BY <1>3 DEF DeviceConfig
  <2>3. OneSession(q)
    BY <2>1, <2>2 DEF OneSession, Whole
  <2> QED
    BY <1>1, <2>1, <2>3 DEF Whole
<1> QED
  BY <1>2, <1>3 DEF SetValue

(* What the configurator has in RAM, and so what it stores, belongs to one *)
(* session: it always starts from an erased record.                        *)
LEMMA SessionsInductive == Init /\ [][Next]_vars => []Sessions
<1> USE ConstantsAssumption
<1>0. Whole(Erased) /\ Unconfigured(Erased)
  BY DeliveredRecords
<1>1. Init => Sessions
  <2> SUFFICES ASSUME Init PROVE Sessions
    OBVIOUS
  <2>1. Whole(its) /\ Whole(app_its_data) /\ configurator = "start"
    BY DeliveredRecords DEF Init, Loaded
  <2>3. had_existing_config = app_its_data.version
    BY Zenon DEF Init
  <2> QED
    BY <2>1, <2>3 DEF Sessions, SessionInv
<1>2. Typed /\ Sessions /\ [Next]_vars => Sessions'
  <2> SUFFICES ASSUME TypeOK, Sessions, [Next]_vars PROVE Sessions'
    BY DEF Typed
  <2>e. Entered \in Values /\ Entered # 0
    BY DEF TypeOK, Entered, Values
  <2>r. app_its_data \in DeviceConfig /\ its \in DeviceConfig
    BY DEF TypeOK
  <2>b. ASSUME Boot PROVE Sessions'
    <3>1. Whole(its') /\ Whole(app_its_data')
      BY <2>b, <1>0 DEF Boot, Loaded, Sessions
    <3>2. SessionInv'
      BY <2>b DEF Boot, SessionInv
    <3> QED
      BY <3>1, <3>2 DEF Sessions, Whole, OneSession
  <2>u. ASSUME UNCHANGED <<boots, recordVars, cfgVars>> PROVE Sessions'
    BY <2>u DEF Sessions, SessionInv, Whole, OneSession, Entered, recordVars, cfgVars
  <2>1. CASE User
    <3> USE DEF CfgStep
    <3>1. CASE PressEnter
      <4>1. UNCHANGED recordVars /\ configurator' \in {"confirm", "ssid"}
        BY <3>1 DEF PressEnter
      <4>2. configurator' = "ssid" => ~app_its_data.version
        BY <3>1 DEF PressEnter, Sessions, SessionInv
      <4>3. configurator' = "ssid" => Unconfigured(app_its_data)
        BY <4>2, DeliveredRecords DEF Sessions, Whole
      <4> QED
        BY <4>1, <4>3 DEF Sessions, SessionInv, Unconfigured, Whole, OneSession, recordVars
    <3>2. CASE ConfirmClear
      <4>1. app_its_data' = Erased /\ its' \in {Erased, its} /\ configurator' = "ssid"
        BY <3>2 DEF ConfirmClear
      <4>2. Whole(app_its_data') /\ Whole(its')
        BY <4>1, <1>0 DEF Sessions
      <4> QED
        BY <1>0, <4>1, <4>2 DEF Sessions, SessionInv, Whole, OneSession, Unconfigured
    <3>3. CASE EnterSsid
      <4>1. Unconfigured(app_its_data)
        BY <3>3 DEF EnterSsid, Sessions, SessionInv
      <4>2. app_its_data' = [app_its_data EXCEPT !.ssid = Entered, !.version = TRUE]
        BY <3>3 DEF EnterSsid
      <4>3. /\ app_its_data'.version = TRUE /\ app_its_data'.ssid = Entered
            /\ \A f \in {"pass", "platform", "duid"} : app_its_data'[f] \in {0, Left}
        BY <2>r, <4>1, <4>2 DEF DeviceConfig, Unconfigured
      <4>4. Whole(app_its_data')
        BY <2>e, <4>3 DEF Whole, OneSession
      <4>5. its' = its /\ configurator' = "pass" /\ boots' = boots
        BY <3>3 DEF EnterSsid
      <4> QED
        BY <4>3, <4>4, <4>5 DEF Sessions, SessionInv, Whole, OneSession, Entered
    <3>4. CASE EnterPassword
      <4>1. app_its_data.ssid = Entered /\ app_its_data.version = TRUE
        BY <3>4 DEF EnterPassword, Sessions, SessionInv
      <4>2. Whole(app_its_data') /\ app_its_data'.ssid = Entered /\ app_its_data'.version = TRUE
        <5>1. CASE app_its_data' \in SetValue(app_its_data, "pass")
          BY <2>r, <4>1, <5>1, SetKeepsWhole DEF Sessions
        <5>2. CASE app_its_data' = [app_its_data EXCEPT !.pass = 0]
          BY <2>r, <2>e, <4>1, <5>2 DEF Sessions, Whole, OneSession, DeviceConfig
        <5> QED
          BY <3>4, <5>1, <5>2 DEF EnterPassword
      <4>3. its' = its /\ configurator' = "json" /\ boots' = boots
        BY <3>4 DEF EnterPassword
      <4> QED
        BY <4>2, <4>3 DEF Sessions, SessionInv, Whole, OneSession, Entered
    <3>5. CASE EnterJson
      <4>1. app_its_data.ssid = Entered /\ app_its_data.version = TRUE
        BY <3>5 DEF EnterJson, Sessions, SessionInv
      <4>2. PICK r \in SetValue(app_its_data, "platform") : app_its_data' \in SetValue(r, "duid")
        BY <3>5 DEF EnterJson
      <4>3. r \in DeviceConfig /\ Whole(r) /\ r.ssid = Entered /\ r.version = TRUE
        BY <2>r, <4>1, SetKeepsWhole DEF Sessions
      <4>4. Whole(app_its_data') /\ app_its_data'.ssid = Entered /\ app_its_data'.version = TRUE
        BY <4>2, <4>3, SetKeepsWhole
      <4>5. its' = its /\ configurator' = "save" /\ boots' = boots
        BY <3>5 DEF EnterJson
      <4> QED
        BY <4>4, <4>5 DEF Sessions, SessionInv, Whole, OneSession, Entered
    <3> QED
      BY <2>1, <3>1, <3>2, <3>3, <3>4, <3>5 DEF User
  <2>2. CASE Configurator
    <3> USE DEF CfgStep
    <3>v. ASSUME app_its_data.version = TRUE
          PROVE  [app_its_data EXCEPT !.version = TRUE] = app_its_data
      BY <2>r, <3>v DEF DeviceConfig
    <3>1. CASE IoInit
      BY <3>1 DEF IoInit, Sessions, SessionInv, Whole, OneSession, recordVars
    <3>2. CASE SaveConfig
      <4>1. app_its_data.version = TRUE /\ app_its_data.ssid = Entered
        BY <3>2 DEF SaveConfig, Sessions, SessionInv
      <4>2. app_its_data' = app_its_data /\ its' = app_its_data
        BY <3>2, <3>v, <4>1 DEF SaveConfig
      <4>3. configurator' = "saved" /\ boots' = boots
        BY <3>2 DEF SaveConfig
      <4> QED
        BY <4>1, <4>2, <4>3 DEF Sessions, SessionInv, Whole, OneSession, Entered
    <3>3. CASE SaveFails
      <4>1. app_its_data.version = TRUE
        BY <3>3 DEF SaveFails, Sessions, SessionInv
      <4>2. app_its_data' = app_its_data /\ its' = its /\ configurator' = "deleted"
        BY <3>3, <3>v, <4>1 DEF SaveFails
      <4> QED
        BY <4>2 DEF Sessions, SessionInv, Whole, OneSession
    <3>4. CASE ResetBoard
      BY <3>4, <2>b DEF ResetBoard
    <3>5. CASE Finish
      <4>1. UNCHANGED recordVars /\ configurator' = "deleted"
        BY <3>5 DEF Finish
      <4> QED
        BY <4>1 DEF Sessions, SessionInv, Whole, OneSession, recordVars
    <3> QED
      BY <2>2, <3>1, <3>2, <3>3, <3>4, <3>5 DEF Configurator
  <2>3. CASE AppTask
    BY <2>3, <2>u DEF AppTask, InitConfig, InitRadio, ReadCredentials, Joined,
                      RetriesExhausted, SdkInit, AppStep
  <2>4. CASE PowerCycle
    BY <2>4, <2>b DEF PowerCycle
  <2>5. CASE UNCHANGED vars
    BY <2>5, <2>u DEF vars
  <2> QED
    BY <2>1, <2>2, <2>3, <2>4, <2>5 DEF Next
<1> QED
  BY <1>1, <1>2, TypedInductive, PTL

(* However often the device is configured, reset or cut from its power and *)
(* whichever TF-M calls fail, the stored record never mixes two sessions:  *)
(* app_its_config_clear and app_its_save_config_data.                      *)
THEOREM StoredRecordIsOneSession ==
    (Spec => []StoredIsOneSession) /\ (DeviceSpec => []StoredIsOneSession)
<1>1. Sessions => StoredIsOneSession
  BY DEF Sessions, Whole, StoredIsOneSession
<1> QED
  BY <1>1, SessionsInductive, DeviceConfigures, PTL DEF Spec

-----------------------------------------------------------------------------
(* Until the configurator has left the last prompt of a session, nothing   *)
(* outside RAM holds that session's network, and wifi_connect waits.       *)
CredentialsInv ==
    /\ CredentialsOfOneSource
    /\ configurator \in {"confirm", "ssid", "pass", "json"} => s_configurator_in_progress = TRUE
    /\ configurator \in {"start", "enter", "confirm", "ssid", "pass", "json"}
          => connect_param.ssid # Entered
    /\ configurator \in {"start", "enter", "confirm", "ssid"} => app_its_data.ssid # Entered
    /\ its.ssid <= Entered

LEMMA CredentialsInductive ==
    ASSUME ~BuiltIn
    PROVE  Init /\ [][Next]_vars => []CredentialsInv
<1> USE ConstantsAssumption
<1>1. Init => CredentialsInv
  <2> SUFFICES ASSUME Init PROVE CredentialsInv
    OBVIOUS
  <2>1. its.ssid \in {0, Left} /\ app_its_data.ssid \in {0, Left}
    BY DeliveredRecords DEF Init, Loaded, Unconfigured
  <2> QED
    BY <2>1 DEF Init, CredentialsInv, CredentialsOfOneSource, NoCredentials, Entered, Left
<1>2. Typed /\ Sessions /\ CredentialsInv /\ [Next]_vars => CredentialsInv'
  <2> SUFFICES ASSUME TypeOK, Sessions, CredentialsInv, [Next]_vars PROVE CredentialsInv'
    BY DEF Typed
  <2>n. /\ boots \in Nat /\ Entered = boots + 2 /\ Entered > 2
        /\ its.ssid \in Nat /\ app_its_data.ssid \in Nat /\ app_its_data.pass \in Nat
        /\ connect_param.ssid \in Nat /\ connect_param.pass \in Nat
    BY DEF TypeOK, Entered, Values, DeviceConfig
  <2>r. app_its_data \in DeviceConfig
    BY DEF TypeOK
  <2>b. ASSUME Boot PROVE CredentialsInv'
    <3>1. app_its_data'.ssid <= Entered /\ its' = its /\ connect_param'.ssid = 0
      BY <2>b, <2>n DEF Boot, Loaded, Erased, NoCredentials, CredentialsInv
    <3>2. boots' = boots + 1 /\ configurator' = "start" /\ Entered' = Entered + 1
      BY <2>b, <2>n DEF Boot, Entered
    <3>3. app_its_data'.ssid \in Nat
      BY <2>b, <2>n DEF Boot, Loaded, Erased
    <3> QED
      BY <2>n, <3>1, <3>2, <3>3 DEF CredentialsInv, CredentialsOfOneSource
  <2>k. ASSUME UNCHANGED <<boots, its, connect_param>>,
               app_its_data'.ssid = app_its_data.ssid, app_its_data'.pass = app_its_data.pass
        PROVE  CredentialsOfOneSource' /\ its'.ssid <= Entered' /\ Entered' = Entered
    BY <2>k DEF CredentialsInv, CredentialsOfOneSource, Entered
  <2>1. CASE User
    <3> USE DEF CfgStep, appVars
    <3>1. CASE PressEnter
      BY <3>1, <2>k, Zenon DEF PressEnter, CredentialsInv, recordVars
    <3>2. CASE ConfirmClear
      <4>1. /\ app_its_data'.ssid = 0 /\ its'.ssid <= Entered /\ Entered' = Entered
            /\ connect_param' = connect_param /\ configurator' = "ssid"
            /\ connect_param.ssid # Entered
        BY <2>n, <3>2 DEF ConfirmClear, Erased, CredentialsInv, Entered
      <4>2. s_configurator_in_progress' = TRUE
        BY <3>2, Zenon DEF ConfirmClear, CredentialsInv
      <4> QED
        BY <2>n, <4>1, <4>2 DEF CredentialsInv, CredentialsOfOneSource
    <3>3. CASE EnterSsid
      <4>1. /\ app_its_data'.ssid = Entered /\ its'.ssid <= Entered /\ Entered' = Entered
            /\ connect_param' = connect_param /\ configurator' = "pass"
            /\ connect_param.ssid # Entered
        BY <2>n, <2>r, <3>3 DEF EnterSsid, DeviceConfig, CredentialsInv, Entered
      <4>2. s_configurator_in_progress' = TRUE
        BY <3>3, Zenon DEF EnterSsid, CredentialsInv
      <4> QED
        BY <2>n, <4>1, <4>2 DEF CredentialsInv, CredentialsOfOneSource
    <3>4. CASE EnterPassword
      <4>1. app_its_data.ssid = Entered
        BY <3>4 DEF EnterPassword, Sessions, SessionInv
      <4>2. /\ app_its_data'.ssid = Entered /\ its'.ssid <= Entered /\ Entered' = Entered
            /\ connect_param' = connect_param /\ configurator' = "json"
            /\ connect_param.ssid # Entered
        BY <2>n, <2>r, <3>4, <4>1 DEF EnterPassword, SetValue, DeviceConfig, CredentialsInv, Entered
      <4>3. s_configurator_in_progress' = TRUE
        BY <3>4, Zenon DEF EnterPassword, CredentialsInv
      <4> QED
        BY <2>n, <4>2, <4>3 DEF CredentialsInv, CredentialsOfOneSource
    <3>5. CASE EnterJson
      <4>1. app_its_data'.ssid = app_its_data.ssid /\ app_its_data'.pass = app_its_data.pass
        BY <2>r, <3>5 DEF EnterJson, SetValue, DeviceConfig
      <4> QED
        BY <2>k, <3>5, <4>1 DEF EnterJson, CredentialsInv
    <3> QED
      BY <2>1, <3>1, <3>2, <3>3, <3>4, <3>5 DEF User
  <2>2. CASE Configurator
    <3> USE DEF CfgStep, appVars
    <3>v. /\ [app_its_data EXCEPT !.version = TRUE].ssid = app_its_data.ssid
          /\ [app_its_data EXCEPT !.version = TRUE].pass = app_its_data.pass
      BY <2>r DEF DeviceConfig
    <3>1. CASE IoInit
      <4>1. configurator' \in {"enter", "deleted"} /\ configurator = "start"
        BY <3>1 DEF IoInit
      <4>2. UNCHANGED <<boots, recordVars, connect_param>>
        BY <3>1 DEF IoInit
      <4> QED
        BY <2>k, <4>1, <4>2 DEF CredentialsInv, recordVars
    <3>2. CASE SaveConfig
      <4>1. app_its_data.ssid = Entered /\ its' = app_its_data' /\ configurator' = "saved"
        BY <3>2 DEF SaveConfig, Sessions, SessionInv
      <4>2. app_its_data'.ssid = app_its_data.ssid /\ app_its_data'.pass = app_its_data.pass
        BY <3>2, <3>v DEF SaveConfig
      <4>3. connect_param' = connect_param /\ Entered' = Entered
        BY <3>2 DEF SaveConfig, Entered
      <4> QED
        BY <2>n, <4>1, <4>2, <4>3 DEF CredentialsInv, CredentialsOfOneSource
    <3>3. CASE SaveFails
      <4>1. app_its_data'.ssid = app_its_data.ssid /\ app_its_data'.pass = app_its_data.pass
        BY <3>3, <3>v DEF SaveFails
      <4> QED
        BY <2>k, <3>3, <4>1 DEF SaveFails, CredentialsInv
    <3>4. CASE ResetBoard
      BY <3>4, <2>b DEF ResetBoard
    <3>5. CASE Finish
      BY <3>5, <2>k DEF Finish, CredentialsInv, recordVars
    <3> QED
      BY <2>2, <3>1, <3>2, <3>3, <3>4, <3>5 DEF Configurator
  <2>3. CASE AppTask
    <3> USE DEF AppStep
    <3>1. CASE ReadCredentials
      <4>1. connect_param' = [ssid |-> Get("ssid", 0), pass |-> Get("pass", 0)]
        BY <3>1 DEF ReadCredentials, Built
      <4>2. /\ connect_param'.ssid \in {0, app_its_data.ssid}
            /\ app_its_data.version = TRUE => connect_param'.pass = app_its_data.pass
            /\ app_its_data.version = FALSE => connect_param'.ssid = 0
        BY <4>1 DEF Get
      <4>3. app_its_data.version \in BOOLEAN
        BY <2>r DEF DeviceConfig
      <4>4. UNCHANGED <<boots, recordVars, cfgVars>> /\ s_configurator_in_progress # TRUE
        BY <3>1 DEF ReadCredentials
      <4>5. CredentialsOfOneSource'
        BY <2>n, <4>2, <4>3, <4>4 DEF CredentialsOfOneSource, recordVars
      <4>6. configurator \notin {"confirm", "ssid", "pass", "json"}
        BY <4>4, Zenon DEF CredentialsInv
      <4>7. configurator' = configurator /\ its' = its /\ app_its_data' = app_its_data
            /\ Entered' = Entered
        BY <4>4 DEF recordVars, cfgVars, Entered
      <4>8. configurator' \in {"start", "enter"} => connect_param'.ssid # Entered'
        BY <2>n, <4>2, <4>7 DEF CredentialsInv
      <4> QED
        BY <4>5, <4>6, <4>7, <4>8 DEF CredentialsInv
    <3>2. ASSUME UNCHANGED <<boots, recordVars, cfgVars, connect_param>> PROVE CredentialsInv'
      BY <3>2 DEF CredentialsInv, CredentialsOfOneSource, recordVars, cfgVars, Entered
    <3>3. CASE InitConfig \/ InitRadio \/ Joined \/ RetriesExhausted \/ SdkInit
      BY <3>2, <3>3 DEF InitConfig, InitRadio, Joined, RetriesExhausted, SdkInit
    <3> QED
      BY <2>3, <3>1, <3>3 DEF AppTask
  <2>4. CASE PowerCycle
    BY <2>4, <2>b DEF PowerCycle
  <2>5. CASE UNCHANGED vars
    BY <2>5 DEF CredentialsInv, CredentialsOfOneSource, vars, recordVars, cfgVars, appVars, Entered
  <2> QED
    BY <2>1, <2>2, <2>3, <2>4, <2>5 DEF Next
<1> QED
  BY <1>1, <1>2, TypedInductive, SessionsInductive, PTL

(* In an image without built-in credentials wifi_connect never joins the   *)
(* configured network with another network's password, however the         *)
(* configurator, its failures and power cycles interleave with it.         *)
THEOREM CredentialsAreConsistent ==
    ASSUME ~BuiltIn
    PROVE  (Spec => []CredentialsOfOneSource) /\ (DeviceSpec => []CredentialsOfOneSource)
<1>1. CredentialsInv => CredentialsOfOneSource
  BY DEF CredentialsInv
<1> QED
  BY <1>1, CredentialsInductive, DeviceConfigures, PTL DEF Spec

-----------------------------------------------------------------------------
(* The configurator asks only where nothing is stored.                     *)
ClearedInv ==
    /\ its.version \in BOOLEAN
    /\ configurator \in {"start", "enter"} => had_existing_config = its.version
    /\ ClearedIsGone

(* Where trusted storage reads and removes a record when it is told to, no *)
(* configuration is left stored while app_configurator_task asks for the   *)
(* next one, at whatever prompt the power goes.                            *)
THEOREM ClearedRecordIsGone ==
    ASSUME "its_get" \notin Failing, "its_remove" \notin Failing
    PROVE  (Spec => []ClearedIsGone) /\ (DeviceSpec => []ClearedIsGone)
<1>1. Init => ClearedInv
  <2> SUFFICES ASSUME Init PROVE ClearedInv
    OBVIOUS
  <2>1. its.version \in BOOLEAN /\ configurator = "start"
    BY DeliveredRecords DEF Init, DeviceConfig
  <2>2. had_existing_config = its.version
    BY DEF Init, Loaded
  <2> QED
    BY <2>1, <2>2 DEF ClearedInv, ClearedIsGone
<1>2. Typed /\ ClearedInv /\ [Next]_vars => ClearedInv'
  <2> SUFFICES ASSUME TypeOK, ClearedInv, [Next]_vars PROVE ClearedInv'
    BY DEF Typed
  <2>b. ASSUME Boot PROVE ClearedInv'
    <3>1. its' = its /\ app_its_data' = its /\ configurator' = "start"
      BY <2>b DEF Boot, Loaded
    <3>2. had_existing_config' = its'.version
      BY <2>b, <3>1, Zenon DEF Boot
    <3> QED
      BY <3>1, <3>2 DEF ClearedInv, ClearedIsGone
  <2>1. CASE User
    <3> USE DEF CfgStep
    <3>1. CASE PressEnter
      <4>1. its' = its /\ configurator = "enter" /\ configurator' = IF had_existing_config THEN "confirm" ELSE "ssid"
        BY <3>1 DEF PressEnter, recordVars
      <4>2. configurator' = "ssid" => its.version = FALSE
        BY <4>1 DEF ClearedInv
      <4> QED
        BY <4>1, <4>2 DEF ClearedInv, ClearedIsGone
    <3>2. CASE ConfirmClear
      <4>1. its' = Erased /\ configurator' = "ssid"
        BY <3>2 DEF ConfirmClear
      <4> QED
        BY <4>1 DEF ClearedInv, ClearedIsGone, Erased
    <3>3. CASE EnterSsid \/ EnterPassword \/ EnterJson
      <4>1. /\ its' = its /\ configurator \in {"ssid", "pass", "json"}
            /\ configurator' \in {"pass", "json", "save"}
        BY <3>3 DEF EnterSsid, EnterPassword, EnterJson
      <4> QED
        BY <4>1 DEF ClearedInv, ClearedIsGone
    <3> QED
      BY <2>1, <3>1, <3>2, <3>3 DEF User
  <2>2. CASE Configurator
    <3> USE DEF CfgStep
    <3>1. CASE IoInit
      <4>1. UNCHANGED <<its, had_existing_config>> /\ configurator = "start"
            /\ configurator' \in {"enter", "deleted"}
        BY <3>1 DEF IoInit, recordVars
      <4> QED
        BY <4>1 DEF ClearedInv, ClearedIsGone
    <3>2. CASE SaveConfig
      <4>1. its' = [app_its_data EXCEPT !.version = TRUE] /\ configurator' = "saved"
        BY <3>2 DEF SaveConfig
      <4>2. its'.version = TRUE
        BY <4>1 DEF TypeOK, DeviceConfig
      <4> QED
        BY <4>1, <4>2 DEF ClearedInv, ClearedIsGone
    <3>3. CASE SaveFails \/ Finish
      <4>1. its' = its /\ configurator' = "deleted"
        BY <3>3 DEF SaveFails, Finish, recordVars
      <4> QED
        BY <4>1 DEF ClearedInv, ClearedIsGone
    <3>4. CASE ResetBoard
      BY <3>4, <2>b DEF ResetBoard
    <3> QED
      BY <2>2, <3>1, <3>2, <3>3, <3>4 DEF Configurator
  <2>3. CASE AppTask \/ UNCHANGED vars
    <3>1. UNCHANGED <<its, configurator, had_existing_config>>
      BY <2>3 DEF AppTask, InitConfig, InitRadio, ReadCredentials, Joined, RetriesExhausted,
                  SdkInit, AppStep, recordVars, cfgVars, vars
    <3> QED
      BY <3>1 DEF ClearedInv, ClearedIsGone
  <2>4. CASE PowerCycle
    BY <2>4, <2>b DEF PowerCycle
  <2> QED
    BY <2>1, <2>2, <2>3, <2>4 DEF Next
<1>3. ClearedInv => ClearedIsGone
  BY DEF ClearedInv
<1> QED
  BY <1>1, <1>2, <1>3, TypedInductive, DeviceConfigures, PTL DEF Spec

-----------------------------------------------------------------------------
(* While the user leaves a configured device alone, its RAM holds what is  *)
(* stored, and app_task has taken from it all it took so far.              *)
NetworkOf(r) == IF r.ssid = 0 THEN Built ELSE r.ssid
LeftAlone == had_existing_config /\ configurator \in {"start", "enter"}
UsedInv ==
    LeftAlone =>
        /\ app_its_data = its /\ its.version = TRUE
        /\ app # "start" => config = [platform |-> its.platform, ownDuid |-> its.duid # 0]
        /\ app \in {"joining", "sdk", "running"} => connect_param.ssid = NetworkOf(its)
        /\ app = "running" => used = [platform |-> its.platform,
                                      duid |-> IF its.duid = 0 THEN 1 ELSE its.duid]

(* A device that starts with a stored record and whose user leaves it      *)
(* alone joins the record's network and gives the SDK the record's         *)
(* identity (app_init_config, wifi_connect, app_task), whichever TF-M      *)
(* calls fail and whatever networks are built in.                          *)
THEOREM StoredIdentityIsUsed ==
    (Spec => []StoredRecordIsUsed) /\ (DeviceSpec => []StoredRecordIsUsed)
<1>1. Init => UsedInv
  <2> SUFFICES ASSUME Init, LeftAlone PROVE UsedInv
    BY DEF UsedInv
  <2>1. app_its_data.version
    BY DEF Init, LeftAlone
  <2>2. app_its_data = its
    BY <2>1 DEF Init, Loaded, Erased
  <2>3. its.version \in BOOLEAN
    BY DeliveredRecords DEF Init, DeviceConfig
  <2> QED
    BY <2>1, <2>2, <2>3 DEF Init, UsedInv
<1>2. Typed /\ UsedInv /\ [Next]_vars => UsedInv'
  <2> SUFFICES ASSUME TypeOK, UsedInv, [Next]_vars PROVE UsedInv'
    BY DEF Typed
  <2>b. ASSUME Boot PROVE UsedInv'
    <3>1. CASE app_its_data' = its
      <4>1. its' = its /\ app' = "start" /\ had_existing_config' = its.version
        BY <2>b, <3>1, Zenon DEF Boot
      <4>2. its.version \in BOOLEAN
        BY DEF TypeOK, DeviceConfig
      <4> QED
        BY <3>1, <4>1, <4>2 DEF UsedInv, LeftAlone
    <3>2. CASE app_its_data' = Erased
      <4>1. had_existing_config' = FALSE
        BY <2>b, <3>2 DEF Boot, Erased
      <4> QED
        BY <4>1 DEF UsedInv, LeftAlone
    <3> QED
      BY <2>b, <3>1, <3>2 DEF Boot, Loaded
  <2>1. CASE User \/ SaveConfig \/ SaveFails \/ Finish
    <3>1. configurator' \notin {"start", "enter"}
      BY <2>1 DEF User, PressEnter, ConfirmClear, EnterSsid, EnterPassword, EnterJson,
                  SaveConfig, SaveFails, Finish, CfgStep
    <3> QED
      BY <3>1 DEF UsedInv, LeftAlone
  <2>2. CASE IoInit \/ UNCHANGED vars
    <3>1. /\ UNCHANGED <<its, app_its_data, had_existing_config, app, config, connect_param, used>>
          /\ configurator' \in {"start", "enter"} => configurator \in {"start", "enter"}
      BY <2>2 DEF IoInit, CfgStep, recordVars, appVars, cfgVars, vars
    <3> QED
      BY <3>1 DEF UsedInv, LeftAlone
  <2>3. CASE AppTask
    <3>1. UNCHANGED <<its, app_its_data, had_existing_config, configurator>>
      BY <2>3 DEF AppTask, InitConfig, InitRadio, ReadCredentials, Joined, RetriesExhausted,
                  SdkInit, AppStep, recordVars, cfgVars
    <3>2. CASE ~LeftAlone
      BY <3>1, <3>2 DEF UsedInv, LeftAlone
    <3>3. CASE LeftAlone
      <4>1. /\ app_its_data = its /\ its.version = TRUE
            /\ its \in DeviceConfig
        BY <3>3 DEF UsedInv, TypeOK
      <4>2. CASE InitConfig
        <5>1. app' = "radio" /\ config' = [platform |-> its.platform, ownDuid |-> its.duid # 0]
          BY <4>1, <4>2 DEF InitConfig, AppStep, GetPlatform
        <5> QED
          BY <3>1, <4>1, <5>1 DEF UsedInv
      <4>3. CASE InitRadio
        <5>1. app = "radio" /\ app' \in {"wifi", "stopped"} /\ config' = config
          BY <4>3 DEF InitRadio, AppStep
        <5> QED
          BY <3>1, <3>3, <4>1, <5>1 DEF UsedInv
      <4>4. CASE ReadCredentials
        <5>1. app = "wifi" /\ app' = "joining" /\ config' = config /\ connect_param'.ssid = NetworkOf(its)
          BY <4>1, <4>4 DEF ReadCredentials, AppStep, Get, NetworkOf
        <5> QED
          BY <3>1, <3>3, <4>1, <5>1 DEF UsedInv
      <4>5. CASE Joined \/ RetriesExhausted
        <5>1. app = "joining" /\ app' \in {"sdk", "wifi", "stopped"}
              /\ config' = config /\ connect_param' = connect_param
          BY <4>5 DEF Joined, RetriesExhausted, AppStep
        <5> QED
          BY <3>1, <3>3, <4>1, <5>1 DEF UsedInv
      <4>6. CASE SdkInit
        <5>1. /\ app = "sdk" /\ app' \in {"running", "stopped"}
              /\ config' = config /\ connect_param' = connect_param
              /\ used' = [platform |-> config.platform,
                          duid     |-> IF config.ownDuid THEN app_its_data.duid ELSE 1]
          BY <4>6 DEF SdkInit, AppStep
        <5>2. config = [platform |-> its.platform, ownDuid |-> its.duid # 0]
              /\ connect_param.ssid = NetworkOf(its)
          BY <3>3, <5>1 DEF UsedInv
        <5>3. used' = [platform |-> its.platform, duid |-> IF its.duid = 0 THEN 1 ELSE its.duid]
          BY <4>1, <5>1, <5>2
        <5> QED
          BY <3>1, <4>1, <5>1, <5>2, <5>3 DEF UsedInv
      <4> QED
        BY <2>3, <4>2, <4>3, <4>4, <4>5, <4>6 DEF AppTask
    <3> QED
      BY <3>2, <3>3
  <2>4. CASE PowerCycle \/ ResetBoard
    BY <2>4, <2>b DEF PowerCycle, ResetBoard
  <2> QED
    BY <2>1, <2>2, <2>3, <2>4 DEF Next, Configurator
<1>3. UsedInv => StoredRecordIsUsed
  BY DEF UsedInv, LeftAlone, StoredRecordIsUsed, NetworkOf
<1> QED
  BY <1>1, <1>2, <1>3, TypedInductive, DeviceConfigures, PTL DEF Spec

-----------------------------------------------------------------------------
(* What a step of the device is for its identity.                          *)
IdentityStep == Identity!PowerUp \/ Identity!SetupHuk \/ Identity!SetupSdkCredentials

LEMMA DeviceStepsIdentity ==
    ASSUME DeviceNext PROVE IdentityStep \/ UNCHANGED identityVars
<1>1. CASE Main
  BY <1>1 DEF Main, IdentityStep
<1>2. CASE DeviceUser \/ DeviceConfigurator
  BY <1>2 DEF DeviceUser, DeviceConfigurator, Running
<1>3. CASE DeviceApp
  BY <1>3 DEF DeviceApp, TakeIdentity, Running, IdentityStep
<1>4. CASE Restart
  BY <1>4 DEF Restart, IdentityStep
<1> QED
  BY <1>1, <1>2, <1>3, <1>4 DEF DeviceNext

-----------------------------------------------------------------------------
(* What the SDK is given is what is in the slot.  A key is only kept where *)
(* nothing failed, and the slot is not written once setup is done.         *)
GivenInv ==
    /\ generated \in Nat
    /\ key_id \in BOOLEAN
    /\ huk = "store" => der_data # 0
    /\ huk = "print" => der_data = slot /\ slot # 0
    /\ huk = "done" /\ key_id = TRUE => crt_pem_buffer = slot /\ slot # 0
    /\ huk # "done" => x509_config = Identity!NotGiven
    /\ SdkCertificateIsStored

LEMMA GivenStep ==
    ASSUME GivenInv, IdentityStep \/ UNCHANGED identityVars PROVE GivenInv'
<1> USE DEF GivenInv, SdkCertificateIsStored, Identity!SdkCertificateIsStored,
            Identity!NotGiven
<1>1. CASE Identity!PowerUp
  BY <1>1 DEF Identity!PowerUp
<1>2. CASE Identity!DeriveKey
  BY <1>2 DEF Identity!DeriveKey, Identity!ErrorCleanup
<1>3. CASE Identity!LookUp
  BY <1>3 DEF Identity!LookUp
<1>4. CASE Identity!Generate
  <2>1. CASE huk' = "store"
    <3>1. der_data' = generated + 1 /\ generated' = generated + 1
      BY <1>4, <2>1 DEF Identity!Generate, Identity!ErrorCleanup
    <3>2. generated' \in Nat /\ der_data' # 0
      BY <3>1
    <3> QED
      BY <1>4, <2>1, <3>2, Zenon DEF Identity!Generate, Identity!ErrorCleanup
  <2>2. CASE huk' # "store"
    BY <1>4, <2>2 DEF Identity!Generate, Identity!ErrorCleanup
  <2> QED
    BY <2>1, <2>2
<1>5. CASE Identity!Store
  BY <1>5 DEF Identity!Store, Identity!ErrorCleanup
<1>6. CASE Identity!PrintPem
  BY <1>6 DEF Identity!PrintPem, Identity!ErrorCleanup
<1>7. CASE Identity!SetupSdkCredentials
  BY <1>7 DEF Identity!SetupSdkCredentials
<1>8. CASE UNCHANGED identityVars
  BY <1>8 DEF identityVars
<1> QED
  BY <1>1, <1>2, <1>3, <1>4, <1>5, <1>6, <1>7, <1>8 DEF IdentityStep, Identity!SetupHuk

LEMMA GivenInductive == DeviceInit /\ [][DeviceNext]_deviceVars => []GivenInv
<1>1. DeviceInit => GivenInv
  <2>1. DeviceInit => generated \in Nat
    BY DEF DeviceInit, Identity!Init
  <2>2. DeviceInit => huk = "derive" /\ key_id = FALSE /\ x509_config = Identity!NotGiven
    BY DEF DeviceInit, Identity!Init, Identity!NotGiven
  <2>3. x509_config = Identity!NotGiven => SdkCertificateIsStored
    BY DEF SdkCertificateIsStored, Identity!SdkCertificateIsStored, Identity!NotGiven
  <2> QED
    BY <2>1, <2>2, <2>3, Zenon DEF GivenInv
<1>2. GivenInv /\ [DeviceNext]_deviceVars => GivenInv'
  BY DeviceStepsIdentity, GivenStep DEF deviceVars
<1> QED
  BY <1>1, <1>2, PTL

(* Whatever fails (also the look-up of a stored certificate) and whenever  *)
(* the power goes, app_psa_mqtt_setup_sdk_credentials gives the SDK the    *)
(* certificate that is in the slot, with its key, or nothing.              *)
THEOREM SdkIsGivenTheStoredCertificate == DeviceSpec => []SdkCertificateIsStored
<1>1. GivenInv => SdkCertificateIsStored
  BY DEF GivenInv
<1> QED
  BY <1>1, GivenInductive, PTL DEF DeviceSpec

-----------------------------------------------------------------------------
(* A certificate that was printed is in the slot for good: another is only *)
(* generated for an empty slot.                                            *)
PrintedInv ==
    /\ huk \in {"generate", "store"} => slot = 0
    /\ huk = "store" => der_data # 0
    /\ huk = "print" => der_data = slot /\ slot # 0
    /\ firstPrinted \in {0, slot}
    /\ generated \in Nat
    /\ SameCertificate

LEMMA PrintedStep ==
    ASSUME "its_get" \notin Failing,
           PrintedInv, IdentityStep \/ UNCHANGED identityVars
    PROVE  PrintedInv'
<1> USE DEF PrintedInv, SameCertificate, Identity!SameCertificate
<1>1. CASE Identity!PowerUp
  BY <1>1 DEF Identity!PowerUp
<1>2. CASE Identity!DeriveKey
  BY <1>2 DEF Identity!DeriveKey, Identity!ErrorCleanup
<1>3. CASE Identity!LookUp
  BY <1>3 DEF Identity!LookUp
<1>4. CASE Identity!Generate
  BY <1>4 DEF Identity!Generate, Identity!ErrorCleanup
<1>5. CASE Identity!Store
  BY <1>5 DEF Identity!Store, Identity!ErrorCleanup
<1>6. CASE Identity!PrintPem
  BY <1>6 DEF Identity!PrintPem, Identity!ErrorCleanup
<1>7. CASE Identity!SetupSdkCredentials
  BY <1>7 DEF Identity!SetupSdkCredentials
<1>8. CASE UNCHANGED identityVars
  BY <1>8 DEF identityVars
<1> QED
  BY <1>1, <1>2, <1>3, <1>4, <1>5, <1>6, <1>7, <1>8 DEF IdentityStep, Identity!SetupHuk

(* As long as a stored certificate can be read back, the user is shown one *)
(* certificate, in every boot: app_psa_mqtt_setup_huk stores it before it  *)
(* prints it.                                                              *)
THEOREM OneCertificate ==
    ASSUME "its_get" \notin Failing
    PROVE  DeviceSpec => []SameCertificate
<1>1. DeviceInit => PrintedInv
  BY DEF DeviceInit, Identity!Init, PrintedInv, SameCertificate, Identity!SameCertificate
<1>2. PrintedInv /\ [DeviceNext]_deviceVars => PrintedInv'
  BY DeviceStepsIdentity, PrintedStep DEF deviceVars
<1>3. PrintedInv => SameCertificate
  BY DEF PrintedInv
<1> QED
  BY <1>1, <1>2, <1>3, PTL DEF DeviceSpec
=============================================================================
