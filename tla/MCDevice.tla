------------------------------ MODULE MCDevice ------------------------------
(* Device for TLC: the sets of TF-M calls that may fail, and what an       *)
(* earlier firmware may have left: a record of another version, and one of *)
(* this version that is too short for the network.                         *)
EXTENDS Device

NoneLeft        == {}
EarlierFirmware ==
    {[version |-> FALSE, ssid |-> Left, pass |-> Left, platform |-> Left, duid |-> Left],
     [version |-> TRUE, ssid |-> 0, pass |-> 0, platform |-> Left, duid |-> Left]}

NoneFail        == {}
SaveFailsOnly   == {"its_set"}
SaveOrResetFail == {"its_set", "reset"}
=============================================================================
