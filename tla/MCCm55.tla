------------------------------- MODULE MCCm55 -------------------------------
(* The CM55 for TLC, built for every model: frames of three interrupts,    *)
(* three antennas with two samples each, accelerations of three bits.      *)
EXTENDS Cm55

AllModels == {"audio", "gesture", "fall", "motion", "doa", "idle"}
=============================================================================
