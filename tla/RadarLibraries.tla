--------------------------- MODULE RadarLibraries ---------------------------
(***************************************************************************)
(* The libraries under proj_cm55/source/radar: the data manager, the       *)
(* slim algorithms that radar.c uses and the detection of a hand.  They    *)
(* share nothing but operators, and a program uses one of them: client     *)
(* says which.                                                             *)
(***************************************************************************)
EXTENDS RadarDataManager, SlimAlgo, HandDetection

VARIABLE client

managerVars == vars
libraryVars == <<client, managerVars, slimVars, handVars>>

LibrariesInit ==
    /\ client \in {"manager", "slim", "hand"}
    /\ Init /\ SlimInit /\ HandInit
    /\ client # "slim" => algorithm = "slim"
    /\ client # "hand" => det_mode = "closest"

LibrariesNext ==
    \/ client = "manager" /\ Next /\ UNCHANGED <<client, slimVars, handVars>>
    \/ client = "slim" /\ SlimNext /\ UNCHANGED <<client, managerVars, handVars>>
    \/ client = "hand" /\ HandNext /\ UNCHANGED <<client, managerVars, slimVars>>

LibrariesSpec == LibrariesInit /\ [][LibrariesNext]_libraryVars
=============================================================================
