-------------------------------- MODULE Cm55 --------------------------------
(***************************************************************************)
(* The CM55 application: main creates the task of the model the image was  *)
(* built for (proj_cm55/source/main.c).  The tasks of audio.c, radar.c,    *)
(* imu.c and motion_task.c have modules of their own; the ones of doa.c,   *)
(* which feeds a recording to its model, and of main.c, which sends a      *)
(* constant, are here.                                                     *)
(***************************************************************************)
EXTENDS AudioFrames, RadarFrames, MotionTasks

CONSTANTS
    Models,   \* the models images are built for
    Rows      \* rows of the recording in audio_data

ASSUME Cm55Assumption ==
    /\ Models \subseteq {"audio", "gesture", "fall", "motion", "doa", "idle"}
    /\ Rows \in Nat \ {0}

VARIABLES
    model,       \* what the image was built for
    row,         \* the next row of the recording
    pred_idx,    \* the class found in this pass over it
    test_ready   \* test_task has filled the payload and sleeps

doaVars == <<row, pred_idx>>
vars == <<model, resultVars, audioVars, radarVars, fallVars, motionVars, doaVars, test_ready>>

Init ==
    /\ model \in Models
    /\ InferenceInit /\ AudioInit /\ RadarInit /\ MotionInit
    /\ row = 0 /\ pred_idx = 0 /\ test_ready = FALSE

(* One row: a new pass forgets the class of the last one.                  *)
DoaRow ==
    /\ row' = (row + 1) % Rows
    /\ LET before == IF row = 0 THEN 0 ELSE pred_idx
       IN  \/ \E s \in OneHot(3) :
                /\ pred_idx' = LastScored(s, before)
                /\ Report(pred_idx')
           \/ pred_idx' = before /\ NoReport

(* test_task.                                                              *)
FillTest == ~test_ready /\ test_ready' = TRUE /\ UNCHANGED resultVars
SendTest ==
    /\ test_ready /\ test_ready' = FALSE
    /\ sent' = 1 /\ UNCHANGED halted

Next ==
    /\ ~halted
    /\ UNCHANGED model
    /\ \/ /\ model = "audio" /\ AudioNext
          /\ UNCHANGED <<radarVars, fallVars, motionVars, doaVars, test_ready>>
       \/ /\ model = "gesture" /\ RadarNext
          /\ UNCHANGED <<audioVars, fallVars, motionVars, doaVars, test_ready>>
       \/ /\ model = "fall" /\ FallNext
          /\ UNCHANGED <<audioVars, radarVars, motionVars, doaVars, test_ready>>
       \/ /\ model = "motion" /\ MotionNext
          /\ UNCHANGED <<audioVars, radarVars, fallVars, doaVars, test_ready>>
       \/ /\ model = "doa" /\ DoaRow
          /\ UNCHANGED <<audioVars, radarVars, fallVars, motionVars, test_ready>>
       \/ /\ model = "idle" /\ (FillTest \/ SendTest)
          /\ UNCHANGED <<audioVars, radarVars, fallVars, motionVars, doaVars>>

Spec == Init /\ [][Next]_vars
=============================================================================
