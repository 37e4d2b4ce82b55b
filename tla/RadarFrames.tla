---------------------------- MODULE RadarFrames -----------------------------
(***************************************************************************)
(* The gesture model's two tasks and the radar's interrupt                 *)
(* (proj_cm55/source/radar.c).  radar_task polls a flag that the interrupt *)
(* sets, reads a frame from the sensor and sorts it by antenna into        *)
(* gesture_frame; processing_task, which has the higher priority, works on *)
(* gesture_frame without a lock.  A sample is the number of its frame and  *)
(* its place in it.                                                        *)
(***************************************************************************)
EXTENDS Inference

CONSTANTS
    NUM_RX_ANTENNAS,   \* 3 in the code
    SamplesPerAntenna, \* 64 * 32 in the code
    FifoFrames,        \* frames the sensor's FIFO holds
    MaxRadarFrames     \* bound: frames the sensor delivers

ASSUME RadarAssumption ==
    /\ NUM_RX_ANTENNAS \in Nat \ {0} /\ SamplesPerAntenna \in Nat \ {0}
    /\ FifoFrames \in Nat \ {0} /\ MaxRadarFrames \in Nat

VARIABLES
    data_available,
    bgt60_buffer,    \* the frame that radar_task read last
    gesture_frame,   \* its samples by antenna
    radar_task,      \* where radar_task is
    sorted,          \* samples it has sorted: i of the loop
    processing_task, \* where processing_task is
    radar_notified,  \* whether a notification is pending for it
    seen,            \* what slim_algo has read of gesture_frame
    framed,          \* frames the sensor has delivered
    taken,           \* frames read from it
    processed,       \* history: the last frame slim_algo worked on
    late             \* history: a frame came before the last was taken

sensorVars     == <<framed, late>>
radarTaskVars  == <<bgt60_buffer, gesture_frame, radar_task, sorted, taken>>
processingVars == <<processing_task, seen, processed>>
radarVars == <<data_available, radar_notified, sensorVars, radarTaskVars, processingVars>>

NUM_SAMPLES_PER_FRAME == NUM_RX_ANTENNAS * SamplesPerAntenna
Positions == 0 .. NUM_SAMPLES_PER_FRAME - 1

RadarInit ==
    /\ data_available = FALSE /\ radar_notified = FALSE
    /\ bgt60_buffer = 0
    /\ gesture_frame = [p \in Positions |-> <<0, p>>]
    /\ radar_task = "start" /\ sorted = 0
    /\ processing_task = "none" /\ seen = {}
    /\ framed = 0 /\ taken = 0 /\ processed = 0 /\ late = FALSE

-----------------------------------------------------------------------------
(* Preemption: of the tasks that are ready, one of the highest priority    *)
(* runs.  radar_task never sleeps.                                         *)

(* Mutant: both tasks have the same priority and share the core in slices. *)
PrioritiesEqual == [radar |-> 1, processing |-> 1]

TASK_PRIORITY == [radar |-> 1, processing |-> 2]

ProcessingReady == processing_task \in {"reading", "inferring"} \/ radar_notified
RadarRuns       == ProcessingReady => TASK_PRIORITY.radar >= TASK_PRIORITY.processing
ProcessingRuns  == TASK_PRIORITY.processing >= TASK_PRIORITY.radar

(* The sensor has one more frame.                                          *)
RadarInterrupt ==
    /\ radar_task # "start"
    /\ framed < MaxRadarFrames
    /\ framed' = framed + 1
    /\ late' = (late \/ framed # taken)
    /\ data_available' = TRUE
    /\ UNCHANGED <<radar_notified, radarTaskVars, processingVars, resultVars>>

-----------------------------------------------------------------------------
(* radar_task.                                                             *)

(* radar_init, creating processing_task, starting the frames.              *)
StartRadar ==
    /\ radar_task = "start"
    /\ \/ radar_task' = "polling" /\ processing_task' = "waiting" /\ UNCHANGED resultVars
       \/ Halt /\ UNCHANGED <<radar_task, processing_task>>
    /\ UNCHANGED <<data_available, radar_notified, sensorVars, bgt60_buffer,
                   gesture_frame, sorted, taken, seen, processed>>

PollData ==
    /\ radar_task = "polling" /\ RadarRuns
    /\ data_available
    /\ radar_task' = "available"
    /\ UNCHANGED <<data_available, radar_notified, sensorVars, bgt60_buffer,
                   gesture_frame, sorted, taken, processingVars, resultVars>>

ClearAvailable ==
    /\ radar_task = "available" /\ RadarRuns
    /\ data_available' = FALSE
    /\ radar_task' = "fifo"
    /\ UNCHANGED <<radar_notified, sensorVars, bgt60_buffer, gesture_frame,
                   sorted, taken, processingVars, resultVars>>

(* The oldest frame; an error if the FIFO has overflown, or by itself.     *)
GetFifoData ==
    /\ radar_task = "fifo" /\ RadarRuns
    /\ \/ /\ framed > taken /\ framed - taken <= FifoFrames
          /\ taken' = taken + 1
          /\ bgt60_buffer' = taken + 1
          /\ radar_task' = "sorting" /\ sorted' = 0
          /\ UNCHANGED resultVars
       \/ Halt /\ UNCHANGED <<taken, bgt60_buffer, radar_task, sorted>>
    /\ UNCHANGED <<data_available, radar_notified, sensorVars, gesture_frame, processingVars>>

(* Where sample i of a frame belongs: the antennas take turns.             *)
Place(i) == (i \div NUM_RX_ANTENNAS) + (i % NUM_RX_ANTENNAS) * SamplesPerAntenna

DeinterleaveAntennas ==
    /\ radar_task = "sorting" /\ RadarRuns
    /\ sorted < NUM_SAMPLES_PER_FRAME
    /\ gesture_frame' = [gesture_frame EXCEPT ![Place(sorted)] = <<bgt60_buffer, sorted>>]
    /\ sorted' = sorted + 1
    /\ UNCHANGED <<data_available, radar_notified, sensorVars, bgt60_buffer,
                   radar_task, taken, processingVars, resultVars>>

(* Mutant: the flag is cleared again once the frame is passed on.          *)
NotifyAndClear ==
    /\ radar_task = "sorting" /\ RadarRuns
    /\ sorted = NUM_SAMPLES_PER_FRAME
    /\ radar_notified' = TRUE /\ data_available' = FALSE
    /\ radar_task' = "polling"
    /\ UNCHANGED <<sensorVars, bgt60_buffer, gesture_frame, sorted, taken,
                   processingVars, resultVars>>

NotifyProcessing ==
    /\ radar_task = "sorting" /\ RadarRuns
    /\ sorted = NUM_SAMPLES_PER_FRAME
    /\ radar_notified' = TRUE
    /\ radar_task' = "polling"
    /\ UNCHANGED <<data_available, sensorVars, bgt60_buffer, gesture_frame,
                   sorted, taken, processingVars, resultVars>>

-----------------------------------------------------------------------------
(* processing_task.                                                        *)

TakeGestureFrame ==
    /\ processing_task = "waiting" /\ radar_notified /\ ProcessingRuns
    /\ radar_notified' = FALSE
    /\ processing_task' = "reading"
    /\ seen' = {}
    /\ UNCHANGED <<data_available, sensorVars, radarTaskVars, processed, resultVars>>

(* slim_algo reads one antenna after the other.                            *)
ReadAntenna ==
    /\ processing_task = "reading" /\ ProcessingRuns
    /\ LET first == Cardinality(seen)
       IN  seen' = seen \cup {<<p, gesture_frame[p]>> :
                                p \in first .. first + SamplesPerAntenna - 1}
    /\ processing_task' = IF Cardinality(seen') = NUM_SAMPLES_PER_FRAME
                          THEN "inferring" ELSE "reading"
    /\ UNCHANGED <<data_available, radar_notified, sensorVars, radarTaskVars,
                   processed, resultVars>>

(* The features go to the model, which may report.  When slim_algo fails   *)
(* they are whatever the stack held, as nobody asks for its success; which *)
(* scores come of it is open in either case.                               *)
Infer ==
    /\ processing_task = "inferring" /\ ProcessingRuns
    /\ \E e \in seen : processed' = e[2][1]
    /\ processing_task' = "waiting"
    /\ \/ \E s \in OneHot(3) : Report(LastScored(s, 0))
       \/ NoReport
    /\ UNCHANGED <<data_available, radar_notified, sensorVars, radarTaskVars, seen>>

RadarTask      == StartRadar \/ PollData \/ ClearAvailable \/ GetFifoData
                    \/ DeinterleaveAntennas \/ NotifyProcessing
ProcessingTask == TakeGestureFrame \/ ReadAntenna \/ Infer

RadarNext == RadarInterrupt \/ RadarTask \/ ProcessingTask
-----------------------------------------------------------------------------
(* Sample s of antenna a of frame f came at place s * NUM_RX_ANTENNAS + a. *)
SortedFrame(f) ==
    {<<s + a * SamplesPerAntenna, <<f, s * NUM_RX_ANTENNAS + a>>>> :
        s \in 0 .. SamplesPerAntenna - 1, a \in 0 .. NUM_RX_ANTENNAS - 1}

(* slim_algo works on one frame, with every sample at its antenna, though  *)
(* radar_task fills gesture_frame without a lock.                          *)
OneFrameSeen ==
    processing_task = "inferring"
        => \E f \in 1 .. taken : seen = SortedFrame(f)

RadarIdle ==
    /\ radar_task = "polling" /\ ~data_available
    /\ processing_task = "waiting" /\ ~radar_notified

(* As long as each frame is taken before the next one comes, every frame   *)
(* is worked on, once and in order: no interrupt is lost between testing   *)
(* the flag and clearing it, and no notification is merged.                *)
EveryFrameProcessed ==
    /\ [](RadarIdle /\ ~late => processed = framed)
    /\ [][processed' # processed /\ ~late => processed' = processed + 1]_radarVars
=============================================================================
