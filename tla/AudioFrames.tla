---------------------------- MODULE AudioFrames -----------------------------
(***************************************************************************)
(* The audio task and the microphone's interrupt                           *)
(* (proj_cm55/source/audio.c): the interrupt fills one of two buffers and  *)
(* exchanges them when it is full, and the task hands the full one to the  *)
(* model, sample by sample.  The task loads the pointer to the full buffer *)
(* anew for every sample.  The samples are numbered from 1 as they come.   *)
(***************************************************************************)
EXTENDS Inference

CONSTANTS
    FRAME_SIZE,          \* 1024 in the code
    RX_FIFO_TRIG_LEVEL,  \* 32 in the code
    MaxFrames            \* bound: frames the microphone delivers

NUMBER_INTERRUPTS_FOR_FRAME == FRAME_SIZE \div RX_FIFO_TRIG_LEVEL

ASSUME AudioAssumption ==
    /\ RX_FIFO_TRIG_LEVEL \in Nat \ {0} /\ FRAME_SIZE \in Nat \ {0}
    /\ FRAME_SIZE % RX_FIFO_TRIG_LEVEL = 0
    /\ MaxFrames \in Nat

VARIABLES
    audio_buffer,       \* the two buffers
    active_rx_buffer,   \* which of them is being filled
    full_rx_buffer,     \* which of them is full
    frame_counter,      \* interrupts since the frame began
    audio_task,         \* where the task is
    audio_notified,     \* whether a notification is pending for it
    index,              \* its place in the frame
    loaded_buffer,      \* the full_rx_buffer that it has loaded for a sample
    heard,              \* samples the microphone has delivered
    enqueued,           \* history: the last sample handed to the model
    overrun             \* history: a frame was full before the last was done

audioBufferVars == <<audio_buffer, active_rx_buffer, full_rx_buffer, frame_counter, heard>>
audioTaskVars   == <<audio_task, audio_notified, index, loaded_buffer, enqueued, overrun>>
audioVars       == <<audioBufferVars, audioTaskVars>>

Silence == [i \in 0 .. FRAME_SIZE - 1 |-> 0]

AudioInit ==
    /\ audio_buffer = [b \in {0, 1} |-> Silence]
    /\ active_rx_buffer = 0 /\ full_rx_buffer = 1
    /\ frame_counter = 0
    /\ audio_task = "start" /\ audio_notified = FALSE /\ index = 0 /\ loaded_buffer = 1
    /\ heard = 0 /\ enqueued = 0 /\ overrun = FALSE

(* audio_init: the microphone runs, or an assertion fails.                 *)
StartAudio ==
    /\ audio_task = "start"
    /\ \/ audio_task' = "waiting" /\ UNCHANGED resultVars
       \/ Halt /\ UNCHANGED audio_task
    /\ UNCHANGED <<audioBufferVars, audio_notified, index, loaded_buffer, enqueued, overrun>>

(* Mutant: the buffers are not exchanged.                                  *)
KeepBuffers == UNCHANGED <<active_rx_buffer, full_rx_buffer>>

ExchangeBuffers ==
    /\ active_rx_buffer' = full_rx_buffer
    /\ full_rx_buffer' = active_rx_buffer

(* pdm_pcm_event_handler.                                                  *)
PdmInterrupt ==
    /\ audio_task # "start"
    /\ heard < MaxFrames * FRAME_SIZE
    /\ LET first == frame_counter * RX_FIFO_TRIG_LEVEL
       IN  audio_buffer' = [audio_buffer EXCEPT ![active_rx_buffer] =
                [i \in DOMAIN @ |-> IF i \in first .. first + RX_FIFO_TRIG_LEVEL - 1
                                    THEN heard + 1 + (i - first) ELSE @[i]]]
    /\ heard' = heard + RX_FIFO_TRIG_LEVEL
    /\ IF frame_counter + 1 >= NUMBER_INTERRUPTS_FOR_FRAME
       THEN /\ ExchangeBuffers
            /\ frame_counter' = 0
            /\ audio_notified' = TRUE
            /\ overrun' = (overrun \/ audio_task # "waiting" \/ audio_notified)
       ELSE /\ frame_counter' = frame_counter + 1
            /\ UNCHANGED <<active_rx_buffer, full_rx_buffer, audio_notified, overrun>>
    /\ UNCHANGED <<audio_task, index, loaded_buffer, enqueued, resultVars>>

(* ulTaskNotifyTake.                                                       *)
TakeFrame ==
    /\ audio_task = "waiting" /\ audio_notified
    /\ audio_task' = "frame" /\ audio_notified' = FALSE
    /\ index' = 0
    /\ UNCHANGED <<audioBufferVars, loaded_buffer, enqueued, overrun, resultVars>>

(* One turn of the loop over the frame: the pointer is loaded, ...         *)
LoadBuffer ==
    /\ audio_task = "frame"
    /\ loaded_buffer' = full_rx_buffer
    /\ audio_task' = "sample"
    /\ UNCHANGED <<audioBufferVars, audio_notified, index, enqueued, overrun, resultVars>>

(* ... and then the sample, which the model gets.                          *)
EnqueueSample ==
    /\ audio_task = "sample"
    /\ enqueued' = audio_buffer[loaded_buffer][index]
    /\ index' = index + 1
    /\ audio_task' = IF index + 1 < FRAME_SIZE THEN "frame" ELSE "waiting"
    /\ \/ \E s \in OneHot(2) : Report(OneOrOther(s))
       \/ NoReport
    /\ UNCHANGED <<audioBufferVars, audio_notified, loaded_buffer, overrun>>

AudioNext == StartAudio \/ PdmInterrupt \/ TakeFrame \/ LoadBuffer \/ EnqueueSample

(* Frames that are whole when sample n has come.                           *)
WholeFrames == heard - frame_counter * RX_FIFO_TRIG_LEVEL

(* "One gets filled by the PDM while the other can be processed": however  *)
(* the interrupt falls between the task's steps, the model gets every      *)
(* sample once and in order as long as no frame is full before the last is *)
(* done.  Otherwise it gets samples of the newest frame that is whole, or, *)
(* where buffers were exchanged between the two loads, of the one before   *)
(* it and of the frame that is being filled.                               *)
HeardInOrder ==
    [][audio_task = "sample" /\ index' = index + 1
        => /\ ~overrun => enqueued' = enqueued + 1
           /\ loaded_buffer = full_rx_buffer
                => enqueued' \in WholeFrames - FRAME_SIZE + 1 .. WholeFrames
           /\ enqueued' \in WholeFrames - 2 * FRAME_SIZE + 1 .. heard]_audioVars
=============================================================================
