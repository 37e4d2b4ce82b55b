---------------------------- MODULE MotionTasks -----------------------------
(***************************************************************************)
(* The two tasks that use the inertial sensor: fall detection              *)
(* (proj_cm55/source/imu.c), which waits actively for a flag that the      *)
(* millisecond tick sets, and the kit's orientation                        *)
(* (proj_cm55/source/motion_task.c), which is read once a second.          *)
(*                                                                         *)
(* imu.c does not declare the flag volatile.  The model has the flag read  *)
(* anew in every turn, as a build does that leaves the loop alone.         *)
(***************************************************************************)
EXTENDS Inference

CONSTANTS
    IMU_SAMPLES_RATE,  \* 20 ticks in the code
    MaxTicks,          \* bound: ticks
    AccBits            \* 16: a component of the acceleration is an int16_t

ASSUME MotionAssumption ==
    /\ IMU_SAMPLES_RATE \in Nat \ {0} /\ MaxTicks \in Nat
    /\ AccBits \in Nat \ {0}

VARIABLES
    tick1,
    send_data,     \* ticks since the flag was set
    IMU_FLAG,
    fall_task,     \* where the fall detection is
    reads,         \* history: how often it read the sensor
    merged,        \* history: periods that ended with the flag still set
    motion_task,   \* where the orientation task is
    acc            \* bmi270_data: the acceleration read last

fallVars   == <<tick1, send_data, IMU_FLAG, fall_task, reads, merged>>
motionVars == <<motion_task, acc>>

MotionInit ==
    /\ tick1 = 0 /\ send_data = 0 /\ IMU_FLAG = FALSE
    /\ fall_task = "start" /\ reads = 0 /\ merged = 0
    /\ motion_task = "start" /\ acc = [x |-> 0, y |-> 0, z |-> 0]

-----------------------------------------------------------------------------
(* Fall detection.                                                         *)

(* motion_sensor_init, which ends with starting the tick.                  *)
StartFall ==
    /\ fall_task = "start"
    /\ \/ fall_task' = "polling" /\ UNCHANGED resultVars
       \/ Halt /\ UNCHANGED fall_task
    /\ UNCHANGED <<tick1, send_data, IMU_FLAG, reads, merged>>

(* systick_isr1.                                                           *)
Tick ==
    /\ fall_task # "start"
    /\ tick1 < MaxTicks
    /\ tick1' = tick1 + 1
    /\ IF send_data + 1 = IMU_SAMPLES_RATE
       THEN /\ send_data' = 0
            /\ IMU_FLAG' = TRUE
            /\ merged' = merged + (IF IMU_FLAG THEN 1 ELSE 0)
       ELSE send_data' = send_data + 1 /\ UNCHANGED <<IMU_FLAG, merged>>
    /\ UNCHANGED <<fall_task, reads, resultVars>>

PollFlag ==
    /\ fall_task = "polling" /\ IMU_FLAG
    /\ fall_task' = "flagged"
    /\ UNCHANGED <<tick1, send_data, IMU_FLAG, reads, merged, resultVars>>

ClearFlag ==
    /\ fall_task = "flagged"
    /\ IMU_FLAG' = FALSE
    /\ fall_task' = "reading"
    /\ UNCHANGED <<tick1, send_data, reads, merged, resultVars>>

(* Mutant: the flag is cleared once more when the sensor has been read.    *)
ReadImuAndClear ==
    /\ fall_task = "reading"
    /\ fall_task' = "polling" /\ reads' = reads + 1
    /\ IMU_FLAG' = FALSE
    /\ NoReport
    /\ UNCHANGED <<tick1, send_data, merged>>

(* Read, enqueue and dequeue; a sample that is not ready is not enqueued.  *)
ReadImu ==
    /\ fall_task = "reading"
    /\ \/ /\ fall_task' = "polling" /\ reads' = reads + 1
          /\ (\E s \in OneHot(2) : Report(OneOrOther(s))) \/ NoReport
       \/ Halt /\ UNCHANGED <<fall_task, reads>>
    /\ UNCHANGED <<tick1, send_data, IMU_FLAG, merged>>

FallNext == StartFall \/ Tick \/ PollFlag \/ ClearFlag \/ ReadImu

-----------------------------------------------------------------------------
(* Orientation.                                                            *)

Lowest == -(2 ^ (AccBits - 1))
Components == Lowest .. -Lowest - 1

(* abs, assigned to an int16_t.                                            *)
Abs16(a) == IF a = Lowest THEN Lowest ELSE IF a < 0 THEN -a ELSE a

Up        == 0
Down      == 1
Top       == 2
Bottom    == 3
LeftEdge  == 4
RightEdge == 5

(* Mutant: the sign of y is read the other way round.                      *)
OrientationOtherWay(a) ==
    LET x == Abs16(a.x)  y == Abs16(a.y)  z == Abs16(a.z)
    IN  IF z > x /\ z > y THEN IF a.z < 0 THEN Down ELSE Up
        ELSE IF y > x /\ y > z THEN IF a.y > 0 THEN Top ELSE Bottom
        ELSE IF a.x < 0 THEN RightEdge ELSE LeftEdge

Orientation(a) ==
    LET x == Abs16(a.x)  y == Abs16(a.y)  z == Abs16(a.z)
    IN  IF z > x /\ z > y THEN IF a.z < 0 THEN Down ELSE Up
        ELSE IF y > x /\ y > z THEN IF a.y > 0 THEN Bottom ELSE Top
        ELSE IF a.x < 0 THEN RightEdge ELSE LeftEdge

(* motion_sensor_init; an error stops the core.                            *)
StartMotion ==
    /\ motion_task = "start"
    /\ \/ motion_task' = "periodic" /\ UNCHANGED resultVars
       \/ Halt /\ UNCHANGED motion_task
    /\ UNCHANGED acc

(* motion_sensor_update_orientation, once a second.  When the read fails   *)
(* the last acceleration is used again and its orientation is sent.        *)
UpdateOrientation ==
    /\ motion_task = "periodic"
    /\ \/ acc' \in [x : Components, y : Components, z : Components]
       \/ UNCHANGED acc
    /\ sent' = Orientation(acc')
    /\ UNCHANGED <<motion_task, halted>>

MotionNext == StartMotion \/ UpdateOrientation

-----------------------------------------------------------------------------
(* "Required data rate is 50 Hz": every period of ticks leads to a read,   *)
(* except one that ends before the flag of the last one has been cleared,  *)
(* wherever the tick falls between testing and clearing the flag.          *)
EveryPeriodRead ==
    tick1 \div IMU_SAMPLES_RATE
        = reads + merged + (IF IMU_FLAG THEN 1 ELSE 0)
                + (IF fall_task = "reading" THEN 1 ELSE 0)

(* The axis an orientation is about, and the direction.                    *)
Along(o, a) ==
    CASE o \in {Up, Down}           -> [value |-> a.z, positive |-> o = Up]
      [] o \in {Top, Bottom}        -> [value |-> a.y, positive |-> o = Bottom]
      [] o \in {LeftEdge, RightEdge} -> [value |-> a.x, positive |-> o = LeftEdge]

(* "detects the axis that is most perpendicular to the ground based on the *)
(* absolute value of acceleration in that axis": the orientation sent is   *)
(* of the axis with the largest acceleration, if there is one such and no  *)
(* component is the lowest int16_t, which has no absolute value.           *)
LargestAxis ==
    LET values == {acc.x, acc.y, acc.z}
        along  == Along(sent, acc)
        sizes  == [c \in {"x", "y", "z"} |-> Max({acc[c], -acc[c]})]
    IN  motion_task = "periodic" /\ sent # NothingSent /\ Lowest \notin values
        => \A c \in {"x", "y", "z"} :
            (\A d \in {"x", "y", "z"} \ {c} : sizes[c] > sizes[d])
                => along.value = acc[c] /\ (along.positive <=> acc[c] > 0)
=============================================================================
