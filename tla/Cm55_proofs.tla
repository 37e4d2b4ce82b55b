----------------------------- MODULE Cm55_proofs -----------------------------
(***************************************************************************)
(* The sensor tasks of the CM55, for frames, rates and components of any   *)
(* size, as many interrupts as there may be, and every point at which an   *)
(* interrupt can fall between two steps of a task.                         *)
(***************************************************************************)
EXTENDS Cm55, IntegerFacts

(* A step belongs to the task the image was built with.                    *)
LEMMA OneTaskSteps ==
    ASSUME [Next]_vars
    PROVE  /\ model' = model
           /\ UNCHANGED audioVars  \/ (model = "audio" /\ AudioNext)
           /\ UNCHANGED radarVars  \/ (model = "gesture" /\ RadarNext)
           /\ UNCHANGED fallVars   \/ (model = "fall" /\ FallNext)
           /\ UNCHANGED motionVars \/ (model = "motion" /\ MotionNext)
<1>1. CASE Next
  <2>1. model' = model
    BY <1>1 DEF Next
  <2>2. \/ /\ model = "audio" /\ AudioNext
           /\ UNCHANGED radarVars /\ UNCHANGED fallVars /\ UNCHANGED motionVars
        \/ /\ model = "gesture" /\ RadarNext
           /\ UNCHANGED audioVars /\ UNCHANGED fallVars /\ UNCHANGED motionVars
        \/ /\ model = "fall" /\ FallNext
           /\ UNCHANGED audioVars /\ UNCHANGED radarVars /\ UNCHANGED motionVars
        \/ /\ model = "motion" /\ MotionNext
           /\ UNCHANGED audioVars /\ UNCHANGED radarVars /\ UNCHANGED fallVars
        \/ /\ UNCHANGED audioVars /\ UNCHANGED radarVars
           /\ UNCHANGED fallVars /\ UNCHANGED motionVars
    BY <1>1 DEF Next
  <2> QED
    BY <2>1, <2>2
<1>2. CASE UNCHANGED vars
  <2>1. /\ model' = model /\ UNCHANGED audioVars /\ UNCHANGED radarVars
        /\ UNCHANGED fallVars /\ UNCHANGED motionVars
    BY <1>2 DEF vars
  <2> QED
    BY <2>1
<1> QED
  BY <1>1, <1>2

-----------------------------------------------------------------------------
(* Orientation: what was sent last is the orientation of what was read     *)
(* last, as no other task sends anything.                                  *)
MotionInv ==
    /\ acc \in [x : Int, y : Int, z : Int]
    /\ motion_task # "start" => model = "motion"
    /\ model = "motion" => sent \in {NothingSent, Orientation(acc)}

(* motion_sensor_update_orientation picks the axis with the largest        *)
(* acceleration, wherever one is largest, for components of any width.     *)
LEMMA OrientationOfLargest ==
    ASSUME NEW a \in [x : Int, y : Int, z : Int], Lowest \notin {a.x, a.y, a.z},
           NEW c \in {"x", "y", "z"},
           \A d \in {"x", "y", "z"} \ {c} : Max({a[c], -a[c]}) > Max({a[d], -a[d]})
    PROVE  LET along == Along(Orientation(a), a)
           IN  along.value = a[c] /\ (along.positive <=> a[c] > 0)
<1>1. ASSUME NEW n \in Int PROVE Max({n, -n}) = IF n < 0 THEN -n ELSE n
  <2>1. \E m \in {n, -n} : \A k \in {n, -n} : k <= m
    BY <1>1
  <2> DEFINE m == Max({n, -n})
  <2>2. m \in {n, -n} /\ \A k \in {n, -n} : k <= m
    BY <2>1 DEF Max
  <2> QED
    BY <2>2
<1> DEFINE Mag(n) == IF n < 0 THEN -n ELSE n
<1>2. a["x"] = a.x /\ a["y"] = a.y /\ a["z"] = a.z /\ a.x \in Int /\ a.y \in Int /\ a.z \in Int
  OBVIOUS
<1>3. Abs16(a.x) = Mag(a.x) /\ Abs16(a.y) = Mag(a.y) /\ Abs16(a.z) = Mag(a.z)
  BY <1>2 DEF Abs16
<1>4. \A d \in {"x", "y", "z"} \ {c} : Mag(a[c]) > Mag(a[d])
  BY <1>1, <1>2
<1>9. /\ \A o \in {LeftEdge, RightEdge} :
            Along(o, a) = [value |-> a.x, positive |-> o = LeftEdge]
      /\ \A o \in {Top, Bottom} : Along(o, a) = [value |-> a.y, positive |-> o = Bottom]
      /\ \A o \in {Up, Down} : Along(o, a) = [value |-> a.z, positive |-> o = Up]
  BY DEF Along, Up, Down, Top, Bottom, LeftEdge, RightEdge
<1>5. CASE c = "x"
  <2>1. Mag(a.x) > Mag(a.y) /\ Mag(a.x) > Mag(a.z)
    BY <1>4, <1>5, <1>2
  <2>2. Orientation(a) = IF a.x < 0 THEN RightEdge ELSE LeftEdge
    BY <2>1, <1>2, <1>3 DEF Orientation
  <2>3. Along(Orientation(a), a) = [value |-> a.x, positive |-> Orientation(a) = LeftEdge]
    BY <2>2, <1>9
  <2>4. Orientation(a) = LeftEdge <=> a.x > 0
    BY <2>1, <2>2, <1>2 DEF LeftEdge, RightEdge
  <2>5. Along(Orientation(a), a).value = a.x
    BY <2>3
  <2>6. Along(Orientation(a), a).positive = (Orientation(a) = LeftEdge)
    BY <2>3
  <2> QED
    BY <2>4, <2>5, <2>6, <1>2, <1>5, Zenon
<1>6. CASE c = "y"
  <2>1. Mag(a.y) > Mag(a.x) /\ Mag(a.y) > Mag(a.z)
    BY <1>4, <1>6, <1>2
  <2>2. Orientation(a) = IF a.y > 0 THEN Bottom ELSE Top
    BY <2>1, <1>2, <1>3 DEF Orientation
  <2>3. Along(Orientation(a), a) = [value |-> a.y, positive |-> Orientation(a) = Bottom]
    BY <2>2, <1>9
  <2>4. Orientation(a) = Bottom <=> a.y > 0
    BY <2>1, <2>2, <1>2 DEF Top, Bottom
  <2>5. Along(Orientation(a), a).value = a.y
    BY <2>3
  <2>6. Along(Orientation(a), a).positive = (Orientation(a) = Bottom)
    BY <2>3
  <2> QED
    BY <2>4, <2>5, <2>6, <1>2, <1>6, Zenon
<1>7. CASE c = "z"
  <2>1. Mag(a.z) > Mag(a.x) /\ Mag(a.z) > Mag(a.y)
    BY <1>4, <1>7, <1>2
  <2>2. Orientation(a) = IF a.z < 0 THEN Down ELSE Up
    BY <2>1, <1>2, <1>3 DEF Orientation
  <2>3. Along(Orientation(a), a) = [value |-> a.z, positive |-> Orientation(a) = Up]
    BY <2>2, <1>9
  <2>4. Orientation(a) = Up <=> a.z > 0
    BY <2>1, <2>2, <1>2 DEF Up, Down
  <2>5. Along(Orientation(a), a).value = a.z
    BY <2>3
  <2>6. Along(Orientation(a), a).positive = (Orientation(a) = Up)
    BY <2>3
  <2> QED
    BY <2>4, <2>5, <2>6, <1>2, <1>7, Zenon
<1> QED
  BY <1>5, <1>6, <1>7

(* The orientation sent is of the axis with the largest acceleration, if   *)
(* there is one such and no component is the lowest of its type.           *)
THEOREM OrientationIsLargestAxis == Spec => []LargestAxis
<1>1. Init => MotionInv
  BY DEF Init, MotionInit, InferenceInit, MotionInv
<1>2. MotionInv /\ [Next]_vars => MotionInv'
  <2> SUFFICES ASSUME MotionInv, [Next]_vars PROVE MotionInv'
    OBVIOUS
  <2>1. CASE model = "motion" /\ Next /\ StartMotion
    BY <2>1 DEF Next, StartMotion, MotionInv, Halt, resultVars
  <2>2. CASE model = "motion" /\ Next /\ UpdateOrientation
    <3>1. acc' \in [x : Int, y : Int, z : Int]
      BY <2>2 DEF UpdateOrientation, Components, MotionInv
    <3> QED
      BY <2>2, <3>1 DEF Next, UpdateOrientation, MotionInv
  <2>3. CASE model # "motion" \/ UNCHANGED vars
    <3>1. model' = model /\ UNCHANGED motionVars
      BY <2>3, OneTaskSteps DEF vars
    <3>2. model # "motion" \/ UNCHANGED sent
      BY <2>3 DEF vars, resultVars
    <3> QED
      BY <3>1, <3>2 DEF MotionInv, motionVars
  <2> QED
    BY <2>1, <2>2, <2>3 DEF Next, MotionNext
<1>3. MotionInv => LargestAxis
  <2> SUFFICES ASSUME MotionInv, motion_task = "periodic", sent # NothingSent,
                      Lowest \notin {acc.x, acc.y, acc.z},
                      NEW c \in {"x", "y", "z"},
                      \A d \in {"x", "y", "z"} \ {c} :
                        Max({acc[c], -acc[c]}) > Max({acc[d], -acc[d]})
               PROVE  /\ Along(sent, acc).value = acc[c]
                      /\ Along(sent, acc).positive <=> acc[c] > 0
    BY DEF LargestAxis
  <2>1. sent = Orientation(acc) /\ acc \in [x : Int, y : Int, z : Int]
    BY DEF MotionInv
  <2> QED
    BY <2>1, OrientationOfLargest
<1> QED
  BY <1>1, <1>2, <1>3, PTL DEF Spec

-----------------------------------------------------------------------------
(* Fall detection: the periods that have ended are accounted for, and a    *)
(* flag that was seen stays set until it is cleared.                       *)
Periods == reads + merged + (IF IMU_FLAG THEN 1 ELSE 0)
                 + (IF fall_task = "reading" THEN 1 ELSE 0)

FallInv ==
    /\ reads \in Nat /\ merged \in Nat /\ IMU_FLAG \in BOOLEAN
    /\ send_data \in 0 .. IMU_SAMPLES_RATE - 1
    /\ tick1 = IMU_SAMPLES_RATE * Periods + send_data
    /\ fall_task = "flagged" => IMU_FLAG

(* Wherever systick_isr1 falls between testing and clearing the flag,      *)
(* every period leads to a read or ends before the last one's was cleared. *)
THEOREM PeriodsAreRead == Spec => []EveryPeriodRead
<1> USE MotionAssumption
<1>1. Init => FallInv
  <2> SUFFICES ASSUME Init PROVE FallInv
    OBVIOUS
  <2>1. /\ tick1 = 0 /\ send_data = 0 /\ IMU_FLAG = FALSE
        /\ fall_task = "start" /\ reads = 0 /\ merged = 0
    BY DEF Init, MotionInit
  <2>2. Periods = 0
    BY <2>1 DEF Periods
  <2>3. tick1 = IMU_SAMPLES_RATE * Periods + send_data
    BY <2>1, <2>2
  <2>4. reads \in Nat /\ merged \in Nat /\ send_data \in 0 .. IMU_SAMPLES_RATE - 1
    BY <2>1
  <2> QED
    BY <2>1, <2>3, <2>4, Zenon DEF FallInv
<1>2. FallInv /\ [Next]_vars => FallInv'
  <2> SUFFICES ASSUME FallInv, [Next]_vars PROVE FallInv'
    OBVIOUS
  <2> USE DEF FallInv
  <2>0. Periods \in Nat
    BY DEF Periods
  <2>1. CASE StartFall
    BY <2>1 DEF StartFall, Periods
  <2>2. CASE Tick
    <3>1. CASE send_data + 1 = IMU_SAMPLES_RATE
      <4>1. Periods' = Periods + 1
        BY <2>2, <3>1 DEF Tick, Periods
      <4>2. tick1' = IMU_SAMPLES_RATE * (Periods + 1) + 0
        BY <2>0, <2>2, <3>1 DEF Tick
      <4> QED
        BY <2>2, <3>1, <4>1, <4>2 DEF Tick
    <3>2. CASE send_data + 1 # IMU_SAMPLES_RATE
      <4>1. Periods' = Periods
        BY <2>2, <3>2 DEF Tick, Periods
      <4> QED
        BY <2>0, <2>2, <3>2, <4>1 DEF Tick
    <3> QED
      BY <3>1, <3>2
  <2>3. CASE PollFlag
    BY <2>3 DEF PollFlag, Periods
  <2>4. CASE ClearFlag
    <3>1. Periods' = Periods
      BY <2>4 DEF ClearFlag, Periods
    <3> QED
      BY <2>4, <3>1 DEF ClearFlag
  <2>5. CASE ReadImu
    BY <2>5 DEF ReadImu, Periods
  <2>6. CASE UNCHANGED fallVars
    BY <2>6 DEF fallVars, Periods
  <2> QED
    BY <2>1, <2>2, <2>3, <2>4, <2>5, <2>6, OneTaskSteps DEF FallNext
<1>3. FallInv => EveryPeriodRead
  <2> SUFFICES ASSUME FallInv PROVE EveryPeriodRead
    OBVIOUS
  <2>1. Periods \in Nat /\ tick1 = IMU_SAMPLES_RATE * Periods + send_data
        /\ send_data \in 0 .. IMU_SAMPLES_RATE - 1
    BY DEF FallInv, Periods
  <2>2. tick1 \div IMU_SAMPLES_RATE = Periods
    BY <2>1, QuotientOf
  <2> QED
    BY <2>2 DEF EveryPeriodRead, Periods
<1> QED
  BY <1>1, <1>2, <1>3, PTL DEF Spec

-----------------------------------------------------------------------------
(* Audio: what the interrupt has written is where it belongs, in the order *)
(* it came, the full buffer holds the newest frame that is whole, and what *)
(* is not overwritten yet in the other one belongs to the frame before.    *)
BuffersInv ==
    /\ active_rx_buffer \in {0, 1} /\ full_rx_buffer = 1 - active_rx_buffer
    /\ audio_buffer \in [{0, 1} -> [0 .. FRAME_SIZE - 1 -> Int]]
    /\ frame_counter \in 0 .. NUMBER_INTERRUPTS_FOR_FRAME - 1
    /\ heard \in Int /\ WholeFrames \in Nat
    /\ \A i \in 0 .. frame_counter * RX_FIFO_TRIG_LEVEL - 1 :
            audio_buffer[active_rx_buffer][i] = WholeFrames + 1 + i
    /\ WholeFrames # 0 => \A i \in 0 .. FRAME_SIZE - 1 :
            audio_buffer[full_rx_buffer][i] = WholeFrames - FRAME_SIZE + 1 + i
    /\ WholeFrames # 0 => WholeFrames >= FRAME_SIZE
    /\ WholeFrames >= 2 * FRAME_SIZE =>
        \A i \in frame_counter * RX_FIFO_TRIG_LEVEL .. FRAME_SIZE - 1 :
            audio_buffer[active_rx_buffer][i] = WholeFrames - 2 * FRAME_SIZE + 1 + i

(* Where the task is in the frame, as long as no frame came too early, and *)
(* what the buffer is that it has loaded.                                  *)
TaskInv ==
    /\ audio_task \in {"start", "waiting", "frame", "sample"} /\ audio_notified \in BOOLEAN
    /\ index \in Nat /\ overrun \in BOOLEAN
    /\ audio_task \in {"frame", "sample"} => index < FRAME_SIZE /\ WholeFrames # 0
    /\ audio_notified => WholeFrames # 0
    /\ audio_task = "sample" =>
        /\ loaded_buffer \in {0, 1}
        /\ loaded_buffer # full_rx_buffer => overrun /\ WholeFrames >= 2 * FRAME_SIZE
    /\ ~overrun =>
        /\ audio_task \in {"frame", "sample"} =>
                ~audio_notified /\ enqueued = WholeFrames - FRAME_SIZE + index
        /\ audio_task \in {"start", "waiting"} /\ audio_notified => enqueued = WholeFrames - FRAME_SIZE
        /\ audio_task \in {"start", "waiting"} /\ ~audio_notified => enqueued = WholeFrames

AudioInv == BuffersInv /\ TaskInv

(* A frame is a whole number of interrupts.                                *)
LEMMA FrameOfInterrupts ==
    /\ NUMBER_INTERRUPTS_FOR_FRAME \in Nat \ {0}
    /\ \A c \in 0 .. NUMBER_INTERRUPTS_FOR_FRAME - 1 :
        /\ c * RX_FIFO_TRIG_LEVEL \in Nat
        /\ (c + 1) * RX_FIFO_TRIG_LEVEL = c * RX_FIFO_TRIG_LEVEL + RX_FIFO_TRIG_LEVEL
        /\ c * RX_FIFO_TRIG_LEVEL + RX_FIFO_TRIG_LEVEL <= FRAME_SIZE
        /\ c + 1 >= NUMBER_INTERRUPTS_FOR_FRAME
             => c * RX_FIFO_TRIG_LEVEL + RX_FIFO_TRIG_LEVEL = FRAME_SIZE
<1> DEFINE N == NUMBER_INTERRUPTS_FOR_FRAME
           L == RX_FIFO_TRIG_LEVEL
<1>1. L \in Nat \ {0} /\ FRAME_SIZE \in Nat \ {0} /\ FRAME_SIZE % L = 0
  BY AudioAssumption
<1>2. N \in Int /\ FRAME_SIZE = L * N
  BY <1>1, Z3 DEF NUMBER_INTERRUPTS_FOR_FRAME
<1>3. N > 0
  <2> SUFFICES ASSUME N <= 0 PROVE FALSE
    BY <1>2
  <2>1. L * N <= 0
    BY <1>1, <1>2
  <2> QED
    BY <1>1, <1>2, <2>1
<1> HIDE DEF N, L
<1>4. ASSUME NEW c \in 0 .. N - 1
      PROVE  /\ c * L \in Nat /\ (c + 1) * L = c * L + L /\ c * L + L <= FRAME_SIZE
             /\ c + 1 >= N => c * L + L = FRAME_SIZE
  <2>1. c * L \in Nat /\ (c + 1) * L = c * L + L
    BY <1>1, <1>2
  <2>2. N * L = FRAME_SIZE
    BY <1>1, <1>2
  <2>3. (c + 1) * L <= N * L
    <3>1. (N - (c + 1)) * L >= 0
      BY <1>1, <1>2
    <3> QED
      BY <1>1, <1>2, <3>1
  <2>4. c + 1 >= N => c + 1 = N
    BY <1>2
  <2> QED
    BY <2>1, <2>2, <2>3, <2>4
<1> QED
  BY <1>2, <1>3, <1>4 DEF N, L

LEMMA InterruptKeepsAudio ==
    ASSUME AudioInv, PdmInterrupt PROVE AudioInv'
<1> DEFINE L == RX_FIFO_TRIG_LEVEL
           first == frame_counter * L
           w == WholeFrames
<1>1. /\ L \in Nat \ {0} /\ FRAME_SIZE \in Nat \ {0}
      /\ first \in Nat /\ (frame_counter + 1) * L = first + L /\ first + L <= FRAME_SIZE
      /\ frame_counter + 1 >= NUMBER_INTERRUPTS_FOR_FRAME => first + L = FRAME_SIZE
      /\ NUMBER_INTERRUPTS_FOR_FRAME \in Nat \ {0}
  BY AudioAssumption, FrameOfInterrupts DEF AudioInv, BuffersInv
<1>2. heard = w + first /\ w \in Nat /\ frame_counter \in Nat
  BY <1>1 DEF WholeFrames, AudioInv, BuffersInv
<1>3. heard' = heard + L /\ heard' \in Int
  BY <1>1, <1>2 DEF PdmInterrupt
<1>4. /\ audio_buffer' \in [{0, 1} -> [0 .. FRAME_SIZE - 1 -> Int]]
      /\ audio_buffer'[full_rx_buffer] = audio_buffer[full_rx_buffer]
      /\ \A i \in 0 .. first + L - 1 : audio_buffer'[active_rx_buffer][i] = w + 1 + i
      /\ \A i \in first + L .. FRAME_SIZE - 1 :
            audio_buffer'[active_rx_buffer][i] = audio_buffer[active_rx_buffer][i]
  <2> DEFINE old == audio_buffer[active_rx_buffer]
             new == [i \in 0 .. FRAME_SIZE - 1 |->
                        IF i \in first .. first + L - 1 THEN heard + 1 + (i - first) ELSE old[i]]
  <2>1. /\ active_rx_buffer \in {0, 1} /\ full_rx_buffer = 1 - active_rx_buffer
        /\ audio_buffer \in [{0, 1} -> [0 .. FRAME_SIZE - 1 -> Int]]
        /\ \A i \in 0 .. first - 1 : old[i] = w + 1 + i
    BY DEF AudioInv, BuffersInv
  <2>2. old \in [0 .. FRAME_SIZE - 1 -> Int]
    BY <2>1
  <2>3. DOMAIN old = 0 .. FRAME_SIZE - 1
    BY <2>2
  <2>4. audio_buffer' = [audio_buffer EXCEPT ![active_rx_buffer] = new]
    BY <2>3, Zenon DEF PdmInterrupt
  <2>5. new \in [0 .. FRAME_SIZE - 1 -> Int]
    BY <1>1, <1>2, <2>2
  <2>6. \A i \in 0 .. first + L - 1 : new[i] = w + 1 + i
    BY <1>1, <1>2, <2>1, <2>2
  <2>7. \A i \in first + L .. FRAME_SIZE - 1 : new[i] = old[i]
    BY <1>1, <1>2
  <2> HIDE DEF new
  <2> QED
    BY <2>1, <2>4, <2>5, <2>6, <2>7
<1>5. CASE frame_counter + 1 >= NUMBER_INTERRUPTS_FOR_FRAME
  <2>1. /\ active_rx_buffer' = full_rx_buffer /\ full_rx_buffer' = active_rx_buffer
        /\ frame_counter' = 0 /\ audio_notified' = TRUE
        /\ overrun' = (overrun \/ audio_task # "waiting" \/ audio_notified)
    BY <1>5 DEF PdmInterrupt, ExchangeBuffers
  <2>2. WholeFrames' = w + FRAME_SIZE /\ 0 * L = 0
    BY <1>1, <1>2, <1>3, <1>5, <2>1 DEF WholeFrames
  <2>3. BuffersInv'
    <3>1. active_rx_buffer' \in {0, 1} /\ full_rx_buffer' = 1 - active_rx_buffer'
      BY <2>1 DEF AudioInv, BuffersInv
    <3>2. \A i \in 0 .. FRAME_SIZE - 1 :
            audio_buffer'[full_rx_buffer'][i] = WholeFrames' - FRAME_SIZE + 1 + i
      BY <1>1, <1>2, <1>4, <1>5, <2>1, <2>2
    <3>3. WholeFrames' >= FRAME_SIZE
      BY <1>1, <1>2, <2>2
    <3>4. WholeFrames' >= 2 * FRAME_SIZE => \A i \in 0 .. FRAME_SIZE - 1 :
            audio_buffer'[active_rx_buffer'][i] = WholeFrames' - 2 * FRAME_SIZE + 1 + i
      <4> SUFFICES ASSUME WholeFrames' >= 2 * FRAME_SIZE, NEW i \in 0 .. FRAME_SIZE - 1
                   PROVE  audio_buffer'[active_rx_buffer'][i] = WholeFrames' - 2 * FRAME_SIZE + 1 + i
        OBVIOUS
      <4>1. w # 0
        BY <1>1, <1>2, <2>2
      <4>2. audio_buffer[full_rx_buffer][i] = w - FRAME_SIZE + 1 + i
        BY <4>1 DEF AudioInv, BuffersInv
      <4> QED
        BY <1>1, <1>2, <1>4, <2>1, <2>2, <4>2
    <3>5. frame_counter' * L = 0
      BY <2>1, <2>2
    <3> QED
      BY <1>1, <1>2, <1>3, <1>4, <2>1, <2>2, <3>1, <3>2, <3>3, <3>4, <3>5 DEF BuffersInv
  <2>4. TaskInv'
    <3>1. UNCHANGED <<audio_task, index, loaded_buffer, enqueued>>
      BY DEF PdmInterrupt
    <3>2. audio_task # "start"
      BY DEF PdmInterrupt
    <3>3. audio_task' \in {"frame", "sample"} => index' < FRAME_SIZE
      BY <3>1 DEF AudioInv, TaskInv
    <3>4. WholeFrames' # 0
      BY <1>1, <1>2, <2>2
    <3>5. ASSUME ~overrun'
          PROVE  audio_task' = "waiting" /\ enqueued' = WholeFrames' - FRAME_SIZE
      <4>1. ~overrun /\ audio_task = "waiting" /\ ~audio_notified
        BY <2>1, <3>5
      <4>2. enqueued = w
        BY <1>2, <4>1 DEF AudioInv, TaskInv
      <4> QED
        BY <1>1, <1>2, <2>2, <3>1, <4>1, <4>2
    <3>6. /\ audio_task' \in {"start", "waiting", "frame", "sample"} /\ index' \in Nat
          /\ audio_notified' \in BOOLEAN /\ overrun' \in BOOLEAN
      BY <2>1, <3>1 DEF AudioInv, TaskInv
    <3>7. ASSUME audio_task' = "sample"
          PROVE  /\ loaded_buffer' \in {0, 1}
                 /\ overrun' /\ WholeFrames' >= 2 * FRAME_SIZE
      <4>1. audio_task = "sample" /\ loaded_buffer \in {0, 1} /\ w # 0
        BY <3>1, <3>7 DEF AudioInv, TaskInv
      <4>2. w >= FRAME_SIZE
        BY <4>1 DEF AudioInv, BuffersInv
      <4>3. overrun'
        BY <2>1, <4>1, Zenon
      <4>4. w + FRAME_SIZE >= 2 * FRAME_SIZE
        <5> HIDE DEF w
        <5> QED
          BY <1>1, <1>2, <4>2
      <4> QED
        BY <2>2, <3>1, <4>1, <4>3, <4>4
    <3> QED
      BY <2>1, <3>3, <3>4, <3>5, <3>6, <3>7 DEF TaskInv
  <2> QED
    BY <2>3, <2>4 DEF AudioInv
<1>6. CASE ~(frame_counter + 1 >= NUMBER_INTERRUPTS_FOR_FRAME)
  <2>1. /\ frame_counter' = frame_counter + 1
        /\ UNCHANGED <<active_rx_buffer, full_rx_buffer, audio_notified, overrun>>
    BY <1>6 DEF PdmInterrupt
  <2>2. WholeFrames' = w
    BY <1>1, <1>2, <1>3, <2>1 DEF WholeFrames
  <2>3. BuffersInv'
    <3>1. active_rx_buffer' \in {0, 1} /\ full_rx_buffer' = 1 - active_rx_buffer'
      BY <2>1 DEF AudioInv, BuffersInv
    <3>2. frame_counter' \in 0 .. NUMBER_INTERRUPTS_FOR_FRAME - 1
      BY <1>1, <1>2, <1>6, <2>1
    <3>3. \A i \in 0 .. frame_counter' * L - 1 :
            audio_buffer'[active_rx_buffer'][i] = WholeFrames' + 1 + i
      BY <1>1, <1>4, <2>1, <2>2
    <3>4. WholeFrames' # 0 => \A i \in 0 .. FRAME_SIZE - 1 :
            audio_buffer'[full_rx_buffer'][i] = WholeFrames' - FRAME_SIZE + 1 + i
      BY <1>4, <2>1, <2>2 DEF AudioInv, BuffersInv
    <3>5. WholeFrames' # 0 => WholeFrames' >= FRAME_SIZE
      BY <2>2 DEF AudioInv, BuffersInv
    <3>6. WholeFrames' >= 2 * FRAME_SIZE =>
            \A i \in frame_counter' * L .. FRAME_SIZE - 1 :
                audio_buffer'[active_rx_buffer'][i] = WholeFrames' - 2 * FRAME_SIZE + 1 + i
      <4>1. w >= 2 * FRAME_SIZE => \A i \in first .. FRAME_SIZE - 1 :
                audio_buffer[active_rx_buffer][i] = w - 2 * FRAME_SIZE + 1 + i
        BY DEF AudioInv, BuffersInv
      <4>2. frame_counter' * L = first + L
        BY <1>1, <2>1
      <4>3. \A i \in first + L .. FRAME_SIZE - 1 : i \in first .. FRAME_SIZE - 1
        BY <1>1
      <4> HIDE DEF first, w, L
      <4> QED
        BY <1>4, <2>1, <2>2, <4>1, <4>2, <4>3
    <3> QED
      BY <1>2, <1>3, <1>4, <2>2, <3>1, <3>2, <3>3, <3>4, <3>5, <3>6 DEF BuffersInv
  <2>4. TaskInv'
    <3>1. UNCHANGED <<audio_task, index, loaded_buffer, enqueued>>
      BY DEF PdmInterrupt
    <3> QED
      BY <2>1, <2>2, <3>1 DEF AudioInv, TaskInv
  <2> QED
    BY <2>3, <2>4 DEF AudioInv
<1> QED
  BY <1>5, <1>6

LEMMA AudioInductive == Spec => []AudioInv
<1>1. Init => AudioInv
  <2> SUFFICES ASSUME Init PROVE AudioInv
    OBVIOUS
  <2>1. /\ audio_buffer = [b \in {0, 1} |-> Silence] /\ active_rx_buffer = 0
        /\ full_rx_buffer = 1 /\ frame_counter = 0 /\ heard = 0
        /\ audio_task = "start" /\ audio_notified = FALSE /\ index = 0
        /\ enqueued = 0 /\ overrun = FALSE
    BY DEF Init, AudioInit
  <2>2. FRAME_SIZE \in Nat \ {0} /\ 0 * RX_FIFO_TRIG_LEVEL = 0 /\ WholeFrames = 0
    BY <2>1, AudioAssumption DEF WholeFrames
  <2>3. audio_buffer \in [{0, 1} -> [0 .. FRAME_SIZE - 1 -> Int]]
    BY <2>1 DEF Silence
  <2>4. BuffersInv
    BY <2>1, <2>2, <2>3, FrameOfInterrupts DEF BuffersInv
  <2>5. TaskInv
    <3>1. /\ enqueued = WholeFrames /\ ~audio_notified /\ index \in Nat
          /\ audio_task # "frame" /\ audio_task # "sample"
      BY <2>1, <2>2
    <3> QED
      BY <2>1, <3>1, Zenon DEF TaskInv
  <2> QED
    BY <2>4, <2>5 DEF AudioInv
<1>2. AudioInv /\ [Next]_vars => AudioInv'
  <2> SUFFICES ASSUME AudioInv, [Next]_vars PROVE AudioInv'
    OBVIOUS
  <2>1. CASE UNCHANGED audioVars
    BY <2>1 DEF audioVars, audioBufferVars, audioTaskVars, AudioInv, BuffersInv, TaskInv,
                WholeFrames
  <2>2. ASSUME UNCHANGED audioBufferVars PROVE BuffersInv' /\ WholeFrames' = WholeFrames
    BY <2>2 DEF audioBufferVars, AudioInv, BuffersInv, WholeFrames
  <2>3. CASE StartAudio
    BY <2>2, <2>3 DEF StartAudio, AudioInv, TaskInv
  <2>4. CASE TakeFrame
    <3>1. BuffersInv' /\ WholeFrames' = WholeFrames
      BY <2>2, <2>4 DEF TakeFrame
    <3>2. /\ audio_task = "waiting" /\ audio_notified /\ audio_task' = "frame"
          /\ audio_notified' = FALSE /\ index' = 0 /\ UNCHANGED <<enqueued, overrun>>
      BY <2>4 DEF TakeFrame
    <3>3. FRAME_SIZE \in Nat \ {0} /\ WholeFrames \in Nat
      BY AudioAssumption DEF AudioInv, BuffersInv
    <3>4. WholeFrames # 0 /\ overrun \in BOOLEAN
      BY <3>2 DEF AudioInv, TaskInv
    <3>5. ~overrun => enqueued = WholeFrames - FRAME_SIZE + 0
      BY <3>2, <3>3 DEF AudioInv, TaskInv
    <3>6. index' \in Nat /\ index' < FRAME_SIZE /\ enqueued' = enqueued
          /\ (~overrun => enqueued' = WholeFrames' - FRAME_SIZE + index')
      BY <3>1, <3>2, <3>3, <3>5
    <3>7. TaskInv'
      BY <3>1, <3>2, <3>4, <3>6, Zenon DEF TaskInv
    <3> QED
      BY <3>1, <3>7 DEF AudioInv
  <2>6. CASE LoadBuffer
    <3>1. BuffersInv' /\ WholeFrames' = WholeFrames /\ full_rx_buffer' = full_rx_buffer
      BY <2>2, <2>6 DEF LoadBuffer, audioBufferVars
    <3>2. /\ audio_task = "frame" /\ audio_task' = "sample" /\ loaded_buffer' = full_rx_buffer
          /\ UNCHANGED <<audio_notified, index, enqueued, overrun>>
      BY <2>6 DEF LoadBuffer
    <3>3. full_rx_buffer \in {0, 1}
      BY DEF AudioInv, BuffersInv
    <3>4. TaskInv'
      BY <3>1, <3>2, <3>3 DEF AudioInv, TaskInv
    <3> QED
      BY <3>1, <3>4 DEF AudioInv
  <2>5. CASE EnqueueSample
    <3>1. BuffersInv' /\ WholeFrames' = WholeFrames
      BY <2>2, <2>5 DEF EnqueueSample
    <3>2. /\ audio_task = "sample" /\ index' = index + 1
          /\ audio_task' = IF index + 1 < FRAME_SIZE THEN "frame" ELSE "waiting"
          /\ enqueued' = audio_buffer[loaded_buffer][index]
          /\ UNCHANGED <<audio_notified, overrun>>
      BY <2>5 DEF EnqueueSample
    <3>3. FRAME_SIZE \in Nat \ {0} /\ WholeFrames \in Nat
      BY AudioAssumption DEF AudioInv, BuffersInv
    <3>4. index \in 0 .. FRAME_SIZE - 1 /\ WholeFrames # 0
      BY <3>2, <3>3 DEF AudioInv, TaskInv
    <3>5. ~overrun => enqueued' = WholeFrames - FRAME_SIZE + 1 + index
      BY <3>2, <3>4 DEF AudioInv, BuffersInv, TaskInv
    <3>6. TaskInv'
      BY <3>1, <3>2, <3>3, <3>4, <3>5 DEF AudioInv, TaskInv
    <3> QED
      BY <3>1, <3>6 DEF AudioInv
  <2> QED
    BY <2>1, <2>3, <2>4, <2>5, <2>6, InterruptKeepsAudio, OneTaskSteps DEF AudioNext
<1> QED
  BY <1>1, <1>2, PTL DEF Spec

(* However pdm_pcm_event_handler falls between the task's steps, the loads *)
(* of the pointer and of the sample included, the model gets each sample   *)
(* once and in order as long as no frame is full before the last one is    *)
(* done, and otherwise nothing older than the frame before the newest      *)
(* whole one.                                                              *)
THEOREM SamplesInOrder == Spec => HeardInOrder
<1>1. AudioInv /\ [Next]_vars
        => [audio_task = "sample" /\ index' = index + 1
            => /\ ~overrun => enqueued' = enqueued + 1
               /\ loaded_buffer = full_rx_buffer
                    => enqueued' \in WholeFrames - FRAME_SIZE + 1 .. WholeFrames
               /\ enqueued' \in WholeFrames - 2 * FRAME_SIZE + 1 .. heard]_audioVars
  <2> SUFFICES ASSUME AudioInv, [Next]_vars, audioVars' # audioVars,
                      audio_task = "sample", index' = index + 1
               PROVE  /\ ~overrun => enqueued' = enqueued + 1
                      /\ loaded_buffer = full_rx_buffer
                           => enqueued' \in WholeFrames - FRAME_SIZE + 1 .. WholeFrames
                      /\ enqueued' \in WholeFrames - 2 * FRAME_SIZE + 1 .. heard
    OBVIOUS
  <2> DEFINE F == FRAME_SIZE
             w == WholeFrames
             first == frame_counter * RX_FIFO_TRIG_LEVEL
  <2>1. /\ F \in Nat \ {0} /\ w \in Nat /\ w # 0 /\ w >= F /\ index \in 0 .. F - 1
        /\ first \in Nat /\ heard = w + first
    <3>1. frame_counter \in 0 .. NUMBER_INTERRUPTS_FOR_FRAME - 1 /\ heard \in Int
      BY DEF AudioInv, BuffersInv
    <3>2. first \in Nat
      BY <3>1, FrameOfInterrupts
    <3>3. heard = w + first
      BY <3>1, <3>2 DEF WholeFrames
    <3> QED
      BY <3>2, <3>3, AudioAssumption DEF AudioInv, TaskInv, BuffersInv
  <2>2. EnqueueSample
    <3>1. AudioNext
      BY OneTaskSteps
    <3>2. index' # index
      BY <2>1
    <3> QED
      BY <3>1, <3>2 DEF AudioNext, StartAudio, PdmInterrupt, TakeFrame, LoadBuffer
  <2>3. enqueued' = audio_buffer[loaded_buffer][index]
    BY <2>2 DEF EnqueueSample
  <2>4. ~overrun => loaded_buffer = full_rx_buffer /\ enqueued = w - F + index
    BY DEF AudioInv, TaskInv
  <2>5. CASE loaded_buffer = full_rx_buffer
    <3>1. enqueued' = w - F + 1 + index
      BY <2>1, <2>3, <2>5 DEF AudioInv, BuffersInv
    <3> HIDE DEF F, w, first
    <3>2. /\ enqueued' \in w - F + 1 .. w /\ enqueued' \in w - 2 * F + 1 .. heard
          /\ ~overrun => enqueued' = enqueued + 1
      BY <2>1, <2>4, <3>1
    <3> QED
      BY <3>2 DEF F, w
  <2>6. CASE loaded_buffer # full_rx_buffer
    <3>1. overrun /\ w >= 2 * F /\ loaded_buffer = active_rx_buffer
      BY <2>6 DEF AudioInv, TaskInv, BuffersInv
    <3>2. CASE index < first
      <4>1. index \in 0 .. first - 1
        BY <2>1, <3>2
      <4>2. enqueued' = w + 1 + index
        BY <2>3, <3>1, <4>1 DEF AudioInv, BuffersInv
      <4> HIDE DEF F, w, first
      <4>3. enqueued' \in w - 2 * F + 1 .. heard
        BY <2>1, <3>2, <4>2
      <4> QED
        BY <2>6, <3>1, <4>3 DEF F, w
    <3>3. CASE ~(index < first)
      <4>1. index \in first .. F - 1
        BY <2>1, <3>3
      <4>2. enqueued' = w - 2 * F + 1 + index
        BY <2>3, <3>1, <4>1 DEF AudioInv, BuffersInv
      <4> HIDE DEF F, w, first
      <4>3. enqueued' \in w - 2 * F + 1 .. heard
        BY <2>1, <4>2
      <4> QED
        BY <2>6, <3>1, <4>3 DEF F, w
    <3> QED
      BY <3>2, <3>3
  <2> QED
    BY <2>5, <2>6
<1> QED
  BY <1>1, AudioInductive, PTL DEF Spec, HeardInOrder

-----------------------------------------------------------------------------
(* Radar: where the samples of a frame belong.                             *)

LEMMA FrameSize ==
    /\ NUM_RX_ANTENNAS \in Nat \ {0} /\ SamplesPerAntenna \in Nat \ {0}
    /\ NUM_SAMPLES_PER_FRAME \in Nat \ {0}
    /\ NUM_SAMPLES_PER_FRAME = NUM_RX_ANTENNAS * SamplesPerAntenna
<1>1. NUM_RX_ANTENNAS \in Nat \ {0} /\ SamplesPerAntenna \in Nat \ {0}
  BY RadarAssumption
<1> QED
  BY <1>1 DEF NUM_SAMPLES_PER_FRAME

(* The samples of the interleaved frame and the cells of the sorted one.   *)
LEMMA PlaceOf ==
    /\ \A i \in Positions : Place(i) \in Positions
    /\ \A i, j \in Positions : Place(i) = Place(j) => i = j
    /\ \A s \in 0 .. SamplesPerAntenna - 1, a \in 0 .. NUM_RX_ANTENNAS - 1 :
            /\ s * NUM_RX_ANTENNAS + a \in Positions
            /\ Place(s * NUM_RX_ANTENNAS + a) = s + a * SamplesPerAntenna
    /\ \A p \in Positions : \E s \in 0 .. SamplesPerAntenna - 1, a \in 0 .. NUM_RX_ANTENNAS - 1 :
            p = s + a * SamplesPerAntenna
<1> DEFINE A == NUM_RX_ANTENNAS
           S == SamplesPerAntenna
<1>1. A \in Nat \ {0} /\ S \in Nat \ {0} /\ Positions = 0 .. A * S - 1 /\ A * S = S * A
  BY FrameSize DEF Positions
<1> HIDE DEF A, S
<1>2. /\ \A i \in Positions : i = A * (i \div A) + (i % A) /\ i \div A \in 0 .. S - 1
                               /\ i % A \in 0 .. A - 1
      /\ \A q \in 0 .. S - 1, r \in 0 .. A - 1 :
            A * q + r \in Positions /\ (A * q + r) \div A = q /\ (A * q + r) % A = r
  <2>1. Positions = 0 .. S * A - 1
    BY <1>1
  <2>2. /\ \A i \in 0 .. S * A - 1 :
            i = A * (i \div A) + (i % A) /\ i \div A \in 0 .. S - 1 /\ i % A \in 0 .. A - 1
        /\ \A q \in 0 .. S - 1, r \in 0 .. A - 1 :
            /\ A * q + r \in 0 .. S * A - 1
            /\ (A * q + r) \div A = q /\ (A * q + r) % A = r
    BY <1>1, PairInTable, Zenon
  <2> QED
    BY <2>1, <2>2, Zenon
<1>3. /\ \A i \in Positions : i = S * (i \div S) + (i % S) /\ i \div S \in 0 .. A - 1
                               /\ i % S \in 0 .. S - 1
      /\ \A q \in 0 .. A - 1, r \in 0 .. S - 1 :
            S * q + r \in Positions /\ (S * q + r) \div S = q /\ (S * q + r) % S = r
  <2>1. Positions = 0 .. A * S - 1
    BY <1>1
  <2>2. /\ \A i \in 0 .. A * S - 1 :
            i = S * (i \div S) + (i % S) /\ i \div S \in 0 .. A - 1 /\ i % S \in 0 .. S - 1
        /\ \A q \in 0 .. A - 1, r \in 0 .. S - 1 :
            /\ S * q + r \in 0 .. A * S - 1
            /\ (S * q + r) \div S = q /\ (S * q + r) % S = r
    BY <1>1, PairInTable, Zenon
  <2> QED
    BY <2>1, <2>2, Zenon
<1>4. ASSUME NEW i \in Positions
      PROVE  Place(i) = S * (i % A) + (i \div A)
  BY <1>1, <1>2 DEF Place, A, S
<1>5. \A i \in Positions : Place(i) \in Positions
  BY <1>2, <1>3, <1>4
<1>6. ASSUME NEW i \in Positions, NEW j \in Positions, Place(i) = Place(j) PROVE i = j
  <2>1. i % A = j % A /\ i \div A = j \div A
    <3>1. (S * (i % A) + (i \div A)) \div S = i % A /\ (S * (i % A) + (i \div A)) % S = i \div A
      BY <1>2, <1>3
    <3>2. (S * (j % A) + (j \div A)) \div S = j % A /\ (S * (j % A) + (j \div A)) % S = j \div A
      BY <1>2, <1>3
    <3> QED
      BY <1>4, <1>6, <3>1, <3>2
  <2> QED
    BY <1>2, <2>1
<1>7. ASSUME NEW s \in 0 .. S - 1, NEW a \in 0 .. A - 1
      PROVE  s * A + a \in Positions /\ Place(s * A + a) = s + a * S
  <2>1. s * A + a = A * s + a /\ S * a + s = s + a * S
    BY <1>1
  <2>2. A * s + a \in Positions /\ (A * s + a) \div A = s /\ (A * s + a) % A = a
    BY <1>2
  <2> QED
    BY <1>4, <2>1, <2>2
<1>8. ASSUME NEW p \in Positions
      PROVE  \E s \in 0 .. S - 1, a \in 0 .. A - 1 : p = s + a * S
  <2>1. p \div S \in 0 .. A - 1 /\ p % S \in 0 .. S - 1
    BY <1>3
  <2>2. p = (p % S) + (p \div S) * S
    BY <1>1, <1>3
  <2> QED
    BY <2>1, <2>2
<1> QED
  BY <1>5, <1>6, <1>7, <1>8 DEF A, S

-----------------------------------------------------------------------------
(* Radar: radar_task does not run while processing_task has work, so what  *)
(* slim_algo reads is the frame that was sorted last, whole.               *)
Active == processing_task \in {"reading", "inferring"}

Whole(f) == \A i \in Positions : gesture_frame[Place(i)] = <<f, i>>

SeenOf(k) == {<<p, gesture_frame[p]>> : p \in 0 .. k - 1}

SortingInv ==
    /\ taken \in Nat
    /\ DOMAIN gesture_frame = Positions
    /\ radar_task \in {"start", "polling", "available", "fifo", "sorting"}
    /\ processing_task \in {"none", "waiting", "reading", "inferring"}
    /\ radar_notified \in BOOLEAN
    /\ radar_task = "sorting" =>
        /\ bgt60_buffer = taken /\ taken # 0
        /\ sorted \in 0 .. NUM_SAMPLES_PER_FRAME
        /\ \A i \in 0 .. sorted - 1 : gesture_frame[Place(i)] = <<taken, i>>
    /\ radar_notified = TRUE \/ Active => radar_task = "polling" /\ taken # 0 /\ Whole(taken)
    /\ Active => radar_notified = FALSE

ReadingInv ==
    /\ processing_task = "reading" =>
        \E m \in 0 .. NUM_RX_ANTENNAS - 1 : seen = SeenOf(m * SamplesPerAntenna)
    /\ processing_task = "inferring" => seen = SeenOf(NUM_SAMPLES_PER_FRAME)

RadarInv == SortingInv /\ ReadingInv

(* As many pairs as cells.                                                 *)
LEMMA SeenCount ==
    ASSUME NEW k \in Nat PROVE IsFiniteSet(SeenOf(k)) /\ Cardinality(SeenOf(k)) = k
<1> DEFINE f == [p \in 0 .. k - 1 |-> <<p, gesture_frame[p]>>]
<1>1. f \in [0 .. k - 1 -> SeenOf(k)]
  BY DEF SeenOf
<1>2. \A p, q \in 0 .. k - 1 : f[p] = f[q] => p = q
  OBVIOUS
<1>3. \A e \in SeenOf(k) : \E p \in 0 .. k - 1 : f[p] = e
  BY DEF SeenOf
<1>4. f \in Bijection(0 .. k - 1, SeenOf(k))
  BY <1>1, <1>2, <1>3 DEF Bijection, Injection, Surjection, IsInjective
<1>5. ExistsBijection(0 .. k - 1, SeenOf(k))
  BY <1>4 DEF ExistsBijection
<1>6. IsFiniteSet(0 .. k - 1) /\ Cardinality(0 .. k - 1) = k
  BY FS_Interval
<1> QED
  BY <1>5, <1>6, FS_Bijection

(* radar_task does not step while there is work for processing_task.       *)
LEMMA Preempted ==
    ASSUME RadarRuns PROVE radar_notified # TRUE /\ ~Active
<1>1. ~(TASK_PRIORITY.radar >= TASK_PRIORITY.processing)
  BY DEF TASK_PRIORITY
<1>2. ~ProcessingReady
  BY <1>1, Zenon DEF RadarRuns
<1> QED
  BY <1>2, Zenon DEF ProcessingReady, Active

LEMMA RadarInitially == Init => RadarInv
<1> SUFFICES ASSUME Init PROVE RadarInv
  OBVIOUS
<1>1. /\ taken = 0 /\ gesture_frame = [p \in Positions |-> <<0, p>>]
      /\ radar_task = "start" /\ processing_task = "none" /\ radar_notified = FALSE
  BY DEF Init, RadarInit
<1>2. DOMAIN gesture_frame = Positions
  BY <1>1
<1>3. SortingInv
  BY <1>1, <1>2 DEF SortingInv, Active
<1> QED
  BY <1>1, <1>3 DEF RadarInv, ReadingInv

(* A step of radar_task, or of the interrupt.                              *)
LEMMA RadarTaskKeeps ==
    ASSUME RadarInv, RadarTask PROVE RadarInv'
<1>1. CASE StartRadar
  <2>1. /\ radar_task = "start" /\ UNCHANGED <<gesture_frame, taken, radar_notified>>
        /\ radar_task' \in {"start", "polling"}
        /\ processing_task' \in {processing_task, "waiting"}
    BY <1>1 DEF StartRadar
  <2>2. ~Active /\ radar_notified = FALSE /\ ~Active'
    BY <2>1 DEF RadarInv, SortingInv, Active
  <2>3. SortingInv'
    BY <2>1, <2>2 DEF RadarInv, SortingInv
  <2>4. ReadingInv'
    BY <2>2 DEF ReadingInv, Active
  <2> QED
    BY <2>3, <2>4 DEF RadarInv
<1>2. ASSUME RadarRuns, UNCHANGED processingVars
      PROVE  ~Active /\ ~Active' /\ radar_notified = FALSE /\ ReadingInv'
             /\ processing_task' \in {"none", "waiting", "reading", "inferring"}
  <2>1. ~Active /\ radar_notified = FALSE
    BY <1>2, Preempted DEF RadarInv, SortingInv
  <2>2. ~Active'
    BY <1>2, <2>1 DEF processingVars, Active
  <2> QED
    BY <1>2, <2>1, <2>2 DEF processingVars, ReadingInv, Active, RadarInv, SortingInv
<1>3. CASE PollData \/ ClearAvailable
  <2>1. /\ RadarRuns /\ UNCHANGED <<gesture_frame, taken, radar_notified, processingVars>>
        /\ radar_task' \in {"available", "fifo"}
    BY <1>3 DEF PollData, ClearAvailable
  <2>2. ~Active' /\ radar_notified' = FALSE /\ ReadingInv'
        /\ processing_task' \in {"none", "waiting", "reading", "inferring"}
    BY <1>2, <2>1
  <2>3. SortingInv'
    BY <2>1, <2>2 DEF RadarInv, SortingInv
  <2> QED
    BY <2>2, <2>3 DEF RadarInv
<1>4. CASE GetFifoData
  <2>1. /\ RadarRuns /\ UNCHANGED <<gesture_frame, radar_notified, processingVars>>
        /\ radar_task = "fifo"
        /\ \/ /\ taken' = taken + 1 /\ bgt60_buffer' = taken + 1
              /\ radar_task' = "sorting" /\ sorted' = 0
           \/ UNCHANGED <<taken, bgt60_buffer, radar_task, sorted>>
    BY <1>4 DEF GetFifoData
  <2>2. ~Active' /\ radar_notified' = FALSE /\ ReadingInv'
        /\ processing_task' \in {"none", "waiting", "reading", "inferring"}
    BY <1>2, <2>1
  <2>3. taken' \in Nat /\ (radar_task' = "sorting" => taken' = bgt60_buffer' /\ taken' # 0 /\ sorted' = 0)
    BY <2>1 DEF RadarInv, SortingInv
  <2>4. SortingInv'
    BY <2>1, <2>2, <2>3, FrameSize DEF RadarInv, SortingInv
  <2> QED
    BY <2>2, <2>4 DEF RadarInv
<1>5. CASE DeinterleaveAntennas
  <2>1. /\ RadarRuns /\ UNCHANGED <<taken, bgt60_buffer, radar_task, radar_notified, processingVars>>
        /\ radar_task = "sorting" /\ sorted < NUM_SAMPLES_PER_FRAME
        /\ gesture_frame' = [gesture_frame EXCEPT ![Place(sorted)] = <<bgt60_buffer, sorted>>]
        /\ sorted' = sorted + 1
    BY <1>5 DEF DeinterleaveAntennas
  <2>2. ~Active' /\ radar_notified' = FALSE /\ ReadingInv'
        /\ processing_task' \in {"none", "waiting", "reading", "inferring"}
    BY <1>2, <2>1
  <2>3. /\ bgt60_buffer = taken /\ taken # 0 /\ sorted \in 0 .. NUM_SAMPLES_PER_FRAME
        /\ \A i \in 0 .. sorted - 1 : gesture_frame[Place(i)] = <<taken, i>>
        /\ DOMAIN gesture_frame = Positions /\ taken \in Nat
    BY <2>1 DEF RadarInv, SortingInv
  <2>4. sorted \in Positions /\ \A i \in 0 .. sorted : i \in Positions
    BY <2>1, <2>3, FrameSize DEF Positions
  <2>5. ASSUME NEW i \in 0 .. sorted PROVE gesture_frame'[Place(i)] = <<taken, i>>
    <3>1. CASE i = sorted
      BY <2>1, <2>3, <2>4, <3>1, PlaceOf
    <3>2. CASE i # sorted
      <4>1. Place(i) # Place(sorted) /\ i \in 0 .. sorted - 1
        BY <2>3, <2>4, <3>2, PlaceOf
      <4>2. Place(i) \in Positions
        BY <2>4, PlaceOf
      <4> QED
        BY <2>1, <2>3, <4>1, <4>2
    <3> QED
      BY <3>1, <3>2
  <2>6. sorted' \in 0 .. NUM_SAMPLES_PER_FRAME /\ DOMAIN gesture_frame' = Positions
        /\ 0 .. sorted' - 1 = 0 .. sorted
    BY <2>1, <2>3, FrameSize
  <2>7. SortingInv'
    BY <2>1, <2>2, <2>3, <2>5, <2>6 DEF SortingInv
  <2> QED
    BY <2>2, <2>7 DEF RadarInv
<1>6. CASE NotifyProcessing
  <2>1. /\ RadarRuns /\ UNCHANGED <<taken, gesture_frame, processingVars>>
        /\ radar_task = "sorting" /\ sorted = NUM_SAMPLES_PER_FRAME
        /\ radar_task' = "polling" /\ radar_notified' = TRUE
    BY <1>6 DEF NotifyProcessing
  <2>2. ~Active' /\ ReadingInv' /\ processing_task' \in {"none", "waiting", "reading", "inferring"}
    BY <1>2, <2>1
  <2>3. Whole(taken)'
    BY <2>1, FrameSize DEF RadarInv, SortingInv, Whole, Positions, NUM_SAMPLES_PER_FRAME, Place
  <2>4. SortingInv'
    BY <2>1, <2>2, <2>3 DEF RadarInv, SortingInv
  <2> QED
    BY <2>2, <2>4 DEF RadarInv
<1> QED
  BY <1>1, <1>3, <1>4, <1>5, <1>6 DEF RadarTask

LEMMA ProcessingKeeps ==
    ASSUME RadarInv, ProcessingTask PROVE RadarInv'
<1>1. CASE TakeGestureFrame
  <2>1. /\ processing_task = "waiting" /\ radar_notified = TRUE /\ UNCHANGED radarTaskVars
        /\ radar_notified' = FALSE /\ processing_task' = "reading" /\ seen' = {}
    BY <1>1 DEF TakeGestureFrame, RadarInv, SortingInv
  <2>2. radar_task = "polling" /\ taken # 0 /\ Whole(taken)
    BY <2>1 DEF RadarInv, SortingInv
  <2>3. Whole(taken)' /\ Active'
    BY <2>1, <2>2 DEF Whole, radarTaskVars, Place, Active
  <2>4. SortingInv'
    BY <2>1, <2>2, <2>3 DEF RadarInv, SortingInv, radarTaskVars
  <2>5. ReadingInv'
    <3>1. 0 * SamplesPerAntenna = 0 /\ 0 \in 0 .. NUM_RX_ANTENNAS - 1
      BY FrameSize
    <3>2. SeenOf(0)' = {}
      BY DEF SeenOf
    <3> QED
      BY <2>1, <3>1, <3>2 DEF ReadingInv
  <2> QED
    BY <2>4, <2>5 DEF RadarInv
<1>2. CASE ReadAntenna
  <2>1. /\ processing_task = "reading" /\ UNCHANGED <<radar_notified, radarTaskVars>>
        /\ seen' = seen \cup {<<p, gesture_frame[p]>> :
                p \in Cardinality(seen) .. Cardinality(seen) + SamplesPerAntenna - 1}
        /\ processing_task' = IF Cardinality(seen') = NUM_SAMPLES_PER_FRAME
                              THEN "inferring" ELSE "reading"
    BY <1>2 DEF ReadAntenna
  <2>2. PICK m \in 0 .. NUM_RX_ANTENNAS - 1 : seen = SeenOf(m * SamplesPerAntenna)
    BY <2>1 DEF RadarInv, ReadingInv
  <2> DEFINE k == m * SamplesPerAntenna
  <2>3. k \in Nat /\ (m + 1) * SamplesPerAntenna = k + SamplesPerAntenna /\ SamplesPerAntenna \in Nat \ {0}
    BY FrameSize
  <2>4. Cardinality(seen) = k
    BY <2>2, <2>3, SeenCount
  <2> HIDE DEF k
  <2>5. seen' = SeenOf(k + SamplesPerAntenna)
    <3>1. 0 .. (k + SamplesPerAntenna) - 1 = (0 .. k - 1) \cup (k .. k + SamplesPerAntenna - 1)
      BY <2>3
    <3>2. seen = {<<p, gesture_frame[p]>> : p \in 0 .. k - 1}
      BY <2>2 DEF SeenOf, k
    <3>3. seen' = seen \cup {<<p, gesture_frame[p]>> : p \in k .. k + SamplesPerAntenna - 1}
      BY <2>1, <2>4
    <3>4. SeenOf(k + SamplesPerAntenna) =
            {<<p, gesture_frame[p]>> : p \in (0 .. k - 1) \cup (k .. k + SamplesPerAntenna - 1)}
      BY <3>1, Zenon DEF SeenOf
    <3> QED
      BY <3>2, <3>3, <3>4, Zenon
  <2>6. Cardinality(seen') = k + SamplesPerAntenna
    BY <2>3, <2>5, SeenCount
  <2>7. SeenOf(k + SamplesPerAntenna)' = SeenOf(k + SamplesPerAntenna)
    BY <2>1 DEF SeenOf, radarTaskVars, k
  <2>8. ReadingInv'
    <3>1. CASE k + SamplesPerAntenna = NUM_SAMPLES_PER_FRAME
      <4>1. processing_task' = "inferring"
        BY <2>1, <2>6, <3>1
      <4>2. SeenOf(NUM_SAMPLES_PER_FRAME)' = SeenOf(NUM_SAMPLES_PER_FRAME)
        BY <2>1 DEF SeenOf, radarTaskVars
      <4> QED
        BY <2>5, <3>1, <4>1, <4>2 DEF ReadingInv
    <3>2. CASE k + SamplesPerAntenna # NUM_SAMPLES_PER_FRAME
      <4>1. processing_task' = "reading"
        BY <2>1, <2>6, <3>2
      <4>2. m + 1 \in 0 .. NUM_RX_ANTENNAS - 1
        <5>1. m + 1 # NUM_RX_ANTENNAS
          BY <2>3, <3>2, FrameSize DEF k
        <5> QED
          BY <5>1, FrameSize
      <4>3. seen' = SeenOf((m + 1) * SamplesPerAntenna)'
        BY <2>1, <2>3, <2>5 DEF SeenOf, radarTaskVars
      <4> QED
        BY <4>1, <4>2, <4>3 DEF ReadingInv
    <3> QED
      BY <3>1, <3>2
  <2>9. SortingInv'
    <3>1. Active /\ Active'
      BY <2>1 DEF Active
    <3>2. Whole(taken)'
      BY <2>1, <3>1 DEF RadarInv, SortingInv, Whole, radarTaskVars, Place
    <3>3. processing_task' \in {"reading", "inferring"}
      BY <2>1
    <3> QED
      BY <2>1, <3>1, <3>2, <3>3 DEF RadarInv, SortingInv, radarTaskVars
  <2> QED
    BY <2>8, <2>9 DEF RadarInv
<1>3. CASE Infer
  <2>1. /\ processing_task = "inferring" /\ processing_task' = "waiting"
        /\ UNCHANGED <<radar_notified, radarTaskVars>>
    BY <1>3 DEF Infer
  <2>2. Active /\ ~Active' /\ radar_notified' = FALSE
    BY <2>1 DEF Active, RadarInv, SortingInv
  <2>3. SortingInv'
    BY <2>1, <2>2 DEF RadarInv, SortingInv, radarTaskVars
  <2>4. ReadingInv'
    BY <2>1 DEF ReadingInv
  <2> QED
    BY <2>3, <2>4 DEF RadarInv
<1> QED
  BY <1>1, <1>2, <1>3 DEF ProcessingTask

LEMMA RadarInductive == Spec => []RadarInv
<1>1. RadarInv /\ [Next]_vars => RadarInv'
  <2> SUFFICES ASSUME RadarInv, [Next]_vars PROVE RadarInv'
    OBVIOUS
  <2>1. CASE RadarInterrupt \/ UNCHANGED radarVars
    <3>1. UNCHANGED <<radar_notified, gesture_frame, taken, bgt60_buffer, sorted, radar_task,
                      processing_task, seen>>
      BY <2>1 DEF RadarInterrupt, radarVars, radarTaskVars, processingVars
    <3>2. Active' = Active /\ Whole(taken)' = Whole(taken)
      BY <3>1 DEF Active, Whole, Place
    <3>3. SortingInv'
      BY <3>1, <3>2 DEF RadarInv, SortingInv, Place
    <3>4. ReadingInv'
      BY <3>1 DEF RadarInv, ReadingInv, SeenOf
    <3> QED
      BY <3>3, <3>4 DEF RadarInv
  <2> QED
    BY <2>1, RadarTaskKeeps, ProcessingKeeps, OneTaskSteps DEF RadarNext
<1> QED
  BY <1>1, RadarInitially, PTL DEF Spec

-----------------------------------------------------------------------------
(* Every sample of one frame, sorted: what the tables of PlaceOf give.     *)
LEMMA SeenIsSorted ==
    ASSUME DOMAIN gesture_frame = Positions, NEW f, Whole(f)
    PROVE  SeenOf(NUM_SAMPLES_PER_FRAME) = SortedFrame(f)
<1>1. \A s \in 0 .. SamplesPerAntenna - 1, a \in 0 .. NUM_RX_ANTENNAS - 1 :
        /\ s + a * SamplesPerAntenna \in Positions
        /\ gesture_frame[s + a * SamplesPerAntenna] = <<f, s * NUM_RX_ANTENNAS + a>>
  <2> TAKE s \in 0 .. SamplesPerAntenna - 1, a \in 0 .. NUM_RX_ANTENNAS - 1
  <2> DEFINE i == s * NUM_RX_ANTENNAS + a
  <2>1. i \in Positions /\ Place(i) = s + a * SamplesPerAntenna /\ Place(i) \in Positions
    BY PlaceOf
  <2>2. gesture_frame[Place(i)] = <<f, i>>
    BY <2>1, Zenon DEF Whole
  <2> QED
    BY <2>1, <2>2
<1>2. SeenOf(NUM_SAMPLES_PER_FRAME) \subseteq SortedFrame(f)
  <2> SUFFICES ASSUME NEW p \in Positions PROVE <<p, gesture_frame[p]>> \in SortedFrame(f)
    BY DEF SeenOf, Positions
  <2>1. PICK s \in 0 .. SamplesPerAntenna - 1, a \in 0 .. NUM_RX_ANTENNAS - 1 :
            p = s + a * SamplesPerAntenna
    BY PlaceOf
  <2>2. gesture_frame[p] = <<f, s * NUM_RX_ANTENNAS + a>>
    BY <1>1, <2>1
  <2> QED
    BY <2>1, <2>2 DEF SortedFrame
<1>3. SortedFrame(f) \subseteq SeenOf(NUM_SAMPLES_PER_FRAME)
  <2> SUFFICES ASSUME NEW s \in 0 .. SamplesPerAntenna - 1, NEW a \in 0 .. NUM_RX_ANTENNAS - 1
               PROVE  <<s + a * SamplesPerAntenna, <<f, s * NUM_RX_ANTENNAS + a>>>>
                        \in SeenOf(NUM_SAMPLES_PER_FRAME)
    BY DEF SortedFrame
  <2> DEFINE p == s + a * SamplesPerAntenna
  <2>1. p \in Positions /\ gesture_frame[p] = <<f, s * NUM_RX_ANTENNAS + a>>
    BY <1>1
  <2> QED
    BY <2>1, Zenon DEF SeenOf, Positions
<1> QED
  BY <1>2, <1>3

(* slim_algo works on one frame, with every sample at its antenna, however *)
(* many samples and antennas there are.                                    *)
THEOREM FrameSeenWhole == Spec => []OneFrameSeen
<1>1. RadarInv => OneFrameSeen
  <2> SUFFICES ASSUME RadarInv, processing_task = "inferring"
               PROVE  \E f \in 1 .. taken : seen = SortedFrame(f)
    BY DEF OneFrameSeen
  <2>1. seen = SeenOf(NUM_SAMPLES_PER_FRAME) /\ Active
    BY DEF RadarInv, ReadingInv, Active
  <2>2. Whole(taken) /\ taken \in Nat /\ taken # 0 /\ DOMAIN gesture_frame = Positions
    BY <2>1 DEF RadarInv, SortingInv
  <2>3. seen = SortedFrame(taken)
    BY <2>1, <2>2, SeenIsSorted
  <2> QED
    BY <2>2, <2>3
<1> QED
  BY <1>1, RadarInductive, PTL

-----------------------------------------------------------------------------
(* Counting frames: the one that was read last is worked on before the     *)
(* next is read, and, unless one came late, the flag says whether the      *)
(* sensor is a frame ahead.                                                *)
InWork == radar_notified = TRUE \/ Active \/ radar_task = "sorting"

CountInv ==
    /\ framed \in Nat /\ late \in BOOLEAN /\ data_available \in BOOLEAN
    /\ processed = IF InWork THEN taken - 1 ELSE taken
    /\ late = FALSE =>
        /\ radar_task \in {"start", "polling", "sorting"} =>
                framed = IF data_available = TRUE THEN taken + 1 ELSE taken
        /\ radar_task = "available" => data_available = TRUE /\ framed = taken + 1
        /\ radar_task = "fifo" => data_available = FALSE /\ framed = taken + 1

LEMMA InterruptCounts ==
    ASSUME RadarInv, CountInv, RadarInterrupt PROVE CountInv'
<1>1. /\ radar_task # "start" /\ framed' = framed + 1 /\ data_available' = TRUE
      /\ late' = (late \/ framed # taken)
      /\ UNCHANGED <<radar_notified, radar_task, taken, processing_task, processed>>
  BY DEF RadarInterrupt, radarTaskVars, processingVars
<1>2. InWork' = InWork
  BY <1>1 DEF InWork, Active
<1>3. late' \in BOOLEAN /\ (late' = FALSE => late = FALSE /\ framed = taken)
  BY <1>1, Zenon DEF CountInv
<1>4. late' = FALSE => /\ radar_task \in {"polling", "sorting"}
                       /\ framed' = taken' + 1
  <2> SUFFICES ASSUME late' = FALSE PROVE radar_task \in {"polling", "sorting"} /\ framed' = taken' + 1
    OBVIOUS
  <2>1. late = FALSE /\ framed = taken /\ taken \in Nat
    BY <1>3 DEF RadarInv, SortingInv
  <2>2. radar_task \notin {"available", "fifo"}
    BY <2>1 DEF CountInv
  <2> QED
    BY <1>1, <2>1, <2>2 DEF RadarInv, SortingInv
<1> QED
  BY <1>1, <1>2, <1>3, <1>4 DEF CountInv

LEMMA RadarTaskCounts ==
    ASSUME RadarInv, CountInv, RadarTask PROVE CountInv'
<1>1. taken \in Nat
  BY DEF RadarInv, SortingInv
<1>2. CASE StartRadar
  <2>1. /\ radar_task = "start" /\ UNCHANGED <<data_available, taken, framed, late, radar_notified, processed>>
        /\ radar_task' \in {"start", "polling"}
        /\ processing_task' \in {processing_task, "waiting"}
    BY <1>2 DEF StartRadar, sensorVars
  <2>2. ~InWork
    BY <2>1 DEF RadarInv, SortingInv, InWork
  <2>3. ~InWork'
    BY <2>1, <2>2 DEF InWork, Active
  <2> QED
    BY <2>1, <2>2, <2>3 DEF CountInv
<1>3. CASE PollData
  <2>1. /\ RadarRuns /\ radar_task = "polling" /\ radar_task' = "available"
        /\ UNCHANGED <<data_available, taken, framed, late, radar_notified, processing_task, processed>>
    BY <1>3 DEF PollData, sensorVars, processingVars
  <2>2. data_available = TRUE
    BY <1>3, Zenon DEF PollData, CountInv
  <2>3. InWork' = InWork
    BY <2>1 DEF InWork, Active
  <2> QED
    BY <2>1, <2>2, <2>3 DEF CountInv
<1>4. CASE ClearAvailable
  <2>1. /\ radar_task = "available" /\ radar_task' = "fifo" /\ data_available' = FALSE
        /\ UNCHANGED <<taken, framed, late, radar_notified, processing_task, processed>>
    BY <1>4 DEF ClearAvailable, sensorVars, processingVars
  <2>2. InWork' = InWork
    BY <2>1 DEF InWork, Active
  <2> QED
    BY <2>1, <2>2 DEF CountInv
<1>5. CASE GetFifoData
  <2>1. /\ RadarRuns /\ radar_task = "fifo"
        /\ \/ taken' = taken + 1 /\ radar_task' = "sorting"
           \/ UNCHANGED <<taken, radar_task>>
        /\ UNCHANGED <<data_available, framed, late, radar_notified, processing_task, processed>>
    BY <1>5 DEF GetFifoData, sensorVars, processingVars
  <2>2. ~InWork
    BY <2>1, Preempted DEF InWork
  <2>3. radar_task' = "sorting" => InWork'
    BY DEF InWork
  <2>4. radar_task' = radar_task => ~InWork'
    BY <2>1, <2>2 DEF InWork, Active
  <2> QED
    BY <1>1, <2>1, <2>2, <2>3, <2>4 DEF CountInv
<1>6. CASE DeinterleaveAntennas \/ NotifyProcessing
  <2>1. /\ radar_task = "sorting" /\ radar_task' \in {"sorting", "polling"}
        /\ UNCHANGED <<data_available, taken, framed, late, processing_task, processed>>
    BY <1>6 DEF DeinterleaveAntennas, NotifyProcessing, sensorVars, processingVars
  <2>2. InWork /\ InWork'
    BY <1>6 DEF DeinterleaveAntennas, NotifyProcessing, InWork
  <2> QED
    BY <2>1, <2>2 DEF CountInv
<1> QED
  BY <1>2, <1>3, <1>4, <1>5, <1>6 DEF RadarTask

(* The frame worked on is the one that was read last.                      *)
LEMMA InferTakesTheLast ==
    ASSUME RadarInv, CountInv, Infer
    PROVE  processed' = taken /\ processed = taken - 1
<1>1. processing_task = "inferring" /\ Active
  BY DEF Infer, Active
<1>2. seen = SeenOf(NUM_SAMPLES_PER_FRAME) /\ Whole(taken) /\ DOMAIN gesture_frame = Positions
  BY <1>1 DEF RadarInv, ReadingInv, SortingInv
<1>3. seen = SortedFrame(taken)
  BY <1>2, SeenIsSorted
<1>4. \A e \in seen : e[2][1] = taken
  BY <1>3 DEF SortedFrame
<1>5. processed' = taken
  BY <1>4 DEF Infer
<1> QED
  BY <1>1, <1>5 DEF CountInv, InWork

LEMMA ProcessingCounts ==
    ASSUME RadarInv, CountInv, ProcessingTask PROVE CountInv'
<1>1. CASE TakeGestureFrame \/ ReadAntenna
  <2>1. UNCHANGED <<data_available, taken, framed, late, radar_task, processed>>
    BY <1>1 DEF TakeGestureFrame, ReadAntenna, sensorVars, radarTaskVars
  <2>2. InWork
    <3>1. CASE TakeGestureFrame
      BY <3>1 DEF TakeGestureFrame, InWork, RadarInv, SortingInv
    <3>2. CASE ReadAntenna
      BY <3>2 DEF ReadAntenna, InWork, Active
    <3> QED
      BY <1>1, <3>1, <3>2
  <2>3. InWork'
    BY <1>1 DEF TakeGestureFrame, ReadAntenna, InWork, Active
  <2> QED
    BY <2>1, <2>2, <2>3 DEF CountInv
<1>2. CASE Infer
  <2>1. UNCHANGED <<data_available, radar_notified, taken, framed, late, radar_task>>
        /\ processing_task = "inferring" /\ processing_task' = "waiting"
    BY <1>2 DEF Infer, sensorVars, radarTaskVars
  <2>2. Active /\ ~Active'
    BY <2>1 DEF Active
  <2>3. ~InWork'
    BY <2>1, <2>2 DEF InWork, RadarInv, SortingInv
  <2>4. processed' = taken
    BY <1>2, InferTakesTheLast
  <2> QED
    BY <2>1, <2>3, <2>4 DEF CountInv
<1> QED
  BY <1>1, <1>2 DEF ProcessingTask

LEMMA CountInitially == Init => CountInv
<1> SUFFICES ASSUME Init PROVE CountInv
  OBVIOUS
<1>1. /\ taken = 0 /\ framed = 0 /\ processed = 0 /\ late = FALSE /\ data_available = FALSE
      /\ radar_task = "start" /\ processing_task = "none" /\ radar_notified = FALSE
  BY DEF Init, RadarInit
<1>2. ~InWork
  BY <1>1 DEF InWork, Active
<1> QED
  BY <1>1, <1>2 DEF CountInv

LEMMA CountStep ==
    ASSUME RadarInv, CountInv, [Next]_vars PROVE CountInv'
<1>1. CASE UNCHANGED radarVars
  <2>1. UNCHANGED <<data_available, radar_notified, framed, late, taken, radar_task,
                    processing_task, processed>>
    BY <1>1 DEF radarVars, sensorVars, radarTaskVars, processingVars
  <2>2. InWork' = InWork
    BY <2>1 DEF InWork, Active
  <2> QED
    BY <2>1, <2>2 DEF CountInv
<1> QED
  BY <1>1, InterruptCounts, RadarTaskCounts, ProcessingCounts, OneTaskSteps DEF RadarNext

(* Only Infer changes processed.                                           *)
LEMMA ProcessedStep ==
    ASSUME RadarInv, CountInv, [Next]_vars
    PROVE  processed' # processed => processed' = processed + 1
<1>1. CASE Infer
  <2>1. taken \in Nat
    BY DEF RadarInv, SortingInv
  <2> QED
    BY <1>1, <2>1, InferTakesTheLast
<1>2. CASE RadarInterrupt \/ RadarTask
  BY <1>2 DEF RadarInterrupt, RadarTask, StartRadar, PollData, ClearAvailable, GetFifoData,
              DeinterleaveAntennas, NotifyProcessing, processingVars
<1>3. CASE TakeGestureFrame \/ ReadAntenna \/ UNCHANGED radarVars
  BY <1>3 DEF TakeGestureFrame, ReadAntenna, radarVars, processingVars
<1> QED
  BY <1>1, <1>2, <1>3, OneTaskSteps DEF RadarNext, ProcessingTask

(* As long as each frame is taken before the next one comes, every frame   *)
(* is worked on, once and in order: no interrupt is lost between the test  *)
(* of the flag and its clearing, and no notification is merged.            *)
THEOREM FramesAllProcessed == Spec => EveryFrameProcessed
<1>1. RadarInv /\ CountInv => (RadarIdle /\ ~late => processed = framed)
  <2> SUFFICES ASSUME RadarInv, CountInv, RadarIdle, ~late PROVE processed = framed
    OBVIOUS
  <2>1. radar_task = "polling" /\ processing_task = "waiting"
    BY DEF RadarIdle
  <2>2. radar_notified = FALSE /\ data_available = FALSE /\ late = FALSE
    BY Zenon DEF RadarIdle, RadarInv, SortingInv, CountInv
  <2>3. ~InWork
    BY <2>1, <2>2 DEF InWork, Active
  <2> QED
    BY <2>1, <2>2, <2>3 DEF CountInv
<1>2. RadarInv /\ CountInv /\ [Next]_vars
        => [processed' # processed /\ ~late => processed' = processed + 1]_radarVars
  BY ProcessedStep
<1>3. RadarInv /\ CountInv /\ [Next]_vars => CountInv'
  BY CountStep
<1> QED
  BY <1>1, <1>2, <1>3, CountInitially, RadarInductive, PTL DEF Spec, EveryFrameProcessed
=============================================================================
