---------------------------- MODULE IpcDetection ----------------------------
(***************************************************************************)
(* The detection channel from the CM55 (sensor and model) to the CM33      *)
(* (telemetry): shared/source/COMPONENT_CM55/cm55_ipc_communication.c,     *)
(* shared/source/COMPONENT_CM33/cm33_ipc_communication.c, the producers    *)
(* that fill the shared payload and the application task that publishes.   *)
(*                                                                         *)
(* Verdicts of the model on the CM55 are numbered 1, 2, ... and `verdict'  *)
(* records the label of each.  A payload is the pair of the verdicts its   *)
(* two fields were written from: the code writes (and copies) label_id and *)
(* label one after the other, so the two may differ.  0 is the all-zero    *)
(* payload the variables start with.                                       *)
(*                                                                         *)
(* The pipe carries a POINTER to cm55_msg_data: nothing is copied until    *)
(* the interrupt handler of the CM33 runs.  The pipe itself is a vendor    *)
(* library, modelled from how the code calls it.                           *)
(***************************************************************************)
EXTENDS Naturals, Sequences

CONSTANTS
    LabelIds,     \* label ids the model on the CM55 can output; 0 is "nothing"
    MaxVerdicts,  \* bound: verdicts in one behaviour
    Paced,        \* TRUE: the CM33 serves each message within one producer period
    configMAX_SYSCALL_INTERRUPT_PRIORITY,  \* BASEPRI inside a critical section
    NvicPrioBits  \* priority bits the interrupt controller implements

ASSUME ConstantsAssumption ==
    /\ LabelIds \subseteq Nat
    /\ 0 \in LabelIds
    /\ MaxVerdicts \in Nat
    /\ Paced \in BOOLEAN
    /\ configMAX_SYSCALL_INTERRUPT_PRIORITY \in {63, 64}  \* 0x3F and 0x40
    /\ NvicPrioBits \in 3 .. 8                            \* Armv8-M Mainline

VARIABLES
    verdict,        \* history: the label of every verdict so far
    cm55_msg_data,  \* the shared payload the CM55 fills and points the pipe at
    producer,       \* where the sensor task of the CM55 is
    busy,           \* the sender's endpoint waits for the release interrupt
    locked,         \* the channel's lock: a message is in it
    released,       \* the release interrupt is pending on the CM55
    isr,            \* where the CM33's pipe interrupt handler is
    ipc_recv_msg,
    ipc_last_detection_payload,
    ipc_has_saved_detection,
    ipc_has_received_message,
    app,            \* where app_task is
    gotReceived,    \* what the last cm33_ipc_has_received_message call read
    payload,        \* publish_telemetry's local copy
    gotDetection,   \* what the last get-and-clear call returned
    lastTaken       \* history: the last verdict get-and-clear returned TRUE for

cm55Vars == <<verdict, cm55_msg_data, producer>>
pipeVars == <<busy, locked, released>>
recvVars == <<ipc_recv_msg, ipc_last_detection_payload,
              ipc_has_saved_detection, ipc_has_received_message>>
appVars  == <<app, gotReceived, payload, gotDetection, lastTaken>>
vars     == <<cm55Vars, pipeVars, isr, recvVars, appVars>>

(* Mutant: the pipe interrupt at the highest priority, which no section masks. *)
PipePriorityZero == 0

(* taskENTER_CRITICAL sets BASEPRI to configMAX_SYSCALL_INTERRUPT_PRIORITY, *)
(* which masks the interrupts whose priority is numerically at least it.   *)
(* The hardware keeps only the top NvicPrioBits of an 8-bit priority.      *)
CY_IPC_INTR_CYPIPE_PRIOR_EP1 == 1
PriorityStep == 2 ^ (8 - NvicPrioBits)
CriticalMasksPipe ==
    CY_IPC_INTR_CYPIPE_PRIOR_EP1 >= configMAX_SYSCALL_INTERRUPT_PRIORITY \div PriorityStep

(* Payloads written from the verdicts so far.                              *)
Written == [label_id : 0 .. Len(verdict), label : 0 .. Len(verdict)]
Zeroed  == [label_id |-> 0, label |-> 0]

(* The label_id field of a payload, as the code reads it.                  *)
LabelId(p) == IF p.label_id = 0 THEN 0 ELSE verdict[p.label_id]

Init ==
    /\ verdict = <<>>
    /\ cm55_msg_data = Zeroed
    /\ producer = "idle"
    /\ busy = FALSE /\ locked = FALSE /\ released = FALSE
    /\ isr = "idle"
    /\ ipc_recv_msg = Zeroed
    /\ ipc_last_detection_payload = Zeroed
    /\ ipc_has_saved_detection = FALSE
    /\ ipc_has_received_message = FALSE
    /\ app = "wait"
    /\ gotReceived = FALSE
    /\ payload = Zeroed
    /\ gotDetection = FALSE
    /\ lastTaken = 0

-----------------------------------------------------------------------------
(* The CM55: a new verdict is written into the shared payload in place.    *)

(* Nothing of the previous message is left in the pipe.                    *)
PipeQuiet == ~locked /\ ~busy /\ ~released

(* payload->label_id = ...                                                 *)
WriteLabelId(l) ==
    /\ producer = "idle"
    /\ Len(verdict) < MaxVerdicts
    /\ Paced => PipeQuiet
    /\ verdict' = Append(verdict, l)
    /\ cm55_msg_data' = [cm55_msg_data EXCEPT !.label_id = Len(verdict) + 1]
    /\ producer' = "label"
    /\ UNCHANGED <<pipeVars, isr, recvVars, appVars>>

(* strcpy(payload->label, ...)                                             *)
WriteLabel ==
    /\ producer = "label"
    /\ cm55_msg_data' = [cm55_msg_data EXCEPT !.label = Len(verdict)]
    /\ producer' = "send"
    /\ UNCHANGED <<verdict, pipeVars, isr, recvVars, appVars>>

(* Cy_IPC_Pipe_SendMessage refuses while the endpoint waits for a release  *)
(* or another message holds the channel.                                   *)
CanSend == ~busy /\ ~locked

SendToCm33 ==
    /\ producer = "send"
    /\ CanSend
    /\ locked' = TRUE
    /\ busy' = TRUE
    /\ producer' = "idle"
    /\ UNCHANGED <<verdict, cm55_msg_data, released, isr, recvVars, appVars>>

(* Mutant: the status of the send is ignored.                              *)
RefusalIgnored ==
    /\ producer = "send"
    /\ ~CanSend
    /\ producer' = "idle"
    /\ UNCHANGED <<verdict, cm55_msg_data, pipeVars, isr, recvVars, appVars>>

(* handle_app_error: interrupts off, the core loops for ever.              *)
SendRefused ==
    /\ producer = "send"
    /\ ~CanSend
    /\ producer' = "halted"
    /\ UNCHANGED <<verdict, cm55_msg_data, pipeVars, isr, recvVars, appVars>>

(* The CM55's pipe interrupt: the message was released.                    *)
ReleaseInterrupt ==
    /\ released
    /\ producer # "halted"
    /\ released' = FALSE
    /\ busy' = FALSE
    /\ UNCHANGED <<cm55Vars, locked, isr, recvVars, appVars>>

-----------------------------------------------------------------------------
(* The CM33's pipe interrupt.  It preempts the tasks of its own core, those *)
(* in a critical section too unless the section masks it, but not the      *)
(* CM55, which may write cm55_msg_data between the two copies.             *)

InCriticalSection ==
    app \in {"received", "saved_id", "saved_label", "saved_clear", "last_id", "last_label"}

CopyLabelId ==
    /\ isr = "idle"
    /\ locked
    /\ CriticalMasksPipe => ~InCriticalSection
    /\ ipc_recv_msg' = [ipc_recv_msg EXCEPT !.label_id = cm55_msg_data.label_id]
    /\ isr' = "label"
    /\ UNCHANGED <<cm55Vars, pipeVars, ipc_last_detection_payload,
                   ipc_has_saved_detection, ipc_has_received_message, appVars>>

CopyLabel ==
    /\ isr = "label"
    /\ ipc_recv_msg' = [ipc_recv_msg EXCEPT !.label = cm55_msg_data.label]
    /\ isr' = "record"
    /\ UNCHANGED <<cm55Vars, pipeVars, ipc_last_detection_payload,
                   ipc_has_saved_detection, ipc_has_received_message, appVars>>

(* Mutants of the rest of the callback: the first detection is kept until  *)
(* it is fetched; only detections count as a message; only the id of a     *)
(* detection is saved; every message is saved as a detection.              *)
RecordFirst ==
    /\ IF LabelId(ipc_recv_msg) # 0 /\ ~ipc_has_saved_detection
       THEN /\ ipc_last_detection_payload' = ipc_recv_msg
            /\ ipc_has_saved_detection' = TRUE
       ELSE UNCHANGED <<ipc_last_detection_payload, ipc_has_saved_detection>>
    /\ ipc_has_received_message' = TRUE
    /\ UNCHANGED ipc_recv_msg

RecordDetectionsOnly ==
    /\ IF LabelId(ipc_recv_msg) # 0
       THEN /\ ipc_last_detection_payload' = ipc_recv_msg
            /\ ipc_has_saved_detection' = TRUE
            /\ ipc_has_received_message' = TRUE
       ELSE UNCHANGED <<ipc_last_detection_payload, ipc_has_saved_detection,
                        ipc_has_received_message>>
    /\ UNCHANGED ipc_recv_msg

RecordIdOnly ==
    /\ IF LabelId(ipc_recv_msg) # 0
       THEN /\ ipc_last_detection_payload' =
                  [ipc_last_detection_payload EXCEPT !.label_id = ipc_recv_msg.label_id]
            /\ ipc_has_saved_detection' = TRUE
       ELSE UNCHANGED <<ipc_last_detection_payload, ipc_has_saved_detection>>
    /\ ipc_has_received_message' = TRUE
    /\ UNCHANGED ipc_recv_msg

RecordAll ==
    /\ ipc_last_detection_payload' = ipc_recv_msg
    /\ ipc_has_saved_detection' = TRUE
    /\ ipc_has_received_message' = TRUE
    /\ UNCHANGED ipc_recv_msg

(* The rest of cm33_msg_callback: remember a detection, and that something *)
(* came at all.                                                            *)
RecordMessage ==
    /\ IF LabelId(ipc_recv_msg) # 0
       THEN /\ ipc_last_detection_payload' = ipc_recv_msg
            /\ ipc_has_saved_detection' = TRUE
       ELSE UNCHANGED <<ipc_last_detection_payload, ipc_has_saved_detection>>
    /\ ipc_has_received_message' = TRUE
    /\ UNCHANGED ipc_recv_msg

(* The pipe then gives the channel back and raises the release interrupt.  *)
RecordAndRelease ==
    /\ isr = "record"
    /\ RecordMessage
    /\ locked' = FALSE
    /\ released' = TRUE
    /\ isr' = "idle"
    /\ UNCHANGED <<cm55Vars, busy, appVars>>

-----------------------------------------------------------------------------
(* app_task on the CM33.  No task runs during an interrupt, so every step   *)
(* is taken with the handler idle; a critical section is its reads and     *)
(* writes in order, and the interrupt decides whether it may come between. *)

AppStep(from, to) ==
    /\ isr = "idle"
    /\ app = from
    /\ app' = to
    /\ UNCHANGED <<cm55Vars, pipeVars, isr, ipc_recv_msg, ipc_last_detection_payload>>

(* cm33_ipc_has_received_message: reads the flag, then clears it.  app_task *)
(* yields and calls again while the answer is FALSE: that loop is a        *)
(* stuttering step when the flag was clear and stayed so, and loses the    *)
(* message when the interrupt came in between.                             *)
ReadReceived ==
    /\ AppStep("wait", "received")
    /\ gotReceived' = ipc_has_received_message
    /\ UNCHANGED <<ipc_has_saved_detection, ipc_has_received_message,
                   payload, gotDetection, lastTaken>>

(* Mutant: both flags are cleared.                                         *)
ClearBothFlags ==
    /\ AppStep("received", IF gotReceived THEN "setup" ELSE "wait")
    /\ ipc_has_received_message' = FALSE
    /\ ipc_has_saved_detection' = FALSE
    /\ UNCHANGED <<gotReceived, payload, gotDetection, lastTaken>>

ClearReceived ==
    /\ AppStep("received", IF gotReceived THEN "setup" ELSE "wait")
    /\ ipc_has_received_message' = FALSE
    /\ UNCHANGED <<gotReceived, ipc_has_saved_detection, payload, gotDetection, lastTaken>>

(* Wi-Fi, time, SDK and first connection; a failure ends the application.  *)
SetupAndConnect ==
    /\ \E to \in {"get", "done"} : AppStep("setup", to)
    /\ UNCHANGED <<gotReceived, ipc_has_saved_detection, ipc_has_received_message,
                   payload, gotDetection, lastTaken>>

(* Mutant: the other flag is tested.                                       *)
TestOtherFlag ==
    /\ AppStep("get", IF ipc_has_received_message THEN "saved_id" ELSE "last_id")
    /\ UNCHANGED <<gotReceived, ipc_has_saved_detection, ipc_has_received_message,
                   payload, gotDetection, lastTaken>>

(* cm33_ipc_safe_get_and_clear_cached_detection, called by                 *)
(* publish_telemetry, which sends the payload whatever the call returned   *)
(* and keeps nothing else of it.                                           *)
TestSaved ==
    /\ AppStep("get", IF ipc_has_saved_detection THEN "saved_id" ELSE "last_id")
    /\ UNCHANGED <<gotReceived, ipc_has_saved_detection, ipc_has_received_message,
                   payload, gotDetection, lastTaken>>

CopyTo(field, from) ==
    /\ payload' = [payload EXCEPT ![field] = from[field]]
    /\ UNCHANGED <<gotReceived, ipc_has_saved_detection, ipc_has_received_message, lastTaken>>

CopySaved ==
    \/ /\ AppStep("saved_id", "saved_label")
       /\ CopyTo("label_id", ipc_last_detection_payload)
       /\ UNCHANGED gotDetection
    \/ /\ AppStep("saved_label", "saved_clear")
       /\ CopyTo("label", ipc_last_detection_payload)
       /\ UNCHANGED gotDetection

(* Mutant: the flag stays set.                                             *)
KeepSaved ==
    /\ AppStep("saved_clear", "poll")
    /\ gotDetection' = TRUE
    /\ lastTaken' = payload.label_id
    /\ UNCHANGED <<gotReceived, ipc_has_saved_detection, ipc_has_received_message, payload>>

ClearSaved ==
    /\ AppStep("saved_clear", "poll")
    /\ ipc_has_saved_detection' = FALSE
    /\ gotDetection' = TRUE
    /\ lastTaken' = payload.label_id
    /\ UNCHANGED <<gotReceived, ipc_has_received_message, payload>>

CopyLast ==
    \/ /\ AppStep("last_id", "last_label")
       /\ CopyTo("label_id", ipc_recv_msg)
       /\ UNCHANGED gotDetection
    \/ /\ AppStep("last_label", "poll")
       /\ CopyTo("label", ipc_recv_msg)
       /\ gotDetection' = FALSE

(* iotconnect_sdk_poll_inbound_mq, then the next round of the loop; the    *)
(* rounds are limited and a lost connection may not come back.             *)
PollInbound ==
    /\ \E to \in {"get", "done"} : AppStep("poll", to)
    /\ UNCHANGED <<gotReceived, ipc_has_saved_detection, ipc_has_received_message,
                   payload, gotDetection, lastTaken>>

-----------------------------------------------------------------------------
Producer     == (\E l \in LabelIds : WriteLabelId(l)) \/ WriteLabel \/ SendToCm33 \/ SendRefused
PipeIsr      == CopyLabelId \/ CopyLabel \/ RecordAndRelease
AppTask      == \/ ReadReceived \/ ClearReceived \/ SetupAndConnect
                \/ TestSaved \/ CopySaved \/ ClearSaved \/ CopyLast \/ PollInbound

Next == Producer \/ ReleaseInterrupt \/ PipeIsr \/ AppTask

Spec == Init /\ [][Next]_vars

(* Both handlers are enabled before the first message and a pending        *)
(* interrupt is taken as soon as no critical section masks it (strong: the *)
(* waiting loop opens and closes a section for ever); a task that can run  *)
(* is scheduled, and the sensor loop never ends.                           *)
Fairness ==
    /\ WF_vars(Producer)
    /\ WF_vars(ReleaseInterrupt)
    /\ SF_vars(PipeIsr)
    /\ WF_vars(AppTask)

FairSpec == Spec /\ Fairness

-----------------------------------------------------------------------------
(* Every variable stays within its type, and the numbers in a payload name *)
(* verdicts that exist.                                                    *)
TypeOK ==
    /\ verdict \in Seq(LabelIds) /\ Len(verdict) <= MaxVerdicts
    /\ cm55_msg_data \in Written
    /\ ipc_recv_msg \in Written
    /\ ipc_last_detection_payload \in Written
    /\ payload \in Written
    /\ cm55_msg_data.label_id = Len(verdict)
    /\ producer \in {"idle", "label", "send", "halted"}
    /\ isr \in {"idle", "label", "record"}
    /\ app \in {"wait", "received", "setup", "get", "saved_id", "saved_label",
                "saved_clear", "last_id", "last_label", "poll", "done"}
    /\ busy \in BOOLEAN /\ locked \in BOOLEAN /\ released \in BOOLEAN
    /\ ipc_has_saved_detection \in BOOLEAN
    /\ ipc_has_received_message \in BOOLEAN
    /\ gotReceived \in BOOLEAN
    /\ gotDetection \in BOOLEAN
    /\ lastTaken \in 0 .. Len(verdict)

(* The newest detection among the first n verdicts is number m; 0: none.   *)
IsLatestDetection(m, n) ==
    /\ m \in 0 .. n
    /\ m # 0 => verdict[m] # 0
    /\ \A i \in 1 .. n : i > m => verdict[i] = 0

(* Neither the handler nor the application is in the middle of the cache.  *)
CacheQuiet == isr = "idle" /\ ~InCriticalSection

(* A pending detection and a detection already handed out account for the  *)
(* newest detection of everything received: whatever the order of messages *)
(* and calls, no detection disappears except behind a newer one.  The      *)
(* header: "the application can get the last recorded/cached detection".   *)
LatestDetectionKept ==
    CacheQuiet => IsLatestDetection(IF ipc_has_saved_detection
                                    THEN ipc_last_detection_payload.label_id
                                    ELSE lastTaken,
                                    ipc_recv_msg.label_id)

(* With a paced producer the cached id and text come from one verdict.     *)
CacheCoherent ==
    ipc_last_detection_payload.label_id = ipc_last_detection_payload.label

(* The comment above ipc_recv_msg: a task that copies between              *)
(* taskENTER_CRITICAL and taskEXIT_CRITICAL gets a copy of one message.    *)
PayloadCoherent == ~InCriticalSection => payload.label_id = payload.label

(* However fast the producer is, the cached id and text come from the same *)
(* or from neighbouring verdicts: the refusal of a second send stops the   *)
(* CM55 before it can run further ahead of the handler's copy.             *)
TornByAtMostOne ==
    /\ ipc_last_detection_payload.label_id <= ipc_last_detection_payload.label + 1
    /\ ipc_last_detection_payload.label <= ipc_last_detection_payload.label_id + 1

(* Verdicts whose message the pipe has accepted.                           *)
Accepted == IF producer = "idle" THEN Len(verdict) ELSE Len(verdict) - 1

(* A message that the pipe accepted has reached the CM33, or a newer one   *)
(* in its place, by the time the channel is free again: when a refused     *)
(* send halts the CM55, the refused verdict is all that can be missing.    *)
AcceptedIsReceived ==
    ~locked => ipc_recv_msg.label_id >= Accepted /\ ipc_recv_msg.label >= Accepted

(* Where the critical section masks the interrupt, what                    *)
(* cm33_ipc_safe_get_and_clear_cached_detection returns is, however fast   *)
(* the producer is, the whole payload that is in the cache at that moment: *)
(* a tear can only come from the handler's own copy.                       *)
CopyIsWhole ==
    [][/\ app = "saved_clear" /\ app' = "poll" => payload' = ipc_last_detection_payload
       /\ app = "last_label" /\ app' = "poll" => payload' = ipc_recv_msg]_vars

(* However fast the producer is and whenever the interrupt comes, the call *)
(* returns TRUE only with the id of a detection.                           *)
SavedIsDetection == (app = "poll" /\ gotDetection) => LabelId(payload) # 0

(* With a paced producer a verdict is handed out as a detection at most    *)
(* once and never after a later one, even where an interrupt comes between *)
(* the steps of the call.                                                  *)
DetectionTakenOnce ==
    [][(app = "saved_clear" /\ app' = "poll") => lastTaken' > lastTaken]_vars

(* The application gets past its start-up wait: where the critical section *)
(* masks the interrupt, the first message cannot be missed.                *)
AppStarts == <>(app = "setup")

(* A saved detection, or a newer one, is handed to the application unless  *)
(* it has ended.                                                           *)
SavedIsTaken ==
    \A n \in 1 .. MaxVerdicts :
        (ipc_has_saved_detection /\ ipc_last_detection_payload.label_id = n)
            ~> (lastTaken >= n \/ app = "done")

(* What the header promises of the cache: an atomic one-place latch.       *)
Latch == INSTANCE DetectionLatch WITH
            pending <- IF ipc_has_saved_detection
                       THEN ipc_last_detection_payload.label_id ELSE 0,
            newest  <- IF ipc_has_saved_detection
                       THEN ipc_last_detection_payload.label_id ELSE lastTaken

(* Where the critical section masks the interrupt and the producer is      *)
(* paced, the channel implements that latch.                               *)
ImplementsLatch == Latch!Spec
=============================================================================
