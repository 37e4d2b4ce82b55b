------------------------ MODULE IpcDetection_proofs ------------------------
(***************************************************************************)
(* Proofs about the detection channel, for every set of labels and every   *)
(* number of verdicts.                                                     *)
(***************************************************************************)
EXTENDS IpcDetection, TLAPS

(* Appending a verdict lengthens the sequence by one and leaves the        *)
(* earlier verdicts alone.                                                 *)
LEMMA AppendVerdict ==
    ASSUME NEW s \in Seq(LabelIds), NEW l \in LabelIds
    PROVE  /\ Append(s, l) \in Seq(LabelIds)
           /\ Len(Append(s, l)) = Len(s) + 1
           /\ \A i \in 1 .. Len(s) : Append(s, l)[i] = s[i]
OBVIOUS

(* Every variable stays within its type: the numbers in all copies of the  *)
(* payload name verdicts that exist (cm33_msg_callback and the copies of   *)
(* the application, whatever interrupts them).                             *)
THEOREM TypeCorrect == Spec => []TypeOK
<1> USE ConstantsAssumption DEF Written
<1>1. Init => TypeOK
  <2>1. <<>> \in Seq(LabelIds) /\ Len(<<>>) = 0
    OBVIOUS
  <2>2. Zeroed \in [label_id : 0 .. 0, label : 0 .. 0] /\ Zeroed.label_id = 0
    BY DEF Zeroed
  <2>3. ASSUME Init PROVE verdict \in Seq(LabelIds) /\ Len(verdict) = 0
    BY <2>1, <2>3 DEF Init
  <2>4. ASSUME Init
        PROVE  /\ busy \in BOOLEAN /\ locked \in BOOLEAN /\ released \in BOOLEAN
               /\ ipc_has_saved_detection \in BOOLEAN /\ ipc_has_received_message \in BOOLEAN
               /\ gotReceived \in BOOLEAN /\ gotDetection \in BOOLEAN
    BY <2>4 DEF Init
  <2>5. ASSUME Init PROVE Zeroed \in Written
    BY <2>2, <2>3, <2>5
  <2>6. ASSUME Init
        PROVE  /\ Len(verdict) <= MaxVerdicts
               /\ lastTaken \in 0 .. Len(verdict)
               /\ cm55_msg_data.label_id = Len(verdict)
    BY <2>2, <2>3, <2>6 DEF Init
  <2>7. QED
    BY <2>3, <2>4, <2>5, <2>6, Zenon DEF Init, TypeOK
<1>2. TypeOK /\ [Next]_vars => TypeOK'
  <2> SUFFICES ASSUME TypeOK, [Next]_vars PROVE TypeOK'
    OBVIOUS
  <2> USE DEF TypeOK, cm55Vars, pipeVars, recvVars, appVars
  <2>1. ASSUME NEW l \in LabelIds, WriteLabelId(l) PROVE TypeOK'
    BY <2>1, AppendVerdict DEF WriteLabelId
  <2>2. CASE WriteLabel
    BY <2>2 DEF WriteLabel
  <2>3. CASE SendToCm33
    BY <2>3 DEF SendToCm33
  <2>4. CASE SendRefused
    BY <2>4 DEF SendRefused
  <2>5. CASE ReleaseInterrupt
    <3>1. released' \in BOOLEAN /\ busy' \in BOOLEAN
      BY <2>5 DEF ReleaseInterrupt
    <3>2. QED
      BY <2>5, <3>1 DEF ReleaseInterrupt
  <2>6. CASE CopyLabelId
    BY <2>6 DEF CopyLabelId
  <2>7. CASE CopyLabel
    BY <2>7 DEF CopyLabel
  <2>8. CASE RecordAndRelease
    BY <2>8 DEF RecordAndRelease, RecordMessage
  <2>9. CASE ReadReceived
    BY <2>9 DEF ReadReceived, AppStep
  <2>10. CASE ClearReceived
    BY <2>10 DEF ClearReceived, AppStep
  <2>11. CASE SetupAndConnect
    BY <2>11 DEF SetupAndConnect, AppStep
  <2>12. CASE TestSaved
    BY <2>12 DEF TestSaved, AppStep
  <2>13. CASE CopySaved
    BY <2>13 DEF CopySaved, CopyTo, AppStep
  <2>14. CASE ClearSaved
    BY <2>14 DEF ClearSaved, AppStep
  <2>15. CASE CopyLast
    <3>1. payload' \in Written'
      BY <2>15 DEF CopyLast, CopyTo, AppStep
    <3>2. gotDetection' \in BOOLEAN
      BY <2>15 DEF CopyLast, CopyTo, AppStep
    <3>3. QED
      BY <2>15, <3>1, <3>2 DEF CopyLast, CopyTo, AppStep
  <2>16. CASE PollInbound
    BY <2>16 DEF PollInbound, AppStep
  <2>17. CASE UNCHANGED vars
    BY <2>17 DEF vars
  <2>18. QED
    BY <2>1, <2>2, <2>3, <2>4, <2>5, <2>6, <2>7, <2>8, <2>9, <2>10, <2>11, <2>12,
       <2>13, <2>14, <2>15, <2>16, <2>17 DEF Next, Producer, PipeIsr, AppTask
<1>3. QED
  BY <1>1, <1>2, PTL DEF Spec

-----------------------------------------------------------------------------
(* How far the CM55 can be ahead of the handler.  While a message is in    *)
(* the pipe the producer can write at most one more verdict, because its   *)
(* next send is refused and stops it.                                      *)
SharedInv ==
    cm55_msg_data.label = IF producer = "label" THEN Len(verdict) - 1 ELSE Len(verdict)

HandlerInv ==
    /\ isr # "idle" => locked
    /\ isr = "label" => ipc_recv_msg.label_id \in {Len(verdict) - 1, Len(verdict)}
    /\ isr = "label" /\ producer = "idle" => ipc_recv_msg.label_id = Len(verdict)
    /\ isr = "record" => /\ ipc_recv_msg.label_id <= ipc_recv_msg.label + 1
                         /\ ipc_recv_msg.label <= ipc_recv_msg.label_id + 1

TornInv == TypeOK /\ SharedInv /\ HandlerInv /\ TornByAtMostOne

LEMMA TornInductive == Spec => []TornInv
<1> USE ConstantsAssumption DEF Written
<1>1. Init => SharedInv /\ HandlerInv /\ TornByAtMostOne
  <2>1. Zeroed.label = 0 /\ Zeroed.label_id = 0 /\ Len(<<>>) = 0
    BY DEF Zeroed
  <2>2. QED
    BY <2>1 DEF Init, SharedInv, HandlerInv, TornByAtMostOne
<1>2. TypeOK /\ TypeOK' /\ TornInv /\ [Next]_vars
        => SharedInv' /\ HandlerInv' /\ TornByAtMostOne'
  <2> SUFFICES ASSUME TypeOK, TypeOK', TornInv, [Next]_vars
               PROVE  SharedInv' /\ HandlerInv' /\ TornByAtMostOne'
    OBVIOUS
  <2> USE DEF TypeOK, TornInv, SharedInv, HandlerInv, TornByAtMostOne,
              cm55Vars, pipeVars, recvVars, appVars
  <2>1. ASSUME NEW l \in LabelIds, WriteLabelId(l)
        PROVE  SharedInv' /\ HandlerInv' /\ TornByAtMostOne'
    BY <2>1, AppendVerdict DEF WriteLabelId
  <2>2. CASE WriteLabel
    BY <2>2 DEF WriteLabel
  <2>3. CASE SendToCm33
    BY <2>3 DEF SendToCm33, CanSend
  <2>4. CASE SendRefused
    BY <2>4 DEF SendRefused
  <2>5. CASE ReleaseInterrupt
    BY <2>5 DEF ReleaseInterrupt
  <2>6. CASE CopyLabelId
    BY <2>6 DEF CopyLabelId
  <2>7. CASE CopyLabel
    BY <2>7 DEF CopyLabel
  <2>8. CASE RecordAndRelease
    BY <2>8 DEF RecordAndRelease, RecordMessage
  <2>9. CASE AppTask
    <3>1. UNCHANGED <<cm55Vars, pipeVars, isr, ipc_recv_msg, ipc_last_detection_payload>>
      BY <2>9 DEF AppTask, ReadReceived, ClearReceived, SetupAndConnect, TestSaved,
         CopySaved, ClearSaved, CopyLast, PollInbound, AppStep
    <3>2. QED
      BY <3>1
  <2>10. CASE UNCHANGED vars
    BY <2>10 DEF vars
  <2>11. QED
    BY <2>1, <2>2, <2>3, <2>4, <2>5, <2>6, <2>7, <2>8, <2>9, <2>10 DEF Next, Producer, PipeIsr
<1>3. QED
  BY <1>1, <1>2, TypeCorrect, PTL DEF Spec, TornInv

(* However fast the CM55 sends, the cached id and text come from the same  *)
(* verdict or from neighbouring ones (cm33_msg_callback reading through    *)
(* the pipe's pointer while the next payload is written).                  *)
THEOREM TearIsBounded == Spec => []TornByAtMostOne
<1>1. TornInv => TornByAtMostOne
  BY DEF TornInv
<1>2. QED
  BY <1>1, TornInductive, PTL

-----------------------------------------------------------------------------
(* Once the handler has copied a field, what it has is not older than the  *)
(* message that holds the channel.                                         *)
ReceivedInv ==
    /\ (locked /\ isr = "idle") \/ ipc_recv_msg.label_id >= Accepted
    /\ (locked /\ isr \in {"idle", "label"}) \/ ipc_recv_msg.label >= Accepted

(* Whatever the pipe accepted has been received by the time the channel is *)
(* free (Cy_IPC_Pipe_SendMessage, cm33_msg_callback), also after a refusal *)
(* has halted the CM55 in handle_app_error.                                *)
THEOREM OnlyRefusedIsMissing == Spec => []AcceptedIsReceived
<1> USE ConstantsAssumption DEF Written
<1>1. Init => ReceivedInv
  <2>1. Zeroed.label = 0 /\ Zeroed.label_id = 0 /\ Len(<<>>) = 0
    BY DEF Zeroed
  <2>2. QED
    BY <2>1 DEF Init, ReceivedInv, Accepted
<1>2. TypeOK /\ TornInv /\ ReceivedInv /\ [Next]_vars => ReceivedInv'
  <2> SUFFICES ASSUME TypeOK, TornInv, ReceivedInv, [Next]_vars PROVE ReceivedInv'
    OBVIOUS
  <2> USE DEF TypeOK, TornInv, SharedInv, HandlerInv, ReceivedInv, Accepted,
              cm55Vars, pipeVars, recvVars, appVars
  <2>1. ASSUME NEW l \in LabelIds, WriteLabelId(l) PROVE ReceivedInv'
    BY <2>1, AppendVerdict DEF WriteLabelId
  <2>2. CASE WriteLabel
    BY <2>2 DEF WriteLabel
  <2>3. CASE SendToCm33
    BY <2>3 DEF SendToCm33, CanSend
  <2>4. CASE SendRefused
    BY <2>4 DEF SendRefused
  <2>5. CASE ReleaseInterrupt
    BY <2>5 DEF ReleaseInterrupt
  <2>6. CASE CopyLabelId
    BY <2>6 DEF CopyLabelId
  <2>7. CASE CopyLabel
    BY <2>7 DEF CopyLabel
  <2>8. CASE RecordAndRelease
    BY <2>8 DEF RecordAndRelease, RecordMessage
  <2>9. CASE AppTask
    <3>1. UNCHANGED <<cm55Vars, pipeVars, isr, ipc_recv_msg>>
      BY <2>9 DEF AppTask, ReadReceived, ClearReceived, SetupAndConnect, TestSaved,
         CopySaved, ClearSaved, CopyLast, PollInbound, AppStep
    <3>2. QED
      BY <3>1
  <2>10. CASE UNCHANGED vars
    BY <2>10 DEF vars
  <2>11. QED
    BY <2>1, <2>2, <2>3, <2>4, <2>5, <2>6, <2>7, <2>8, <2>9, <2>10 DEF Next, Producer, PipeIsr
<1>3. ReceivedInv => AcceptedIsReceived
  BY DEF ReceivedInv, AcceptedIsReceived
<1>4. QED
  BY <1>1, <1>2, <1>3, TypeCorrect, TornInductive, PTL DEF Spec

-----------------------------------------------------------------------------
(* A paced producer: it writes only while the pipe is empty, so every      *)
(* message arrives whole, and the messages arrive one by one.              *)
PipeInv ==
    /\ producer # "halted"
    /\ producer # "idle" => PipeQuiet
    /\ isr # "idle" => locked /\ ipc_recv_msg.label_id = Len(verdict)
    /\ isr = "idle" => ipc_recv_msg.label_id = IF locked \/ producer # "idle"
                                               THEN Len(verdict) - 1 ELSE Len(verdict)
    /\ isr # "label" => ipc_recv_msg.label = ipc_recv_msg.label_id

PacedInv == SharedInv /\ PipeInv /\ CacheCoherent

LEMMA PacedInductive ==
    ASSUME Paced PROVE Spec => []PacedInv
<1> USE ConstantsAssumption DEF Written
<1>1. Init => PacedInv
  <2>1. Zeroed.label = 0 /\ Zeroed.label_id = 0 /\ Len(<<>>) = 0
    BY DEF Zeroed
  <2>2. QED
    BY <2>1 DEF Init, SharedInv, PipeInv, CacheCoherent, PacedInv
<1>2. TypeOK /\ PacedInv /\ [Next]_vars => PacedInv'
  <2> SUFFICES ASSUME TypeOK, PacedInv, [Next]_vars PROVE PacedInv'
    OBVIOUS
  <2> USE Paced DEF TypeOK, PacedInv, SharedInv, PipeInv, PipeQuiet, CacheCoherent,
              cm55Vars, pipeVars, recvVars, appVars
  <2>1. ASSUME NEW l \in LabelIds, WriteLabelId(l) PROVE PacedInv'
    BY <2>1, AppendVerdict DEF WriteLabelId
  <2>2. CASE WriteLabel
    BY <2>2 DEF WriteLabel
  <2>3. CASE SendToCm33
    BY <2>3 DEF SendToCm33, CanSend
  <2>4. CASE SendRefused
    BY <2>4 DEF SendRefused, CanSend
  <2>5. CASE ReleaseInterrupt
    BY <2>5 DEF ReleaseInterrupt
  <2>6. CASE CopyLabelId
    BY <2>6 DEF CopyLabelId
  <2>7. CASE CopyLabel
    BY <2>7 DEF CopyLabel
  <2>8. CASE RecordAndRelease
    BY <2>8 DEF RecordAndRelease, RecordMessage
  <2>9. CASE AppTask
    <3>1. UNCHANGED <<cm55Vars, pipeVars, isr, ipc_recv_msg, ipc_last_detection_payload>>
      BY <2>9 DEF AppTask, ReadReceived, ClearReceived, SetupAndConnect, TestSaved,
         CopySaved, ClearSaved, CopyLast, PollInbound, AppStep
    <3>2. QED
      BY <3>1
  <2>10. CASE UNCHANGED vars
    BY <2>10 DEF vars
  <2>11. QED
    BY <2>1, <2>2, <2>3, <2>4, <2>5, <2>6, <2>7, <2>8, <2>9, <2>10 DEF Next, Producer, PipeIsr
<1>3. QED
  BY <1>1, <1>2, TypeCorrect, PTL DEF Spec

(* With a paced producer the cached id and text belong to one verdict.     *)
THEOREM PacedCacheIsCoherent ==
    ASSUME Paced PROVE Spec => []CacheCoherent
<1>1. PacedInv => CacheCoherent
  BY DEF PacedInv
<1>2. QED
  BY <1>1, PacedInductive, PTL

-----------------------------------------------------------------------------
(* The last verdict whose message the handler has recorded completely.     *)
Recorded == IF isr = "idle" THEN ipc_recv_msg.label_id ELSE Len(verdict) - 1

(* What is saved, or being copied out, is newer than what was handed out.  *)
OrderInv ==
    /\ lastTaken <= Recorded
    /\ ipc_last_detection_payload.label_id <= Recorded
    /\ ipc_has_saved_detection => ipc_last_detection_payload.label_id > lastTaken
    /\ app \in {"saved_id", "saved_label", "saved_clear"} => ipc_has_saved_detection
    /\ app \in {"saved_label", "saved_clear"} => /\ payload.label_id > lastTaken
                                                /\ payload.label_id <= Recorded

LEMMA OrderInductive ==
    ASSUME Paced PROVE Spec => []OrderInv
<1> USE ConstantsAssumption DEF Written
<1>1. Init => OrderInv
  <2>1. Zeroed.label = 0 /\ Zeroed.label_id = 0 /\ Len(<<>>) = 0
    BY DEF Zeroed
  <2>2. QED
    BY <2>1 DEF Init, OrderInv, Recorded
<1>2. TypeOK /\ PacedInv /\ OrderInv /\ [Next]_vars => OrderInv'
  <2> SUFFICES ASSUME TypeOK, PacedInv, OrderInv, [Next]_vars PROVE OrderInv'
    OBVIOUS
  <2> USE Paced DEF TypeOK, PacedInv, SharedInv, PipeInv, PipeQuiet, OrderInv, Recorded,
              cm55Vars, pipeVars, recvVars, appVars
  <2>1. ASSUME NEW l \in LabelIds, WriteLabelId(l) PROVE OrderInv'
    BY <2>1, AppendVerdict DEF WriteLabelId
  <2>2. CASE WriteLabel \/ SendToCm33 \/ SendRefused \/ ReleaseInterrupt
    BY <2>2 DEF WriteLabel, SendToCm33, SendRefused, ReleaseInterrupt
  <2>3. CASE CopyLabelId
    BY <2>3 DEF CopyLabelId
  <2>4. CASE CopyLabel
    BY <2>4 DEF CopyLabel
  <2>5. CASE RecordAndRelease
    BY <2>5 DEF RecordAndRelease, RecordMessage
  <2>6. CASE ReadReceived \/ ClearReceived \/ SetupAndConnect \/ PollInbound
    BY <2>6 DEF ReadReceived, ClearReceived, SetupAndConnect, PollInbound, AppStep
  <2>7. CASE TestSaved
    BY <2>7 DEF TestSaved, AppStep
  <2>8. CASE CopySaved
    BY <2>8 DEF CopySaved, CopyTo, AppStep
  <2>9. CASE ClearSaved
    BY <2>9 DEF ClearSaved, AppStep
  <2>10. CASE CopyLast
    BY <2>10 DEF CopyLast, CopyTo, AppStep
  <2>11. CASE UNCHANGED vars
    BY <2>11 DEF vars
  <2>12. QED
    BY <2>1, <2>2, <2>3, <2>4, <2>5, <2>6, <2>7, <2>8, <2>9, <2>10, <2>11
       DEF Next, Producer, PipeIsr, AppTask
<1>3. QED
  BY <1>1, <1>2, TypeCorrect, PacedInductive, PTL DEF Spec

(* With a paced producer no detection is handed out twice or after a newer *)
(* one, whatever interrupts cm33_ipc_safe_get_and_clear_cached_detection.  *)
THEOREM TakenAtMostOnce ==
    ASSUME Paced PROVE Spec => DetectionTakenOnce
<1>1. TypeOK /\ OrderInv /\ [Next]_vars
        => [(app = "saved_clear" /\ app' = "poll") => lastTaken' > lastTaken]_vars
  <2> SUFFICES ASSUME TypeOK, OrderInv, Next, app = "saved_clear", app' = "poll"
               PROVE  lastTaken' > lastTaken
    OBVIOUS
  <2>1. ClearSaved
    BY DEF Next, Producer, PipeIsr, AppTask, WriteLabelId, WriteLabel, SendToCm33,
       SendRefused, ReleaseInterrupt, CopyLabelId, CopyLabel, RecordAndRelease,
       ReadReceived, ClearReceived, SetupAndConnect, TestSaved, CopySaved, CopyLast,
       PollInbound, AppStep, appVars
  <2>2. QED
    BY <2>1 DEF ClearSaved, OrderInv
<1>2. QED
  BY <1>1, TypeCorrect, OrderInductive, PTL DEF Spec, DetectionTakenOnce

-----------------------------------------------------------------------------
(* Where the critical sections mask the pipe's interrupt, the call is one  *)
(* step for the handler, and nothing is lost between the two.              *)
Pending == IF ipc_has_saved_detection THEN ipc_last_detection_payload.label_id ELSE lastTaken

SectionInv ==
    /\ InCriticalSection => isr = "idle"
    /\ app \in {"saved_label", "saved_clear"} =>
            payload.label_id = ipc_last_detection_payload.label_id
    /\ app = "saved_clear" => payload.label = ipc_last_detection_payload.label
    /\ app = "received" => payload.label_id = payload.label
    /\ app = "last_label" => payload.label_id = ipc_recv_msg.label_id
    /\ PayloadCoherent

KeptInv == SectionInv /\ IsLatestDetection(Pending, Recorded)

LEMMA KeptInductive ==
    ASSUME Paced, CriticalMasksPipe PROVE Spec => []KeptInv
<1> USE ConstantsAssumption DEF Written
<1>1. Init => KeptInv
  <2>1. Zeroed.label = 0 /\ Zeroed.label_id = 0 /\ Len(<<>>) = 0
    BY DEF Zeroed
  <2>2. QED
    BY <2>1 DEF Init, KeptInv, SectionInv, InCriticalSection, PayloadCoherent,
                IsLatestDetection, Pending, Recorded
<1>2. TypeOK /\ PacedInv /\ OrderInv /\ KeptInv /\ [Next]_vars => SectionInv'
  <2> SUFFICES ASSUME TypeOK, PacedInv, OrderInv, SectionInv, [Next]_vars
               PROVE  SectionInv'
    BY DEF KeptInv
  <2> USE Paced, CriticalMasksPipe
      DEF TypeOK, PacedInv, PipeInv, CacheCoherent, OrderInv, SectionInv, PayloadCoherent,
          InCriticalSection, cm55Vars, pipeVars, recvVars, appVars
  <2>1. CASE Producer \/ ReleaseInterrupt
    BY <2>1 DEF Producer, WriteLabelId, WriteLabel, SendToCm33, SendRefused, ReleaseInterrupt
  <2>2. CASE PipeIsr
    BY <2>2 DEF PipeIsr, CopyLabelId, CopyLabel, RecordAndRelease, RecordMessage
  <2>3. CASE ReadReceived \/ ClearReceived \/ SetupAndConnect \/ PollInbound
    <3>1. /\ UNCHANGED <<isr, ipc_recv_msg, ipc_last_detection_payload, payload>>
          /\ isr = "idle"
          /\ ~InCriticalSection \/ app = "received"
          /\ app' \in {"received", "setup", "wait", "get", "done"}
      BY <2>3 DEF ReadReceived, ClearReceived, SetupAndConnect, PollInbound, AppStep
    <3>2. payload.label_id = payload.label
      BY <2>3 DEF ReadReceived, ClearReceived, SetupAndConnect, PollInbound, AppStep
    <3>3. QED
      BY <3>1, <3>2
  <2>8. CASE TestSaved
    BY <2>8 DEF TestSaved, AppStep
  <2>4. CASE CopySaved \/ ClearSaved
    BY <2>4 DEF CopySaved, ClearSaved, CopyTo, AppStep
  <2>5. CASE CopyLast
    BY <2>5 DEF CopyLast, CopyTo, AppStep
  <2>6. CASE UNCHANGED vars
    BY <2>6 DEF vars
  <2>7. QED
    BY <2>1, <2>2, <2>3, <2>4, <2>5, <2>6, <2>8 DEF Next, AppTask
<1>3. TypeOK /\ PacedInv /\ OrderInv /\ KeptInv /\ [Next]_vars
        => IsLatestDetection(Pending, Recorded)'
  <2> SUFFICES ASSUME TypeOK, PacedInv, OrderInv, KeptInv, [Next]_vars
               PROVE  IsLatestDetection(Pending, Recorded)'
    OBVIOUS
  <2> USE Paced, CriticalMasksPipe
      DEF TypeOK, PacedInv, PipeInv, OrderInv, KeptInv, SectionInv,
          cm55Vars, pipeVars, recvVars, appVars
  <2>1. ASSUME UNCHANGED <<verdict, Pending, Recorded>>
        PROVE  IsLatestDetection(Pending, Recorded)'
    BY <2>1 DEF IsLatestDetection
  <2>2. ASSUME NEW l \in LabelIds, WriteLabelId(l)
        PROVE  IsLatestDetection(Pending, Recorded)'
    <3>1. UNCHANGED <<Pending, Recorded>> /\ Recorded <= Len(verdict)
      BY <2>2, AppendVerdict DEF WriteLabelId, PipeQuiet, Pending, Recorded
    <3>2. \A i \in 1 .. Len(verdict) : verdict'[i] = verdict[i]
      BY <2>2, AppendVerdict DEF WriteLabelId
    <3>3. Pending \in 0 .. Recorded /\ Recorded \in Nat
      BY <2>2 DEF IsLatestDetection, Pending, Recorded, WriteLabelId, PipeQuiet
    <3>4. QED
      BY <3>1, <3>2, <3>3 DEF IsLatestDetection
  <2>3. CASE WriteLabel \/ SendToCm33 \/ SendRefused \/ ReleaseInterrupt
    <3>1. UNCHANGED <<verdict, isr, recvVars, lastTaken>>
      BY <2>3 DEF WriteLabel, SendToCm33, SendRefused, ReleaseInterrupt
    <3>2. QED
      BY <2>1, <3>1 DEF Pending, Recorded
  <2>4. CASE CopyLabelId
    BY <2>1, <2>4 DEF CopyLabelId, Pending, Recorded
  <2>5. CASE CopyLabel
    BY <2>1, <2>5 DEF CopyLabel, Pending, Recorded
  <2>6. CASE RecordAndRelease
    <3>1. /\ verdict' = verdict
          /\ Recorded = Len(verdict) - 1
          /\ Recorded' = Len(verdict)
          /\ Pending' = IF verdict[Len(verdict)] # 0 THEN Len(verdict) ELSE Pending
      BY <2>6 DEF RecordAndRelease, RecordMessage, LabelId, Pending, Recorded
    <3>2. Pending \in 0 .. Recorded
      BY DEF IsLatestDetection
    <3>3. CASE verdict[Len(verdict)] # 0
      BY <3>1, <3>3 DEF IsLatestDetection
    <3>4. CASE verdict[Len(verdict)] = 0
      <4>1. \A i \in 1 .. Len(verdict) : i > Pending => verdict[i] = 0
        BY <3>1, <3>4 DEF IsLatestDetection
      <4>2. QED
        BY <3>1, <3>2, <3>4, <4>1 DEF IsLatestDetection
    <3>5. QED
      BY <3>3, <3>4
  <2>7. CASE ClearSaved
    BY <2>1, <2>7 DEF ClearSaved, AppStep, Pending, Recorded
  <2>8. CASE ReadReceived \/ ClearReceived \/ SetupAndConnect \/ PollInbound
             \/ TestSaved \/ CopySaved \/ CopyLast
    BY <2>1, <2>8 DEF ReadReceived, ClearReceived, SetupAndConnect, PollInbound, TestSaved,
       CopySaved, CopyLast, CopyTo, AppStep, Pending, Recorded
  <2>9. CASE UNCHANGED vars
    BY <2>1, <2>9 DEF vars, Pending, Recorded
  <2>10. QED
    BY <2>2, <2>3, <2>4, <2>5, <2>6, <2>7, <2>8, <2>9 DEF Next, Producer, PipeIsr, AppTask
<1>4. QED
  BY <1>1, <1>2, <1>3, TypeCorrect, PacedInductive, OrderInductive, PTL DEF Spec, KeptInv

(* Where the critical sections mask the interrupt and the producer is      *)
(* paced, the newest detection received is saved or was handed out.        *)
THEOREM LatestDetectionIsKept ==
    ASSUME Paced, CriticalMasksPipe PROVE Spec => []LatestDetectionKept
<1>1. KeptInv => LatestDetectionKept
  BY DEF KeptInv, LatestDetectionKept, CacheQuiet, Pending, Recorded
<1>2. QED
  BY <1>1, KeptInductive, PTL

(* Under the same conditions, a masking section and a paced producer, the  *)
(* application's copy is one message.                                      *)
THEOREM MaskedCopyIsCoherent ==
    ASSUME Paced, CriticalMasksPipe PROVE Spec => []PayloadCoherent
<1>1. KeptInv => PayloadCoherent
  BY DEF KeptInv, SectionInv
<1>2. QED
  BY <1>1, KeptInductive, PTL

-----------------------------------------------------------------------------
(* Within a section that masks the interrupt the handler is idle, and what *)
(* the call has copied so far is what is still in the cache.               *)
MaskedInv ==
    /\ InCriticalSection => isr = "idle"
    /\ app \in {"saved_label", "saved_clear"} =>
            payload.label_id = ipc_last_detection_payload.label_id
    /\ app = "saved_clear" => payload.label = ipc_last_detection_payload.label
    /\ app = "last_label" => payload.label_id = ipc_recv_msg.label_id

(* Where the critical section masks the pipe interrupt, the copy of        *)
(* cm33_ipc_safe_get_and_clear_cached_detection is one step for the        *)
(* handler, whatever the speed of the CM55.                                *)
THEOREM MaskedCopyIsWhole ==
    ASSUME CriticalMasksPipe PROVE Spec => CopyIsWhole
<1> USE ConstantsAssumption DEF Written
<1>1. Init => MaskedInv
  BY DEF Init, MaskedInv, InCriticalSection
<1>2. TypeOK /\ MaskedInv /\ [Next]_vars => MaskedInv'
  <2> SUFFICES ASSUME TypeOK, MaskedInv, [Next]_vars PROVE MaskedInv'
    OBVIOUS
  <2> USE CriticalMasksPipe
      DEF TypeOK, MaskedInv, InCriticalSection, cm55Vars, pipeVars, recvVars, appVars
  <2>1. CASE Producer \/ ReleaseInterrupt
    BY <2>1 DEF Producer, WriteLabelId, WriteLabel, SendToCm33, SendRefused, ReleaseInterrupt
  <2>2. CASE PipeIsr
    BY <2>2 DEF PipeIsr, CopyLabelId, CopyLabel, RecordAndRelease, RecordMessage
  <2>3. CASE ReadReceived \/ ClearReceived \/ SetupAndConnect \/ PollInbound
    BY <2>3 DEF ReadReceived, ClearReceived, SetupAndConnect, PollInbound, AppStep
  <2>4. CASE TestSaved
    BY <2>4 DEF TestSaved, AppStep
  <2>5. CASE CopySaved \/ ClearSaved
    BY <2>5 DEF CopySaved, ClearSaved, CopyTo, AppStep
  <2>6. CASE CopyLast
    BY <2>6 DEF CopyLast, CopyTo, AppStep
  <2>7. CASE UNCHANGED vars
    BY <2>7 DEF vars
  <2>8. QED
    BY <2>1, <2>2, <2>3, <2>4, <2>5, <2>6, <2>7 DEF Next, AppTask
<1>3. TypeOK /\ MaskedInv /\ [Next]_vars
        => [/\ app = "saved_clear" /\ app' = "poll" => payload' = ipc_last_detection_payload
            /\ app = "last_label" /\ app' = "poll" => payload' = ipc_recv_msg]_vars
  <2> SUFFICES ASSUME TypeOK, MaskedInv, Next, app \in {"saved_clear", "last_label"}, app' = "poll"
               PROVE  payload' = IF app = "saved_clear" THEN ipc_last_detection_payload
                                                        ELSE ipc_recv_msg
    OBVIOUS
  <2>1. ClearSaved \/ CopyLast
    BY DEF Next, Producer, PipeIsr, AppTask, WriteLabelId, WriteLabel, SendToCm33,
       SendRefused, ReleaseInterrupt, CopyLabelId, CopyLabel, RecordAndRelease,
       ReadReceived, ClearReceived, SetupAndConnect, TestSaved, CopySaved,
       PollInbound, AppStep, appVars
  <2>2. CASE ClearSaved
    BY <2>2 DEF ClearSaved, AppStep, TypeOK, MaskedInv
  <2>3. CASE CopyLast
    BY <2>3 DEF CopyLast, CopyTo, AppStep, TypeOK, MaskedInv
  <2> QED
    BY <2>1, <2>2, <2>3
<1>4. QED
  BY <1>1, <1>2, <1>3, TypeCorrect, PTL DEF Spec, CopyIsWhole

-----------------------------------------------------------------------------
(* What is saved, being copied out or handed out is a detection.           *)
DetectionInv ==
    /\ ipc_has_saved_detection => LabelId(ipc_last_detection_payload) # 0
    /\ app \in {"saved_id", "saved_label", "saved_clear"} => ipc_has_saved_detection
    /\ app \in {"saved_label", "saved_clear"} => LabelId(payload) # 0
    /\ SavedIsDetection

(* cm33_ipc_safe_get_and_clear_cached_detection returns TRUE only with the *)
(* label id of a detection, however fast the CM55 sends and whether or not *)
(* the critical section masks the interrupt.                               *)
THEOREM TakenIsDetection == Spec => []SavedIsDetection
<1> USE ConstantsAssumption DEF Written
<1>1. Init => DetectionInv
  BY DEF Init, DetectionInv, SavedIsDetection
<1>2. TypeOK /\ DetectionInv /\ [Next]_vars => DetectionInv'
  <2> SUFFICES ASSUME TypeOK, DetectionInv, [Next]_vars PROVE DetectionInv'
    OBVIOUS
  <2>1. CASE \E l \in LabelIds : WriteLabelId(l)
    <3>1. PICK l \in LabelIds : WriteLabelId(l)
      BY <2>1
    <3>2. verdict' = Append(verdict, l) /\ UNCHANGED <<recvVars, appVars>>
      BY <3>1 DEF WriteLabelId
    <3>3. \A i \in 1 .. Len(verdict) : verdict'[i] = verdict[i]
      BY <3>2, AppendVerdict DEF TypeOK
    <3>4. ipc_last_detection_payload.label_id \in 0 .. Len(verdict)
          /\ payload.label_id \in 0 .. Len(verdict) /\ Len(verdict) \in Nat
      BY DEF TypeOK
    <3>5. /\ ipc_last_detection_payload' = ipc_last_detection_payload /\ payload' = payload
          /\ app' = app /\ ipc_has_saved_detection' = ipc_has_saved_detection
          /\ gotDetection' = gotDetection
      BY <3>2 DEF recvVars, appVars
    <3>6. LabelId(ipc_last_detection_payload)' = LabelId(ipc_last_detection_payload)
      BY <3>3, <3>4, <3>5 DEF LabelId
    <3>7. LabelId(payload)' = LabelId(payload)
      BY <3>3, <3>4, <3>5 DEF LabelId
    <3> QED
      BY <3>5, <3>6, <3>7 DEF DetectionInv, SavedIsDetection
  <2>2. CASE \/ WriteLabel \/ SendToCm33 \/ SendRefused \/ ReleaseInterrupt
             \/ CopyLabelId \/ CopyLabel \/ UNCHANGED vars
    <3>1. UNCHANGED <<verdict, ipc_last_detection_payload, ipc_has_saved_detection,
                      app, payload, gotDetection>>
      BY <2>2 DEF WriteLabel, SendToCm33, SendRefused, ReleaseInterrupt, CopyLabelId, CopyLabel,
                  vars, cm55Vars, recvVars, appVars
    <3> QED
      BY <3>1 DEF DetectionInv, SavedIsDetection, LabelId
  <2>3. CASE RecordAndRelease
    <3>1. /\ UNCHANGED <<verdict, app, payload, gotDetection>>
          /\ \/ UNCHANGED <<ipc_last_detection_payload, ipc_has_saved_detection>>
             \/ /\ LabelId(ipc_recv_msg) # 0
                /\ ipc_last_detection_payload' = ipc_recv_msg
                /\ ipc_has_saved_detection' = TRUE
      BY <2>3 DEF RecordAndRelease, RecordMessage, cm55Vars, appVars
    <3> QED
      BY <3>1 DEF DetectionInv, SavedIsDetection, LabelId
  <2>4. CASE AppTask
    <3>1. verdict' = verdict /\ ipc_last_detection_payload' = ipc_last_detection_payload
      BY <2>4 DEF AppTask, ReadReceived, ClearReceived, SetupAndConnect, TestSaved, CopySaved,
                  ClearSaved, CopyLast, PollInbound, AppStep, cm55Vars
    <3>2. CASE ReadReceived \/ ClearReceived \/ SetupAndConnect \/ PollInbound
      <4>1. /\ app' \in {"received", "setup", "wait", "get", "done"}
            /\ ipc_has_saved_detection' = ipc_has_saved_detection
        BY <3>2 DEF ReadReceived, ClearReceived, SetupAndConnect, PollInbound, AppStep
      <4> QED
        BY <3>1, <4>1 DEF DetectionInv, SavedIsDetection, LabelId
    <3>3. CASE TestSaved
      <4>1. /\ app' = (IF ipc_has_saved_detection THEN "saved_id" ELSE "last_id")
            /\ ipc_has_saved_detection' = ipc_has_saved_detection
        BY <3>3 DEF TestSaved, AppStep
      <4> QED
        BY <3>1, <4>1 DEF DetectionInv, SavedIsDetection, LabelId
    <3>4. CASE CopySaved
      <4>1. ipc_has_saved_detection' = ipc_has_saved_detection
        BY <3>4 DEF CopySaved, CopyTo
      <4>2. payload \in Written
        BY DEF TypeOK
      <4>3. \/ /\ app = "saved_id" /\ app' = "saved_label"
               /\ payload'.label_id = ipc_last_detection_payload.label_id
            \/ /\ app = "saved_label" /\ app' = "saved_clear"
               /\ payload'.label_id = payload.label_id
        BY <3>4, <4>2 DEF CopySaved, CopyTo, AppStep
      <4>4. app' \in {"saved_label", "saved_clear"} /\ LabelId(payload)' # 0
        BY <3>1, <4>3 DEF DetectionInv, LabelId
      <4>5. ipc_has_saved_detection'
        BY <4>1, <4>3 DEF DetectionInv
      <4> QED
        BY <3>1, <4>1, <4>4, <4>5 DEF DetectionInv, SavedIsDetection, LabelId
    <3>5. CASE ClearSaved
      <4>1. app = "saved_clear" /\ app' = "poll" /\ payload' = payload
            /\ ipc_has_saved_detection' = FALSE
        BY <3>5 DEF ClearSaved, AppStep
      <4> QED
        BY <3>1, <4>1 DEF DetectionInv, SavedIsDetection, LabelId
    <3>6. CASE CopyLast
      <4>1. /\ ipc_has_saved_detection' = ipc_has_saved_detection
            /\ app' = "last_label" \/ (app' = "poll" /\ gotDetection' = FALSE)
        BY <3>6 DEF CopyLast, CopyTo, AppStep
      <4> QED
        BY <3>1, <4>1 DEF DetectionInv, SavedIsDetection, LabelId
    <3> QED
      BY <2>4, <3>2, <3>3, <3>4, <3>5, <3>6 DEF AppTask
  <2> QED
    BY <2>1, <2>2, <2>3, <2>4 DEF Next, Producer, PipeIsr
<1>3. DetectionInv => SavedIsDetection
  BY DEF DetectionInv
<1> QED
  BY <1>1, <1>2, <1>3, TypeCorrect, PTL DEF Spec

-----------------------------------------------------------------------------
(* The latch's two values, as ImplementsLatch maps them.                   *)
LatchPending == IF ipc_has_saved_detection THEN ipc_last_detection_payload.label_id ELSE 0

(* Under the conditions of LatestDetectionIsKept the whole channel behaves *)
(* as the header says: an atomic one-place latch.  The latch is set where  *)
(* cm33_msg_callback has recorded a detection and emptied where            *)
(* cm33_ipc_safe_get_and_clear_cached_detection clears the flag; every     *)
(* other step of either core is invisible.                                 *)
THEOREM ChannelIsALatch ==
    ASSUME Paced, CriticalMasksPipe PROVE Spec => ImplementsLatch
<1> USE ConstantsAssumption DEF Written
<1>1. Init => Latch!Init
  BY DEF Init, Zeroed, Latch!Init
<1>2. TypeOK /\ PacedInv /\ OrderInv /\ KeptInv /\ [Next]_vars
        => [Latch!Next]_<<LatchPending, Pending>>
  <2> SUFFICES ASSUME TypeOK, PacedInv, OrderInv, KeptInv, [Next]_vars
               PROVE  Latch!Next \/ UNCHANGED <<LatchPending, Pending>>
    OBVIOUS
  <2>1. CASE RecordAndRelease
    <3>1. /\ isr = "record" /\ verdict' = verdict /\ lastTaken' = lastTaken
          /\ ipc_recv_msg.label_id = Len(verdict)
      BY <2>1 DEF RecordAndRelease, cm55Vars, appVars, PacedInv, PipeInv
    <3>2. Pending < Len(verdict) /\ Len(verdict) \in 1 .. MaxVerdicts
      <4>1. Recorded = Len(verdict) - 1
        BY <3>1 DEF Recorded
      <4>2. Pending \in Nat /\ Pending <= Recorded /\ Len(verdict) \in Nat /\ Len(verdict) <= MaxVerdicts
        BY DEF TypeOK, OrderInv, Pending
      <4> QED
        BY <4>1, <4>2
    <3>3. CASE LabelId(ipc_recv_msg) # 0
      <4>1. LatchPending' = Len(verdict) /\ Pending' = Len(verdict)
        BY <2>1, <3>1, <3>3 DEF RecordAndRelease, RecordMessage, LatchPending, Pending
      <4>2. Latch!Record
        BY <3>2, <4>1 DEF Latch!Record, LatchPending, Pending
      <4> QED
        BY <4>2 DEF Latch!Next
    <3>4. CASE LabelId(ipc_recv_msg) = 0
      BY <2>1, <3>1, <3>4 DEF RecordAndRelease, RecordMessage, LatchPending, Pending
    <3> QED
      BY <3>3, <3>4
  <2>2. CASE ClearSaved
    <3>1. /\ app = "saved_clear" /\ lastTaken' = payload.label_id
          /\ ipc_has_saved_detection' = FALSE
          /\ ipc_last_detection_payload' = ipc_last_detection_payload
      BY <2>2 DEF ClearSaved, AppStep
    <3>2. /\ ipc_has_saved_detection
          /\ payload.label_id = ipc_last_detection_payload.label_id
          /\ ipc_last_detection_payload.label_id > lastTaken /\ lastTaken \in Nat
      BY <3>1 DEF TypeOK, OrderInv, KeptInv, SectionInv
    <3>3. LatchPending # 0 /\ LatchPending' = 0 /\ Pending' = Pending
      BY <3>1, <3>2 DEF TypeOK, LatchPending, Pending
    <3>4. Latch!GetAndClear
      BY <3>3 DEF Latch!GetAndClear, LatchPending, Pending
    <3> QED
      BY <3>4 DEF Latch!Next
  <2>3. CASE Producer \/ ReleaseInterrupt \/ CopyLabelId \/ CopyLabel \/ UNCHANGED vars
    <3>1. UNCHANGED <<ipc_last_detection_payload, ipc_has_saved_detection, lastTaken>>
      BY <2>3 DEF Producer, WriteLabelId, WriteLabel, SendToCm33, SendRefused,
         ReleaseInterrupt, CopyLabelId, CopyLabel, vars, recvVars, appVars
    <3> QED
      BY <3>1 DEF LatchPending, Pending
  <2>4. CASE \/ ReadReceived \/ ClearReceived \/ SetupAndConnect
             \/ TestSaved \/ CopySaved \/ CopyLast \/ PollInbound
    <3>1. UNCHANGED <<ipc_last_detection_payload, ipc_has_saved_detection, lastTaken>>
      BY <2>4 DEF ReadReceived, ClearReceived, SetupAndConnect, TestSaved, CopySaved,
         CopyLast, PollInbound, CopyTo, AppStep
    <3> QED
      BY <3>1 DEF LatchPending, Pending
  <2> QED
    BY <2>1, <2>2, <2>3, <2>4 DEF Next, PipeIsr, AppTask
<1>3. QED
  BY <1>1, <1>2, TypeCorrect, PacedInductive, OrderInductive, KeptInductive, PTL
     DEF Spec, ImplementsLatch, Latch!Spec, LatchPending, Pending
=============================================================================
