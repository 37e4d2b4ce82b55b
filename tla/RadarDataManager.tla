-------------------------- MODULE RadarDataManager --------------------------
(***************************************************************************)
(* The radar data manager: bytes of the sensor are queued in one buffer    *)
(* and handed, a fill level at a time, to every task that subscribed       *)
(* (proj_cm55/source/radar/xensiv_radar_data_management.c, FreeRTOS        *)
(* build).  The owner that starts it, the sensor and the subscribers are   *)
(* outside; they do what the interface in the header asks of them.         *)
(*                                                                         *)
(* run() is called from the data interrupt, so it is one step, which may   *)
(* come between any two steps of the tasks.  Byte number k of the sensor   *)
(* is the number k; 0 is a byte that was never read in.                    *)
(***************************************************************************)
EXTENDS Integers, FiniteSets, FiniteSetsExt

CONSTANTS
    Tasks,                   \* tasks that subscribe
    ACTIVE_SUBSCRIPTION_UB,  \* 4 in the code
    BufferSize,              \* what the owner asks for
    FillLevels,              \* the fill levels the owner sets
    Deliveries,              \* how many bytes the sensor may deliver at once
    SensorFails,             \* TRUE: reading the sensor may fail
    Paced,                   \* TRUE: no interrupt comes while a task reads
    UintModulus,             \* 2^32: the counters are uint32_t
    MaxBytes                 \* bound: bytes the sensor delivers

ASSUME ManagerAssumption ==
    /\ "none" \notin Tasks      \* no task has the NULL handle
    /\ ACTIVE_SUBSCRIPTION_UB \in Nat \ {0}
    /\ BufferSize \in Nat \ {0} /\ UintModulus \in Nat /\ BufferSize < UintModulus
    /\ FillLevels \subseteq 1 .. BufferSize
    /\ Deliveries \subseteq Nat
    /\ SensorFails \in BOOLEAN /\ Paced \in BOOLEAN
    /\ MaxBytes \in Nat

VARIABLES
    buffer,         \* the bytes; no cells: not allocated
    samples, head, tail, fill_level,
    subscribers,    \* the counter
    subscriptions,  \* the task and the flag of each slot
    produced,       \* bytes the sensor has delivered
    task,           \* where each task is
    notified,       \* whether a notification is pending for it
    got,            \* history: the bytes of the last read_from_buffer
    lastRead        \* history: the last of the bytes it acknowledged

queueVars == <<buffer, samples, head, tail, fill_level>>
slotVars  == <<subscribers, subscriptions>>
taskVars  == <<task, notified, got, lastRead>>
vars == <<queueVars, slotVars, produced, taskVars>>

None == "none"    \* a task handle that is NULL
Slots == 1 .. ACTIVE_SUBSCRIPTION_UB
FreeSlot == [suscriber_task_handle |-> None, data_read |-> FALSE]

NoBuffer == <<>>
IsAllocated == buffer # NoBuffer
BuffSize == IF IsAllocated THEN BufferSize ELSE 0

SlotOf(t) == {s \in Slots : subscriptions[s].suscriber_task_handle = t}
Subscribed == {s \in Slots : subscriptions[s].suscriber_task_handle # None}

Init ==
    /\ buffer = NoBuffer
    /\ samples = 0 /\ head = 0 /\ tail = 0 /\ fill_level = 0
    /\ subscribers = 0
    /\ subscriptions = [s \in Slots |-> FreeSlot]
    /\ produced = 0
    /\ task = [t \in Tasks |-> "out"]
    /\ notified = [t \in Tasks |-> FALSE]
    /\ got = [t \in Tasks |-> {}]
    /\ lastRead = [t \in Tasks |-> 0]

-----------------------------------------------------------------------------
(* The owner.                                                              *)

(* radar_data_manager_init, with the memory it asks for.                   *)
InitManager(level) ==
    /\ ~IsAllocated
    /\ buffer' = [i \in 0 .. BufferSize - 1 |-> 0]
    /\ samples' = 0 /\ head' = 0 /\ tail' = 0
    /\ fill_level' = level
    /\ subscribers' = 0
    /\ UNCHANGED <<subscriptions, produced, taskVars>>

(* Refused while there are subscribers.                                    *)
Deinit ==
    /\ IsAllocated
    /\ subscribers = 0
    /\ buffer' = NoBuffer
    /\ samples' = 0 /\ head' = 0 /\ tail' = 0 /\ fill_level' = 0
    /\ subscribers' = 0
    /\ subscriptions' = [s \in Slots |-> FreeSlot]
    /\ UNCHANGED <<produced, taskVars>>

SetFillLevel(level) ==
    /\ level <= BuffSize
    /\ fill_level' = level
    /\ UNCHANGED <<buffer, samples, head, tail, slotVars, produced, taskVars>>

-----------------------------------------------------------------------------
(* radar_data_manager_run.                                                 *)

(* The outcomes of reading the sensor: the bytes that came, or -1.         *)
Room == BuffSize - tail
ReadOutcomes ==
    IF tail >= BuffSize THEN {-1}
    ELSE {n \in Deliveries : n <= Room /\ produced + n <= MaxBytes}
            \cup (IF SensorFails THEN {-1} ELSE {})

(* The buffer after n bytes were read to its tail.                         *)
Filled(n) ==
    [i \in 0 .. BuffSize - 1 |-> IF i \in tail .. tail + n - 1
                                 THEN produced + (i - tail) + 1 ELSE buffer[i]]

(* Mutant: the bytes are moved from one too far.                           *)
MovedFromNext(b, from, sz) ==
    [i \in 0 .. BuffSize - 1 |-> IF i < sz /\ from + i + 1 < BuffSize
                                 THEN b[from + i + 1] ELSE b[i]]

(* memcpy to the front of what lies behind the fill level.                 *)
MovedToFront(b, from, sz) ==
    [i \in 0 .. BuffSize - 1 |-> IF i < sz /\ from + i < BuffSize
                                 THEN b[from + i] ELSE b[i]]

(* The difference of two uint32_t.                                         *)
Minus(a, b) == (a - b) % UintModulus

(* Mutant: one acknowledgment is enough.                                   *)
AnyRead == \E s \in Subscribed : subscriptions[s].data_read

AllRead == \A s \in Subscribed : subscriptions[s].data_read

Fills(n) == n >= fill_level

(* The queue moves on by the fill level and the flags are cleared.  With   *)
(* fewer bytes than that the size wraps around and the copy leaves the     *)
(* buffer; tail tells.                                                     *)
Adjust(b, newTail) ==
    LET from == head + fill_level
        sz   == Minus(newTail, from)
    IN  /\ buffer' = MovedToFront(b, from, sz)
        /\ tail' = sz
        /\ head' = 0
        /\ subscriptions' = [s \in Slots |-> [subscriptions[s] EXCEPT !.data_read = FALSE]]

Run ==
    /\ IsAllocated
    /\ Paced => \A t \in Tasks : task[t] # "reading"
    /\ \E n \in ReadOutcomes :
        LET read       == Max({n, 0})
            newSamples == IF n < 0 THEN samples ELSE Minus(tail + n, head)
            full       == Fills(newSamples)
        IN  /\ samples' = newSamples
            /\ produced' = produced + read
            /\ notified' = [t \in Tasks |-> notified[t] \/ (full /\ SlotOf(t) # {})]
            /\ IF full /\ AllRead THEN Adjust(Filled(read), tail + read)
               ELSE /\ buffer' = Filled(read)
                    /\ tail' = tail + read
                    /\ UNCHANGED <<head, subscriptions>>
    /\ UNCHANGED <<fill_level, subscribers, task, got, lastRead>>

-----------------------------------------------------------------------------
(* A subscriber: subscribe, sleep until notified, read, acknowledge.       *)

(* Refused when the slots are taken or nothing is allocated.  The task is  *)
(* a new one, for which no notification is pending.                        *)
Subscribe(t) ==
    /\ task[t] = "out"
    /\ SlotOf(t) = {} /\ subscribers # ACTIVE_SUBSCRIPTION_UB /\ IsAllocated
    /\ \E s \in Slots \ Subscribed :
        /\ \A r \in Slots \ Subscribed : s <= r
        /\ subscriptions' = [subscriptions EXCEPT ![s] =
                                [suscriber_task_handle |-> t, data_read |-> FALSE]]
    /\ subscribers' = subscribers + 1
    /\ task' = [task EXCEPT ![t] = "waiting"]
    /\ lastRead' = [lastRead EXCEPT ![t] = 0]
    /\ notified' = [notified EXCEPT ![t] = FALSE]
    /\ UNCHANGED <<queueVars, produced, got>>

(* Mutant: the slot is freed, the counter not.                             *)
UnsubscribeUncounted(t) ==
    /\ task[t] = "waiting"
    /\ \E s \in SlotOf(t) : subscriptions' = [subscriptions EXCEPT ![s] = FreeSlot]
    /\ task' = [task EXCEPT ![t] = "out"]
    /\ UNCHANGED <<queueVars, subscribers, produced, notified, got, lastRead>>

Unsubscribe(t) ==
    /\ task[t] = "waiting"
    /\ subscribers # 0
    /\ \E s \in SlotOf(t) : subscriptions' = [subscriptions EXCEPT ![s] = FreeSlot]
    /\ subscribers' = subscribers - 1
    /\ task' = [task EXCEPT ![t] = "out"]
    /\ UNCHANGED <<queueVars, produced, notified, got, lastRead>>

(* ulTaskNotifyTake and radar_data_manager_read_buffer.                    *)
ReadBuffer(t) ==
    /\ task[t] = "waiting" /\ notified[t]
    /\ notified' = [notified EXCEPT ![t] = FALSE]
    /\ IF Fills(samples) /\ SlotOf(t) # {}
       THEN /\ task' = [task EXCEPT ![t] = "reading"]
            /\ got' = [got EXCEPT ![t] = {buffer[i] : i \in head .. head + fill_level - 1}]
       ELSE UNCHANGED <<task, got>>
    /\ UNCHANGED <<queueVars, slotVars, produced, lastRead>>

AckDataRead(t) ==
    /\ task[t] = "reading"
    /\ \E s \in SlotOf(t) :
        subscriptions' = [subscriptions EXCEPT ![s].data_read = TRUE]
    /\ task' = [task EXCEPT ![t] = "waiting"]
    /\ lastRead' = [lastRead EXCEPT ![t] = Max(got[t])]
    /\ UNCHANGED <<queueVars, subscribers, produced, notified, got>>

Reader(t) == ReadBuffer(t) \/ AckDataRead(t)

Next ==
    \/ \E l \in FillLevels : InitManager(l) \/ SetFillLevel(l)
    \/ Deinit
    \/ Run
    \/ \E t \in Tasks : Subscribe(t) \/ Unsubscribe(t) \/ Reader(t)

Spec == Init /\ [][Next]_vars

-----------------------------------------------------------------------------
(* The counter that guards deinit counts the slots in use, and no task has *)
(* two, in whatever order tasks come and go.                               *)
CountedSubscribers ==
    /\ subscribers = Cardinality(Subscribed)
    /\ \A t \in Tasks : Cardinality(SlotOf(t)) = (IF task[t] = "out" THEN 0 ELSE 1)

(* "The old data in the buffer will persist until all subscribers          *)
(* acknowledge their respective data reads": what a task has been handed   *)
(* stays where it is while the task reads it.                              *)
OldDataPersists ==
    \A t \in Tasks : task[t] = "reading"
        => got[t] = {buffer[i] : i \in head .. head + fill_level - 1}

(* A task that stays subscribed is never handed a gap: what it reads       *)
(* continues what it acknowledged last, or repeats it for a slower one.    *)
NothingSkipped ==
    \A t \in Tasks : task[t] = "reading" /\ lastRead[t] # 0
        => Min(got[t]) = lastRead[t] + 1 \/ Max(got[t]) = lastRead[t]

(* What a task is handed is one stretch of the sensor's bytes.             *)
OneStretch ==
    \A t \in Tasks : task[t] = "reading"
        => 0 \notin got[t] /\ Cardinality(got[t]) = Max(got[t]) - Min(got[t]) + 1
=============================================================================
