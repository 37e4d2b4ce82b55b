----------------------------- MODULE OtaUpdate -----------------------------
(***************************************************************************)
(* The application loop of the CM33 once the SDK is up: telemetry, cloud   *)
(* commands and over-the-air updates (proj_cm33_ns/app_task.c), and the    *)
(* update's way into the flash (OtaFlash).  Commands and updates arrive as *)
(* callbacks of iotconnect_sdk_poll_inbound_mq, in app_task itself.  The   *)
(* SDK and the vendor's OTA library are modelled from how app_task calls   *)
(* them: the library erases the slot, writes the image from its start in   *)
(* pieces as they arrive, and starts over a limited number of times.       *)
(***************************************************************************)
EXTENDS OtaFlash, FiniteSetsExt

CONSTANTS
    Windows,       \* the bases the library may add to the slot's offset
    Slot,          \* offset of the slot for the new image, sector-aligned
    ImageSize,     \* bytes of the new image
    Pieces,        \* how many bytes may arrive at once
    Tries,         \* times the library tries to download
    MaxConnects,   \* connections in one boot; 10 in the code
    MaxMessages,   \* messages in one connection; 300 in the code
    MaxDemo,       \* messages in one connection in demo mode; 6000 in the code
    Intervals,     \* numbers that may come with set-reporting-interval
    MaxBoots       \* bound: boots of the device

ASSUME OtaAssumption ==
    /\ Slot \in Nat /\ Slot % EraseSize = 0
    /\ ImageSize \in Nat \ {0} /\ Slot + ImageSize <= FlashSize
    /\ \A w \in Windows : w \in {0, CY_XIP_PORT0_NS_SBUS_BASE, CY_XIP_PORT0_S_SBUS_BASE}
    /\ Pieces \subseteq Nat \ {0}
    /\ {Tries, MaxConnects, MaxMessages, MaxDemo, MaxBoots} \subseteq Nat \ {0}
    /\ Intervals \subseteq Int

VARIABLES
    boots,
    app,                 \* where app_task is
    connects,            \* i of the outer loop
    messages,            \* what is left of j of the inner loop
    board_user_led,
    is_demo_mode,
    reporting_interval,
    published,           \* history: this round of the loop sent telemetry
    is_downloading,
    answer,              \* history: the last acknowledgment of an update
    window,              \* the window the library addresses the slot in
    received,            \* bytes of the image written so far
    tries                \* downloads the library has left

loopVars     == <<app, connects, messages, published>>
settingVars  == <<board_user_led, is_demo_mode, reporting_interval>>
downloadVars == <<is_downloading, answer, window, received, tries>>
vars == <<flashVars, boots, loopVars, settingVars, downloadVars>>

SlotSize == FlashSize - Slot

Init ==
    /\ FlashInit
    /\ flash = [c \in Cells |-> Other]
    /\ boots = 1
    /\ app = "connect" /\ connects = 0 /\ messages = 0 /\ published = FALSE
    /\ board_user_led = FALSE /\ is_demo_mode = FALSE /\ reporting_interval = 2000
    /\ is_downloading = FALSE /\ received = 0 /\ tries = 0
    /\ answer = "none" /\ window \in Windows

(* A reset or a loss of power, which may leave any of some contents of the *)
(* flash.                                                                  *)
Boot(contents) ==
    /\ boots < MaxBoots
    /\ boots' = boots + 1
    /\ FlashReset
    /\ flash' \in contents
    /\ app' = "connect" /\ connects' = 0 /\ messages' = 0 /\ published' = FALSE
    /\ board_user_led' = FALSE /\ is_demo_mode' = FALSE /\ reporting_interval' = 2000
    /\ is_downloading' = FALSE /\ received' = 0 /\ tries' = 0
    /\ answer' = IF answer = "done" THEN "done" ELSE "none"
    /\ UNCHANGED window

(* A write or an erase may be cut short.                                   *)
PowerCycle ==
    Boot(IF app = "erase" THEN {ErasedFrom(EraseOffset(window + Slot), n) : n \in 0 .. SlotSize}
         ELSE IF Writing THEN {WriteRow(n) : n \in 0 .. CY_FLASH_SIZEOF_ROW}
         ELSE {flash})

-----------------------------------------------------------------------------
(* The loops of app_task.                                                  *)

AppStep(from, to) == app = from /\ app' = to /\ UNCHANGED <<flashVars, boots>>

Connect ==
    /\ \/ AppStep("connect", "loop") /\ connects < MaxConnects /\ connects' = connects + 1
       \/ AppStep("connect", "done") /\ UNCHANGED connects
    /\ messages' = IF is_demo_mode THEN MaxDemo ELSE MaxMessages
    /\ UNCHANGED <<published, settingVars, downloadVars>>

(* A round of the inner loop: publish_telemetry, unless a download is on.  *)
Publish ==
    /\ messages > 0
    /\ AppStep("loop", "poll")
    /\ published' = ~is_downloading
    /\ UNCHANGED <<connects, messages, settingVars, downloadVars>>

(* The connection was lost, or it has had its share of messages.           *)
Disconnect ==
    /\ AppStep("loop", "connect")
    /\ UNCHANGED <<connects, messages, published, settingVars, downloadVars>>

PollReturns ==
    /\ AppStep("poll", "loop")
    /\ messages' = messages - 1
    /\ UNCHANGED <<connects, published, settingVars, downloadVars>>

-----------------------------------------------------------------------------
(* on_command.  The name of a command is matched up to its length and one  *)
(* more character is skipped, whatever it is.                              *)

Switches == {"board-user-led", "demo-mode"}
Commands ==
    [name : Switches, arg : {"on", "off", "missing", "other"}]
        \cup [name : {"set-reporting-interval"}, arg : Intervals]
        \cup {[name |-> "unknown", arg |-> "missing"]}

(* What is acknowledged with success.  atoi makes 0 of what is no number.  *)
Accepted(c) ==
    \/ c.name \in Switches /\ c.arg \in {"on", "off"}
    \/ c.name = "set-reporting-interval" /\ c.arg # 0

OnCommand(c) ==
    /\ AppStep("poll", "poll")
    /\ board_user_led' = IF c.name = "board-user-led" /\ Accepted(c)
                         THEN c.arg = "on" ELSE board_user_led
    /\ is_demo_mode' = IF c.name = "demo-mode" /\ Accepted(c)
                       THEN c.arg = "on" ELSE is_demo_mode
    /\ reporting_interval' = IF c.name = "set-reporting-interval" /\ Accepted(c)
                             THEN c.arg ELSE reporting_interval
    /\ UNCHANGED <<connects, messages, published, downloadVars>>

-----------------------------------------------------------------------------
(* on_ota, for a request that names a host, a path and an acknowledgment;  *)
(* any other is dropped without an answer.                                 *)

OnOta ==
    /\ AppStep("poll", "erase")
    /\ boots < MaxBoots    \* bound: the update may end in a reset
    /\ answer' = "downloading"
    /\ is_downloading' = TRUE
    /\ window' \in Windows
    /\ tries' = Tries - 1
    /\ UNCHANGED <<connects, messages, published, settingVars, received>>

(* The library, from the start of the slot.                                *)
EraseSlot ==
    /\ app = "erase"
    /\ \/ app' = "download" /\ flash' = ErasedFrom(EraseOffset(window + Slot), SlotSize)
       \/ FlashFails /\ app' = "failed" /\ UNCHANGED flash
    /\ received' = 0
    /\ UNCHANGED <<writeVars, boots, connects, messages, published, settingVars,
                   is_downloading, answer, window, tries>>

PieceArrives ==
    /\ app = "download"
    /\ received < ImageSize
    /\ \E n \in Pieces :
        LET len == Min({n, ImageSize - received})
        IN  /\ MemWrite(window + Slot + received, received, len)
            /\ received' = received + len
    /\ UNCHANGED <<boots, loopVars, settingVars, is_downloading, answer, window, tries>>

(* Inside a call of cy_ota_mem_write.                                      *)
WriteStep ==
    /\ Flash
    /\ UNCHANGED <<boots, loopVars, settingVars, downloadVars>>

WriteReturns ==
    /\ mem \in {"ok", "failed"}
    /\ mem' = "idle"
    /\ app' = IF mem = "ok" THEN "download" ELSE "failed"
    /\ UNCHANGED <<flash, curr_addr, curr_src, bytes_to_write, block_buffer, asked,
                   boots, connects, messages, published, settingVars, downloadVars>>

(* The connection to the server fails, or what came is not an image.       *)
DownloadFails ==
    /\ mem = "idle"
    /\ AppStep("download", "failed")
    /\ UNCHANGED <<connects, messages, published, settingVars, downloadVars>>

Retry ==
    /\ tries > 0
    /\ AppStep("failed", "erase")
    /\ tries' = tries - 1
    /\ UNCHANGED <<connects, messages, published, settingVars, is_downloading, answer, window, received>>

(* Mutant: the return to the loop after a failure leaves the flag set.     *)
AckFailedOnly ==
    /\ tries = 0
    /\ AppStep("failed", "poll")
    /\ answer' = "failed"
    /\ UNCHANGED <<connects, messages, published, settingVars, is_downloading, window, received, tries>>

(* Mutant: a failed download is not acknowledged.                          *)
AckForgotten ==
    /\ tries = 0
    /\ AppStep("failed", "poll")
    /\ is_downloading' = FALSE
    /\ UNCHANGED <<connects, messages, published, settingVars, answer, window, received, tries>>

(* iotc_ota_run has returned with an error.                                *)
AckFailed ==
    /\ tries = 0
    /\ AppStep("failed", "poll")
    /\ answer' = "failed"
    /\ is_downloading' = FALSE
    /\ UNCHANGED <<connects, messages, published, settingVars, window, received, tries>>

AckDone ==
    /\ mem = "idle"
    /\ received = ImageSize
    /\ AppStep("download", "resetting")
    /\ answer' = "done"
    /\ UNCHANGED <<connects, messages, published, settingVars, is_downloading, window, received, tries>>

SystemReset == app = "resetting" /\ Boot({flash})

-----------------------------------------------------------------------------
Loop    == Connect \/ Publish \/ Disconnect \/ PollReturns
Library == EraseSlot \/ PieceArrives \/ WriteStep \/ WriteReturns \/ DownloadFails \/ Retry
Finish  == AckFailed \/ AckDone \/ SystemReset

Next ==
    \/ Loop \/ (\E c \in Commands : OnCommand(c)) \/ OnOta
    \/ Library \/ Finish \/ PowerCycle

(* app_task is always scheduled, and the calls it makes return.            *)
Spec ==
    /\ Init /\ [][Next]_vars
    /\ WF_vars(Loop)
    /\ WF_vars(Library \/ Finish)

-----------------------------------------------------------------------------
(* Types of the flash and of the state of app_task; the interval is never  *)
(* 0, and no more than the image is received.                              *)
TypeOK ==
    /\ FlashTypeOK
    /\ boots \in 1 .. MaxBoots
    /\ app \in {"connect", "loop", "poll", "done", "erase", "download", "failed", "resetting"}
    /\ connects \in 0 .. MaxConnects
    /\ messages \in 0 .. Max({MaxDemo, MaxMessages})
    /\ published \in BOOLEAN
    /\ board_user_led \in BOOLEAN /\ is_demo_mode \in BOOLEAN
    /\ reporting_interval \in (Intervals \ {0}) \cup {2000}
    /\ is_downloading \in BOOLEAN
    /\ answer \in {"none", "downloading", "failed", "done"}
    /\ window \in Windows
    /\ received \in 0 .. ImageSize
    /\ tries \in 0 .. Tries - 1

(* However the image arrives, whatever failed before and wherever the      *)
(* power went, an update that was acknowledged as done is in its slot byte *)
(* for byte, and nothing comes over it before the next update.             *)
DoneMeansWritten == answer = "done" => \A k \in 0 .. ImageSize - 1 : flash[Slot + k] = k

(* A row is read and written back for a part of it, and a write or an      *)
(* erase may be cut short: still nothing outside the slot ever changes.    *)
OtherImagesKept == \A c \in Cells : c < Slot => flash[c] = Other

(* cy_ota_mem_write changes no byte it was not asked to, also where it     *)
(* fails or is cut short: what an earlier piece wrote into the same row    *)
(* stays.                                                                  *)
WritesOnlyWhatIsAsked ==
    [][(mem \in {"next", "merged"}) => \A c \in Cells \ asked : flash'[c] = flash[c]]_vars

(* "Starting address to begin erasing": a successful erase leaves the slot *)
(* erased.                                                                 *)
EraseClears ==
    app = "download" /\ received = 0 => \A c \in Slot .. Slot + SlotSize - 1 : flash[c] = Erased

(* Every accepted update is answered, with one of the two results, before  *)
(* telemetry goes on; the flag that would hold it back is clear again, so  *)
(* that every round of the loop that polls has sent its telemetry.         *)
AnsweredBeforeTelemetry ==
    /\ app \in {"connect", "loop", "poll", "done"} => answer # "downloading" /\ ~is_downloading
    /\ app = "poll" => published

(* A download comes to an end whatever fails: the row loop of              *)
(* cy_ota_mem_write advances, retries are limited, success ends in a reset. *)
DownloadEnds == is_downloading ~> ~is_downloading
=============================================================================
