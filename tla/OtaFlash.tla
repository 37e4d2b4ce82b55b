------------------------------ MODULE OtaFlash ------------------------------
(***************************************************************************)
(* The external flash under an over-the-air update:                        *)
(* proj_cm33_ns/cy_ota_flash.c.  The vendor's memory driver below it is    *)
(* modelled from how it is called: a sector is erased, a cell that is      *)
(* programmed twice with different values is neither.                      *)
(*                                                                         *)
(* The data written here are a stretch of an image whose byte number k is  *)
(* the number k, so that every misplaced byte shows.                       *)
(***************************************************************************)
EXTENDS Integers

CONSTANTS
    CY_FLASH_SIZEOF_ROW,        \* bytes in a row
    EraseSize,                  \* bytes in a sector, a multiple of the row
    FlashSize,                  \* bytes in the flash, a multiple of the sector
    CY_XIP_PORT0_NS_SBUS_BASE,  \* where the non-secure side sees the flash
    CY_XIP_PORT0_S_SBUS_BASE,   \* where the secure side sees it, further up
    FlashFails                  \* TRUE: a call of the memory driver may fail

ASSUME FlashAssumption ==
    /\ CY_FLASH_SIZEOF_ROW \in Nat \ {0}
    /\ {EraseSize, FlashSize, CY_XIP_PORT0_NS_SBUS_BASE, CY_XIP_PORT0_S_SBUS_BASE}
            \subseteq Nat \ {0}
    /\ EraseSize % CY_FLASH_SIZEOF_ROW = 0
    /\ FlashSize % EraseSize = 0
    /\ CY_XIP_PORT0_NS_SBUS_BASE % CY_FLASH_SIZEOF_ROW = 0
    /\ CY_XIP_PORT0_S_SBUS_BASE % CY_FLASH_SIZEOF_ROW = 0
    /\ FlashSize <= CY_XIP_PORT0_NS_SBUS_BASE
    /\ CY_XIP_PORT0_NS_SBUS_BASE + FlashSize <= CY_XIP_PORT0_S_SBUS_BASE
    /\ FlashFails \in BOOLEAN

VARIABLES
    flash,         \* the cells of the flash
    mem,           \* where cy_ota_mem_write is
    curr_addr,
    curr_src,      \* the number of the next byte to write
    bytes_to_write,
    block_buffer,  \* the row that is read, changed and written back
    asked          \* history: the cells the running write was asked to write

writeVars == <<mem, curr_addr, curr_src, bytes_to_write, block_buffer, asked>>
flashVars == <<flash, writeVars>>

Erased == -1
Mixed  == -2
Other  == -3    \* what another image holds

Cells == 0 .. FlashSize - 1

-----------------------------------------------------------------------------
(* An address is taken in the secure, in the non-secure window or as an    *)
(* offset from the start of the flash.                                     *)
Offset(addr) ==
    IF addr >= CY_XIP_PORT0_S_SBUS_BASE THEN addr - CY_XIP_PORT0_S_SBUS_BASE
    ELSE IF addr >= CY_XIP_PORT0_NS_SBUS_BASE THEN addr - CY_XIP_PORT0_NS_SBUS_BASE
    ELSE addr

(* Mutant: the secure window is forgotten.                                 *)
EraseOffsetNonSecureOnly(addr) ==
    IF addr \in CY_XIP_PORT0_NS_SBUS_BASE .. CY_XIP_PORT0_S_SBUS_BASE - 1
    THEN addr - CY_XIP_PORT0_NS_SBUS_BASE ELSE 0

(* cy_ota_mem_erase declares the offset as 0 and leaves it so for the last *)
(* of the three.                                                           *)
EraseOffset(addr) ==
    IF addr >= CY_XIP_PORT0_S_SBUS_BASE THEN addr - CY_XIP_PORT0_S_SBUS_BASE
    ELSE IF addr >= CY_XIP_PORT0_NS_SBUS_BASE THEN addr - CY_XIP_PORT0_NS_SBUS_BASE
    ELSE 0

(* Cy_SMIF_MemEraseSector; n is less than the length when it is cut off.   *)
ErasedFrom(offset, n) ==
    [c \in Cells |-> IF c \in offset .. offset + n - 1 THEN Erased ELSE flash[c]]

(* Cy_SMIF_MemWrite: programming can only take a cell out of its erased    *)
(* state; programming it with what it holds, or with nothing, leaves it.   *)
Programmed(old, new) ==
    IF new \in {old, Erased} THEN old ELSE IF old = Erased THEN new ELSE Mixed

(* The flash after the first n bytes of data are programmed from offset on. *)
ProgrammedFrom(offset, data, n) ==
    [c \in Cells |-> IF c \in offset .. offset + n - 1
                     THEN Programmed(flash[c], data[c - offset]) ELSE flash[c]]

-----------------------------------------------------------------------------
(* cy_ota_mem_write: a full row's worth is written as it is, wherever it   *)
(* starts; less is merged into the row it lies in, up to the row's end.    *)

RowBase   == (curr_addr \div CY_FLASH_SIZEOF_ROW) * CY_FLASH_SIZEOF_ROW
RowOffset == curr_addr - RowBase

IsPartial == bytes_to_write < CY_FLASH_SIZEOF_ROW

(* Mutant: the chunk is not cut at the end of the row.                     *)
ChunkUncut == IF IsPartial THEN bytes_to_write ELSE CY_FLASH_SIZEOF_ROW

ChunkSize ==
    IF ~IsPartial THEN CY_FLASH_SIZEOF_ROW
    ELSE IF RowOffset + bytes_to_write > CY_FLASH_SIZEOF_ROW
         THEN CY_FLASH_SIZEOF_ROW - RowOffset
         ELSE bytes_to_write

RowBytes == 0 .. CY_FLASH_SIZEOF_ROW - 1

FlashInit ==
    /\ mem = "idle"
    /\ curr_addr = 0 /\ curr_src = 0 /\ bytes_to_write = 0
    /\ block_buffer = [i \in RowBytes |-> 0]
    /\ asked = {}

FlashReset ==
    /\ mem' = "idle"
    /\ curr_addr' = 0 /\ curr_src' = 0 /\ bytes_to_write' = 0
    /\ block_buffer' = [i \in RowBytes |-> 0]
    /\ asked' = {}

(* A call to write the bytes from number src on.                           *)
MemWrite(addr, src, len) ==
    /\ mem = "idle"
    /\ mem' = "next"
    /\ curr_addr' = addr
    /\ curr_src' = src
    /\ bytes_to_write' = len
    /\ asked' = Offset(addr) .. Offset(addr) + len - 1
    /\ UNCHANGED <<flash, block_buffer>>

(* Mutant: the data are merged in at the start of the row.                 *)
MergeAtRowStart ==
    /\ mem = "next" /\ bytes_to_write > 0 /\ IsPartial
    /\ block_buffer' = [i \in RowBytes |-> IF i < ChunkSize THEN curr_src + i
                                           ELSE flash[Offset(RowBase) + i]]
    /\ mem' = "merged"
    /\ UNCHANGED <<flash, curr_addr, curr_src, bytes_to_write, asked>>

ReadRow ==
    /\ mem = "next" /\ bytes_to_write > 0 /\ IsPartial
    /\ block_buffer' = [i \in RowBytes |->
                           IF i \in RowOffset .. RowOffset + ChunkSize - 1
                           THEN curr_src + (i - RowOffset)
                           ELSE flash[Offset(RowBase) + i]]
    /\ mem' = "merged"
    /\ UNCHANGED <<flash, curr_addr, curr_src, bytes_to_write, asked>>

(* What is programmed next, and where.                                     *)
Whole   == [i \in RowBytes |-> curr_src + i]
Writing == mem = "merged" \/ (mem = "next" /\ bytes_to_write > 0 /\ ~IsPartial)
WriteRow(n) ==
    IF mem = "merged" THEN ProgrammedFrom(Offset(RowBase), block_buffer, n)
    ELSE ProgrammedFrom(Offset(curr_addr), Whole, n)

(* cy_ota_mem_write_row_size succeeds, and the loop moves on.              *)
ProgramRow ==
    /\ Writing
    /\ flash' = WriteRow(CY_FLASH_SIZEOF_ROW)
    /\ mem' = "next"
    /\ curr_addr' = curr_addr + ChunkSize
    /\ curr_src' = curr_src + ChunkSize
    /\ bytes_to_write' = bytes_to_write - ChunkSize
    /\ UNCHANGED <<block_buffer, asked>>

WriteEnds ==
    /\ mem = "next" /\ bytes_to_write = 0
    /\ mem' = "ok"
    /\ UNCHANGED <<flash, curr_addr, curr_src, bytes_to_write, block_buffer, asked>>

(* The driver reports an error, having programmed any number of bytes.     *)
WriteFails ==
    /\ FlashFails
    /\ Writing \/ (mem = "next" /\ bytes_to_write > 0)
    /\ mem' = "failed"
    /\ IF Writing THEN \E n \in 0 .. CY_FLASH_SIZEOF_ROW : flash' = WriteRow(n)
       ELSE UNCHANGED flash
    /\ UNCHANGED <<curr_addr, curr_src, bytes_to_write, block_buffer, asked>>

Flash == ReadRow \/ ProgramRow \/ WriteEnds \/ WriteFails

-----------------------------------------------------------------------------
(* Types; cy_ota_mem_write is never asked for cells outside the flash.     *)
FlashTypeOK ==
    /\ flash \in [Cells -> {Erased, Mixed, Other} \cup Nat]
    /\ mem \in {"idle", "next", "merged", "ok", "failed"}
    /\ curr_addr \in Nat
    /\ curr_src \in Nat
    /\ bytes_to_write \in Nat
    /\ block_buffer \in [RowBytes -> {Erased, Mixed, Other} \cup Nat]
    /\ asked \subseteq Cells
=============================================================================
