-------------------------- MODULE OtaUpdate_proofs --------------------------
(***************************************************************************)
(* Theorems about OtaUpdate for images, rows, sectors, flashes and pieces  *)
(* of every size, any number of retries and boots, with every failure of   *)
(* the flash.  They are for a library that addresses the slot in one of    *)
(* the two windows of the flash: the offset of an erase is wrong for the   *)
(* third way to give an address, as the run OtaEraseOffset shows.          *)
(***************************************************************************)
EXTENDS OtaUpdate, TLAPS

XipWindows == {CY_XIP_PORT0_NS_SBUS_BASE, CY_XIP_PORT0_S_SBUS_BASE}

row == CY_FLASH_SIZEOF_ROW

(* Byte number k of the slot is number k of the image for the first n, and *)
(* the rest is erased.                                                     *)
Content(n) == \A k \in 0 .. SlotSize - 1 : flash[Slot + k] = IF k < n THEN k ELSE Erased

(* Where in the slot the row of the next byte begins.                      *)
RowStart == (curr_src \div row) * row

(* What a running write has done, has left, and puts together.             *)
Progress ==
    /\ curr_src \in Nat /\ bytes_to_write \in Nat
    /\ curr_src + bytes_to_write = received
    /\ curr_addr = window + Slot + curr_src
    /\ Content(curr_src)
    /\ \E start \in 0 .. curr_src : asked = Slot + start .. Slot + received - 1
MergedRow ==
    /\ bytes_to_write > 0 /\ IsPartial
    /\ \A i \in RowBytes : block_buffer[i] =
            IF RowStart + i < curr_src + ChunkSize THEN RowStart + i ELSE Erased

Downloading ==
    /\ received \in 0 .. ImageSize
    /\ mem \in {"idle", "ok"} => Content(received)
    /\ mem \in {"next", "merged"} => Progress
    /\ mem = "merged" => MergedRow

Quiet == {"connect", "loop", "poll", "done", "resetting"}

FlashInv ==
    /\ window \in Windows
    /\ mem \in {"idle", "next", "merged", "ok", "failed"}
    /\ mem # "idle" => app = "download"
    /\ app = "download" => Downloading
    /\ answer = "done" => app \in Quiet
    /\ app = "resetting" => answer = "done"

OtaInv == FlashInv /\ OtherImagesKept /\ DoneMeansWritten

-----------------------------------------------------------------------------
(* Addresses.                                                              *)

(* The quotient and the remainder of whole numbers.                        *)
LEMMA Division ==
    ASSUME NEW a \in Nat, NEW b \in Nat \ {0}
    PROVE  /\ a \div b \in Nat /\ a % b \in 0 .. b - 1
           /\ a = (a \div b) * b + (a % b) /\ (a \div b) * b \in Nat
<1>1. a \div b \in Int /\ a % b \in 0 .. b - 1 /\ a = (a \div b) * b + (a % b)
  BY SMT
<1>2. a \div b >= 0
  BY <1>1, SMT
<1>3. (a \div b) * b \in Nat
  BY <1>1, <1>2, SMT
<1> QED
  BY <1>1, <1>2, <1>3

(* The slot is a number of rows up to the end of the flash.                *)
LEMMA Sizes ==
    /\ row \in Nat \ {0} /\ Slot \in Nat /\ Slot % row = 0
    /\ FlashSize \in Nat /\ FlashSize % row = 0
    /\ ImageSize \in Nat \ {0} /\ ImageSize <= SlotSize /\ SlotSize \in Nat \ {0}
    /\ Slot + SlotSize = FlashSize
<1>1. ASSUME NEW a \in Nat, NEW b \in Nat \ {0}, NEW c \in Nat \ {0}, a % b = 0, b % c = 0
      PROVE  a % c = 0
  <2>1. PICK x \in Int : a = b * x
    <3>1. a = b * (a \div b)
      BY <1>1, SMT
    <3>2. a \div b \in Int
      BY <1>1, SMT
    <3> QED
      BY <3>1, <3>2
  <2>2. PICK y \in Int : b = c * y
    <3>1. b = c * (b \div c)
      BY <1>1, SMT
    <3>2. b \div c \in Int
      BY <1>1, SMT
    <3> QED
      BY <3>1, <3>2
  <2>3. a = c * (y * x) /\ y * x \in Int
    BY <2>1, <2>2, SMT
  <2>4. \A z \in Int : (c * z) % c = 0
    BY SMT
  <2> QED
    BY <2>3, <2>4
<1>2. EraseSize \in Nat \ {0} /\ row \in Nat \ {0} /\ EraseSize % row = 0
      /\ FlashSize \in Nat \ {0} /\ FlashSize % EraseSize = 0
  BY FlashAssumption DEF FlashAssumption, row
<1>3. Slot \in Nat /\ Slot % EraseSize = 0 /\ ImageSize \in Nat \ {0} /\ Slot + ImageSize <= FlashSize
  BY OtaAssumption DEF OtaAssumption
<1>4. Slot % row = 0 /\ FlashSize % row = 0
  BY <1>1, <1>2, <1>3
<1> QED
  BY <1>2, <1>3, <1>4 DEF SlotSize

(* Every byte of the slot has its offset in both windows.                  *)
LEMMA OffsetInSlot ==
    ASSUME NEW w \in XipWindows, NEW k \in 0 .. SlotSize
    PROVE  /\ k < SlotSize => Offset(w + Slot + k) = Slot + k
           /\ k < SlotSize => EraseOffset(w + Slot + k) = Slot + k
<1>1. /\ CY_XIP_PORT0_NS_SBUS_BASE \in Nat /\ CY_XIP_PORT0_S_SBUS_BASE \in Nat
      /\ CY_XIP_PORT0_NS_SBUS_BASE + FlashSize <= CY_XIP_PORT0_S_SBUS_BASE
  BY FlashAssumption DEF FlashAssumption
<1> QED
  BY <1>1, Sizes DEF XipWindows, Offset, EraseOffset

(* The row that a byte of the slot lies in is the row it lies in counted   *)
(* from the start of the slot, since the slot begins with a row.           *)
LEMMA RowsOfSlot ==
    ASSUME NEW w \in XipWindows, NEW src \in 0 .. SlotSize - 1,
           NEW start, start = (src \div row) * row
    PROVE  /\ start \in Nat /\ start <= src /\ src < start + row
           /\ start + row <= SlotSize
           /\ ((w + Slot + src) \div row) * row = w + Slot + start
<1>1. w \in Nat /\ w % row = 0
  BY FlashAssumption DEF FlashAssumption, XipWindows, row
<1> DEFINE q == src \div row
<1>2. q \in Nat /\ start = q * row /\ start <= src /\ src < start + row /\ start \in Nat
  <2>1. /\ q \in Nat /\ src % row \in 0 .. row - 1
        /\ src = q * row + (src % row) /\ q * row \in Nat
    <3>1. src \in Nat /\ row \in Nat \ {0}
      BY Sizes
    <3> QED
      BY <3>1, Division
  <2> HIDE DEF q
  <2> QED
    BY <2>1, Sizes DEF q
<1>3. \A a \in Nat : a % row = 0 => \E x \in Nat : a = x * row
  <2> SUFFICES ASSUME NEW a \in Nat, a % row = 0 PROVE \E x \in Nat : a = x * row
    OBVIOUS
  <2>1. a = (a \div row) * row /\ a \div row \in Nat
    BY Sizes, SMT
  <2> QED
    BY <2>1
<1>4. PICK x \in Nat : w = x * row
  BY <1>1, <1>3
<1>5. PICK y \in Nat : Slot = y * row
  BY <1>3, Sizes
<1>6. PICK z \in Nat : FlashSize = z * row
  BY <1>3, Sizes
<1>7. SlotSize = (z - y) * row
  <2>1. (z - y) * row = z * row - y * row
    BY Sizes, SMT
  <2> QED
    BY <1>5, <1>6, <2>1 DEF SlotSize
<1> HIDE DEF q
<1>8. start + row <= SlotSize
  <2>1. q < z - y
    <3>1. q * row < (z - y) * row
      BY <1>2, <1>7
    <3> QED
      BY <3>1, <1>2, Sizes, SMT
  <2>2. (q + 1) * row <= (z - y) * row
    BY <2>1, <1>2, Sizes, SMT
  <2>3. (q + 1) * row = q * row + row
    BY <1>2, Sizes, SMT
  <2> QED
    BY <1>2, <1>7, <2>2, <2>3
<1>9. ((w + Slot + src) \div row) * row = w + Slot + start
  <2> DEFINE t == x + y + q
             r == src - start
  <2>1. w + Slot + start = t * row
    BY <1>2, <1>4, <1>5, Sizes, SMT
  <2>2. r \in 0 .. row - 1 /\ t \in Nat /\ w + Slot + src = t * row + r
    BY <1>1, <1>2, <2>1, Sizes
  <2> HIDE DEF t, r
  <2>3. (t * row + r) \div row = t
    BY <2>2, Sizes, SMT
  <2> QED
    BY <2>1, <2>2, <2>3
<1> QED
  BY <1>2, <1>8, <1>9

-----------------------------------------------------------------------------
(* Writing a row.                                                          *)

LEMMA ChunkInRow ==
    ASSUME curr_src \in Nat, bytes_to_write \in Nat \ {0}, curr_src + bytes_to_write <= SlotSize,
           curr_addr = window + Slot + curr_src, window \in XipWindows
    PROVE  /\ ChunkSize \in Nat \ {0} /\ ChunkSize <= bytes_to_write
           /\ RowStart \in Nat /\ RowStart <= curr_src
           /\ IsPartial => /\ curr_src + ChunkSize <= RowStart + row
                           /\ RowBase = window + Slot + RowStart
                           /\ RowOffset = curr_src - RowStart
           /\ ~IsPartial => ChunkSize = row
           /\ RowStart + row <= SlotSize
<1>1. curr_src \in 0 .. SlotSize - 1
  BY Sizes
<1>2. /\ RowStart \in Nat /\ RowStart <= curr_src /\ curr_src < RowStart + row
      /\ RowStart + row <= SlotSize
      /\ ((window + Slot + curr_src) \div row) * row = window + Slot + RowStart
  BY <1>1, RowsOfSlot DEF RowStart
<1>3. RowBase = window + Slot + RowStart
  BY <1>2 DEF RowBase, row
<1>4. window \in Nat /\ Slot \in Nat /\ row \in Nat \ {0}
  BY Sizes, FlashAssumption DEF FlashAssumption, XipWindows
<1>5. RowOffset = curr_src - RowStart
  BY <1>2, <1>3, <1>4 DEF RowOffset
<1>6. IsPartial <=> bytes_to_write < row
  BY DEF IsPartial, row
<1>7. ChunkSize = IF ~IsPartial THEN row
                  ELSE IF RowOffset + bytes_to_write > row THEN row - RowOffset ELSE bytes_to_write
  BY DEF ChunkSize, row
<1> QED
  BY <1>2, <1>3, <1>4, <1>5, <1>6, <1>7

(* Whatever part of a row is programmed, a byte keeps what it held or gets *)
(* the byte of the image that belongs there, and that only in the chunk;   *)
(* and the whole row leaves the whole chunk written.                       *)
LEMMA RowProgrammed ==
    ASSUME window \in XipWindows, Progress, received \in 0 .. ImageSize, Writing,
           mem = "merged" => MergedRow, NEW n \in 0 .. row, NEW c \in Cells
    PROVE  /\ WriteRow(n)[c] # flash[c] =>
                /\ c \in Slot + curr_src .. Slot + curr_src + ChunkSize - 1
                /\ WriteRow(n)[c] = c - Slot
           /\ n = row /\ c \in Slot + curr_src .. Slot + curr_src + ChunkSize - 1
                => WriteRow(n)[c] = c - Slot
<1>1. /\ curr_src \in Nat /\ bytes_to_write \in Nat \ {0} /\ curr_src + bytes_to_write <= SlotSize
      /\ curr_addr = window + Slot + curr_src /\ received <= SlotSize
  BY Sizes DEF Progress, Writing, MergedRow
<1>2. /\ ChunkSize \in Nat \ {0} /\ ChunkSize <= bytes_to_write
      /\ RowStart \in Nat /\ RowStart <= curr_src
      /\ IsPartial => /\ curr_src + ChunkSize <= RowStart + row
                      /\ RowBase = window + Slot + RowStart
      /\ ~IsPartial => ChunkSize = row
      /\ RowStart + row <= SlotSize
  BY <1>1, ChunkInRow
<1>3. /\ Slot \in Nat /\ SlotSize \in Nat /\ row \in Nat \ {0} /\ Slot + SlotSize = FlashSize
      /\ c \in Int /\ 0 <= c /\ c < FlashSize
  BY Sizes DEF Cells
<1>4. RowBytes = 0 .. row - 1
  BY DEF RowBytes, row
<1> DEFINE k == c - Slot
<1>5. k \in 0 .. SlotSize - 1 => flash[c] = IF k < curr_src THEN k ELSE Erased
  <2>1. Slot + k = c
    BY <1>3
  <2> QED
    BY <2>1 DEF Progress, Content
<1>6. Erased = -1
  BY DEF Erased
<1>7. CASE mem = "merged"
  <2>1. MergedRow /\ IsPartial
    BY <1>7 DEF MergedRow
  <2>2. Offset(RowBase) = Slot + RowStart
    <3>1. RowStart \in 0 .. SlotSize /\ RowStart < SlotSize
      BY <1>2, <1>3
    <3> QED
      BY <1>2, <2>1, <3>1, OffsetInSlot
  <2>3. WriteRow(n)[c] = IF c \in Slot + RowStart .. Slot + RowStart + n - 1
                         THEN Programmed(flash[c], block_buffer[c - (Slot + RowStart)]) ELSE flash[c]
    BY <1>7, <2>2 DEF WriteRow, ProgrammedFrom
  <2>4. CASE ~(c \in Slot + RowStart .. Slot + RowStart + n - 1)
    <3>1. n = row => ~(c \in Slot + curr_src .. Slot + curr_src + ChunkSize - 1)
      BY <1>1, <1>2, <1>3, <2>1, <2>4
    <3> QED
      BY <2>3, <2>4, <3>1
  <2>5. CASE c \in Slot + RowStart .. Slot + RowStart + n - 1
    <3> DEFINE i == c - (Slot + RowStart)
    <3>1. i \in RowBytes /\ RowStart + i = k /\ k \in 0 .. SlotSize - 1
      BY <1>2, <1>3, <1>4, <2>5
    <3>2. block_buffer[i] = IF k < curr_src + ChunkSize THEN k ELSE Erased
      BY <2>1, <3>1 DEF MergedRow
    <3>3. flash[c] = IF k < curr_src THEN k ELSE Erased
      BY <1>5, <3>1
    <3>4. WriteRow(n)[c] = Programmed(flash[c], block_buffer[i])
      BY <2>3, <2>5
    <3>5. CASE k < curr_src
      <4>1. WriteRow(n)[c] = flash[c]
        BY <1>1, <1>2, <3>1, <3>2, <3>3, <3>4, <3>5 DEF Programmed
      <4>2. ~(c \in Slot + curr_src .. Slot + curr_src + ChunkSize - 1)
        BY <1>1, <1>2, <1>3, <3>5
      <4> QED
        BY <4>1, <4>2
    <3>6. CASE k >= curr_src /\ k < curr_src + ChunkSize
      <4>1. flash[c] = Erased /\ block_buffer[i] = k
        BY <1>1, <1>2, <3>1, <3>2, <3>3, <3>6
      <4>2. WriteRow(n)[c] = k
        BY <1>6, <3>1, <3>4, <4>1 DEF Programmed
      <4>3. c \in Slot + curr_src .. Slot + curr_src + ChunkSize - 1
        BY <1>1, <1>2, <1>3, <3>6
      <4> QED
        BY <4>2, <4>3
    <3>7. CASE k >= curr_src + ChunkSize
      <4>1. WriteRow(n)[c] = flash[c]
        BY <1>1, <1>2, <3>1, <3>2, <3>3, <3>4, <3>7 DEF Programmed
      <4>2. ~(c \in Slot + curr_src .. Slot + curr_src + ChunkSize - 1)
        BY <1>1, <1>2, <1>3, <3>7
      <4> QED
        BY <4>1, <4>2
    <3> QED
      BY <1>1, <1>2, <3>1, <3>5, <3>6, <3>7
  <2> QED
    BY <2>4, <2>5
<1>8. CASE mem # "merged"
  <2>1. ~IsPartial /\ ChunkSize = row
    BY <1>2, <1>8 DEF Writing
  <2>2. Offset(curr_addr) = Slot + curr_src
    <3>1. curr_src \in 0 .. SlotSize /\ curr_src < SlotSize
      BY <1>1, <1>3
    <3> QED
      BY <1>1, <3>1, OffsetInSlot
  <2>3. WriteRow(n)[c] = IF c \in Slot + curr_src .. Slot + curr_src + n - 1
                         THEN Programmed(flash[c], Whole[c - (Slot + curr_src)]) ELSE flash[c]
    BY <1>8, <2>2 DEF WriteRow, ProgrammedFrom
  <2>4. CASE ~(c \in Slot + curr_src .. Slot + curr_src + n - 1)
    BY <2>1, <2>3, <2>4
  <2>5. CASE c \in Slot + curr_src .. Slot + curr_src + n - 1
    <3> DEFINE i == c - (Slot + curr_src)
    <3>1. i \in RowBytes /\ curr_src + i = k /\ k \in 0 .. SlotSize - 1 /\ k >= curr_src
      BY <1>1, <1>2, <1>3, <1>4, <2>1, <2>5
    <3>2. Whole[i] = k
      BY <3>1 DEF Whole
    <3>3. flash[c] = Erased
      BY <1>1, <1>5, <3>1
    <3>4. WriteRow(n)[c] = k
      BY <1>6, <2>3, <2>5, <3>1, <3>2, <3>3 DEF Programmed
    <3>5. c \in Slot + curr_src .. Slot + curr_src + ChunkSize - 1
      BY <1>1, <1>3, <2>1, <2>5
    <3> QED
      BY <3>4, <3>5
  <2> QED
    BY <2>4, <2>5
<1> QED
  BY <1>7, <1>8

-----------------------------------------------------------------------------
(* The steps that change the flash.                                        *)

(* A piece arrives and cy_ota_mem_write is called.                         *)
LEMMA PieceKept ==
    ASSUME Windows \subseteq XipWindows, OtaInv, PieceArrives
    PROVE  OtaInv'
<1>1. /\ app = "download" /\ mem = "idle" /\ received \in 0 .. ImageSize /\ received < ImageSize
      /\ Content(received) /\ window \in XipWindows
  BY DEF PieceArrives, MemWrite, OtaInv, FlashInv, Downloading
<1>2. PICK n \in Pieces : LET len == Min({n, ImageSize - received})
                         IN  /\ MemWrite(window + Slot + received, received, len)
                             /\ received' = received + len
  BY DEF PieceArrives
<1> DEFINE len == Min({n, ImageSize - received})
<1>3. len \in 1 .. ImageSize - received
  <2>1. n \in Nat \ {0} /\ ImageSize - received \in Nat \ {0}
    BY <1>1, Sizes, OtaAssumption DEF OtaAssumption
  <2>2. \E x \in {n, ImageSize - received} : \A y \in {n, ImageSize - received} : x <= y
    BY <2>1
  <2>3. len \in {n, ImageSize - received} /\ \A y \in {n, ImageSize - received} : len <= y
    BY <2>2, Zenon DEF Min
  <2> HIDE DEF len
  <2> QED
    BY <2>1, <2>3
<1>4. /\ mem' = "next" /\ curr_addr' = window + Slot + received /\ curr_src' = received
      /\ bytes_to_write' = len /\ received' = received + len
      /\ asked' = Offset(window + Slot + received) .. Offset(window + Slot + received) + len - 1
      /\ flash' = flash
  BY <1>2 DEF MemWrite
<1> HIDE DEF len
<1>5. app' = app /\ window' = window /\ answer' = answer
  BY DEF PieceArrives, loopVars
<1>6. Offset(window + Slot + received) = Slot + received
  BY <1>1, Sizes, OffsetInSlot
<1>7. received' \in 0 .. ImageSize
  BY <1>1, <1>3, <1>4, Sizes
<1>8. Progress'
  <2>1. curr_src' \in Nat /\ bytes_to_write' \in Nat /\ curr_src' + bytes_to_write' = received'
    BY <1>1, <1>3, <1>4, Sizes
  <2>2. asked' = Slot + received .. Slot + received' - 1
    BY <1>1, <1>3, <1>4, <1>6, Sizes
  <2>3. received \in 0 .. curr_src'
    BY <1>1, <1>4, Sizes
  <2>4. Content(curr_src)'
    BY <1>1, <1>4 DEF Content
  <2> QED
    BY <1>4, <1>5, <2>1, <2>2, <2>3, <2>4 DEF Progress
<1>9. FlashInv'
  BY <1>1, <1>4, <1>5, <1>7, <1>8 DEF OtaInv, FlashInv, Downloading, Quiet
<1> QED
  BY <1>4, <1>5, <1>9 DEF OtaInv, OtherImagesKept, DoneMeansWritten

(* A row is read for the part of it that is to change.                     *)
LEMMA ReadKept ==
    ASSUME Windows \subseteq XipWindows, OtaInv, ReadRow,
           UNCHANGED <<boots, loopVars, settingVars, downloadVars>>
    PROVE  OtaInv'
<1>1. /\ mem = "next" /\ bytes_to_write > 0 /\ IsPartial
      /\ mem' = "merged" /\ flash' = flash /\ curr_addr' = curr_addr /\ curr_src' = curr_src
      /\ bytes_to_write' = bytes_to_write /\ asked' = asked
      /\ block_buffer' = [i \in RowBytes |->
                             IF i \in RowOffset .. RowOffset + ChunkSize - 1
                             THEN curr_src + (i - RowOffset)
                             ELSE flash[Offset(RowBase) + i]]
  BY DEF ReadRow
<1>2. app' = app /\ window' = window /\ answer' = answer /\ received' = received
  BY DEF loopVars, downloadVars
<1>3. app = "download" /\ Progress /\ received \in 0 .. ImageSize /\ window \in XipWindows
  BY <1>1 DEF OtaInv, FlashInv, Downloading
<1>4. /\ curr_src \in Nat /\ bytes_to_write \in Nat \ {0} /\ curr_src + bytes_to_write <= SlotSize
      /\ curr_addr = window + Slot + curr_src
  BY <1>1, <1>3, Sizes DEF Progress
<1>5. /\ ChunkSize \in Nat \ {0}
      /\ RowStart \in Nat /\ RowStart <= curr_src
      /\ curr_src + ChunkSize <= RowStart + row
      /\ RowBase = window + Slot + RowStart /\ RowOffset = curr_src - RowStart
      /\ RowStart + row <= SlotSize
  BY <1>1, <1>3, <1>4, ChunkInRow
<1>6. row \in Nat \ {0} /\ Slot \in Nat /\ SlotSize \in Nat /\ RowBytes = 0 .. row - 1
  BY Sizes DEF RowBytes, row
<1>7. Offset(RowBase) = Slot + RowStart
  <2>1. RowStart \in 0 .. SlotSize /\ RowStart < SlotSize
    BY <1>5, <1>6
  <2> QED
    BY <1>3, <1>5, <2>1, OffsetInSlot
<1>8. ASSUME NEW i \in RowBytes
      PROVE  block_buffer'[i] = IF RowStart + i < curr_src + ChunkSize THEN RowStart + i ELSE Erased
  <2>1. i \in 0 .. row - 1 /\ RowStart + i \in 0 .. SlotSize - 1
    BY <1>5, <1>6
  <2>2. flash[Slot + (RowStart + i)] = IF RowStart + i < curr_src THEN RowStart + i ELSE Erased
    BY <1>3, <2>1 DEF Progress, Content
  <2>3. Slot + (RowStart + i) = Offset(RowBase) + i
    BY <1>5, <1>6, <1>7, <2>1
  <2>4. block_buffer'[i] = IF i \in RowOffset .. RowOffset + ChunkSize - 1
                           THEN curr_src + (i - RowOffset) ELSE flash[Slot + (RowStart + i)]
    BY <1>1, <2>3
  <2>5. i \in RowOffset .. RowOffset + ChunkSize - 1
            <=> curr_src <= RowStart + i /\ RowStart + i < curr_src + ChunkSize
    BY <1>4, <1>5, <2>1
  <2>6. CASE i \in RowOffset .. RowOffset + ChunkSize - 1
    <3>1. curr_src + (i - RowOffset) = RowStart + i
      BY <1>4, <1>5, <2>1
    <3> QED
      BY <2>4, <2>5, <2>6, <3>1
  <2>7. CASE i \notin RowOffset .. RowOffset + ChunkSize - 1
    <3>1. RowStart + i < curr_src <=> RowStart + i < curr_src + ChunkSize
      BY <1>4, <1>5, <2>1, <2>5, <2>7
    <3> QED
      BY <2>2, <2>4, <2>7, <3>1
  <2> QED
    BY <2>6, <2>7
<1>9. RowStart' = RowStart /\ ChunkSize' = ChunkSize /\ IsPartial' /\ bytes_to_write' > 0
  <2>1. RowOffset' = RowOffset /\ (IsPartial' <=> IsPartial)
    BY <1>1 DEF RowOffset, RowBase, IsPartial
  <2> QED
    BY <1>1, <2>1 DEF RowStart, ChunkSize
<1>10. MergedRow'
  BY <1>1, <1>8, <1>9, Zenon DEF MergedRow
<1>11. Progress'
  BY <1>1, <1>2, <1>3 DEF Progress, Content
<1>12. FlashInv'
  BY <1>1, <1>2, <1>3, <1>10, <1>11 DEF OtaInv, FlashInv, Downloading, Quiet
<1> QED
  BY <1>1, <1>2, <1>12 DEF OtaInv, OtherImagesKept, DoneMeansWritten

(* Cells outside the slot, when part of a row was programmed.              *)
LEMMA RowInSlot ==
    ASSUME Windows \subseteq XipWindows, OtaInv, Writing, NEW n \in 0 .. row
    PROVE  \A c \in Cells : c < Slot => WriteRow(n)[c] = Other
<1>1. /\ window \in XipWindows /\ Progress /\ received \in 0 .. ImageSize
      /\ mem = "merged" => MergedRow
  BY DEF OtaInv, FlashInv, Downloading, Writing
<1>2. curr_src \in Nat /\ Slot \in Nat
  BY <1>1, Sizes DEF Progress
<1> QED
  <2> SUFFICES ASSUME NEW c \in Cells, c < Slot PROVE WriteRow(n)[c] = Other
    OBVIOUS
  <2>1. c \notin Slot + curr_src .. Slot + curr_src + ChunkSize - 1
    BY <1>2, Sizes DEF Cells
  <2>2. WriteRow(n)[c] = flash[c]
    BY <1>1, <2>1, RowProgrammed
  <2> QED
    BY <2>2 DEF OtaInv, OtherImagesKept

(* A row is programmed.                                                    *)
LEMMA ProgramKept ==
    ASSUME Windows \subseteq XipWindows, OtaInv, ProgramRow,
           UNCHANGED <<boots, loopVars, settingVars, downloadVars>>
    PROVE  OtaInv'
<1>1. /\ Writing /\ flash' = WriteRow(row) /\ mem' = "next"
      /\ curr_addr' = curr_addr + ChunkSize /\ curr_src' = curr_src + ChunkSize
      /\ bytes_to_write' = bytes_to_write - ChunkSize /\ asked' = asked
  BY DEF ProgramRow, row
<1>2. app' = app /\ window' = window /\ answer' = answer /\ received' = received
  BY DEF loopVars, downloadVars
<1>3. /\ app = "download" /\ Progress /\ received \in 0 .. ImageSize /\ window \in XipWindows
      /\ mem = "merged" => MergedRow
  BY <1>1 DEF OtaInv, FlashInv, Downloading, Writing
<1>4. /\ curr_src \in Nat /\ bytes_to_write \in Nat \ {0} /\ curr_src + bytes_to_write <= SlotSize
      /\ curr_addr = window + Slot + curr_src /\ curr_src + bytes_to_write = received
  BY <1>1, <1>3, Sizes DEF Progress, Writing, MergedRow
<1>5. ChunkSize \in Nat \ {0} /\ ChunkSize <= bytes_to_write
  BY <1>3, <1>4, ChunkInRow
<1>6. row \in 0 .. row /\ Slot \in Nat /\ SlotSize \in Nat /\ Slot + SlotSize = FlashSize
      /\ FlashSize \in Nat /\ window \in Nat
  BY <1>3, Sizes, FlashAssumption DEF FlashAssumption, XipWindows
<1>7. Content(curr_src)'
  <2>1. ASSUME NEW k \in 0 .. SlotSize - 1
        PROVE  WriteRow(row)[Slot + k] = IF k < curr_src + ChunkSize THEN k ELSE Erased
    <3>1. Slot + k \in Cells /\ (Slot + k) - Slot = k
      BY <1>6 DEF Cells
    <3>2. flash[Slot + k] = IF k < curr_src THEN k ELSE Erased
      BY <1>3 DEF Progress, Content
    <3>3. CASE Slot + k \in Slot + curr_src .. Slot + curr_src + ChunkSize - 1
      <4>1. WriteRow(row)[Slot + k] = k
        BY <1>1, <1>3, <1>6, <3>1, <3>3, RowProgrammed
      <4> QED
        BY <1>4, <1>5, <1>6, <3>3, <4>1
    <3>4. CASE Slot + k \notin Slot + curr_src .. Slot + curr_src + ChunkSize - 1
      <4>1. WriteRow(row)[Slot + k] = flash[Slot + k]
        BY <1>1, <1>3, <1>6, <3>1, <3>4, RowProgrammed
      <4>2. k < curr_src \/ ~(k < curr_src + ChunkSize)
        BY <1>4, <1>5, <1>6, <3>4
      <4>3. k < curr_src => k < curr_src + ChunkSize
        BY <1>4, <1>5
      <4> QED
        BY <3>2, <4>1, <4>2, <4>3
    <3> QED
      BY <3>3, <3>4
  <2> QED
    BY <1>1, <2>1 DEF Content
<1>8. Progress'
  <2>1. /\ curr_src' \in Nat /\ bytes_to_write' \in Nat /\ curr_src' + bytes_to_write' = received'
        /\ curr_addr' = window' + Slot + curr_src'
    BY <1>1, <1>2, <1>4, <1>5, <1>6
  <2>2. \E start \in 0 .. curr_src' : asked' = Slot + start .. Slot + received' - 1
    <3>1. PICK start \in 0 .. curr_src : asked = Slot + start .. Slot + received - 1
      BY <1>3 DEF Progress
    <3>2. start \in 0 .. curr_src'
      BY <1>1, <1>4, <1>5
    <3> QED
      BY <1>1, <1>2, <3>1, <3>2
  <2> QED
    BY <1>7, <2>1, <2>2 DEF Progress
<1>9. FlashInv'
  BY <1>1, <1>2, <1>3, <1>8 DEF OtaInv, FlashInv, Downloading, Quiet
<1>10. OtherImagesKept'
  BY <1>1, <1>6, RowInSlot DEF OtherImagesKept
<1>11. answer # "done"
  BY <1>3 DEF OtaInv, FlashInv, Quiet
<1> QED
  BY <1>2, <1>9, <1>10, <1>11 DEF OtaInv, DoneMeansWritten

(* The slot is erased, or part of it.                                      *)
LEMMA ErasedSlot ==
    ASSUME Windows \subseteq XipWindows, OtaInv, NEW n \in 0 .. SlotSize
    PROVE  /\ \A c \in Cells : c < Slot => ErasedFrom(EraseOffset(window + Slot), n)[c] = Other
           /\ \A k \in 0 .. SlotSize - 1 :
                n = SlotSize => ErasedFrom(EraseOffset(window + Slot), n)[Slot + k] = Erased
<1>1. window \in XipWindows /\ window \in Nat
  BY FlashAssumption DEF FlashAssumption, OtaInv, FlashInv, XipWindows
<1>2. Slot \in Nat /\ SlotSize \in Nat \ {0} /\ Slot + SlotSize = FlashSize /\ FlashSize \in Nat
  BY Sizes
<1>3. EraseOffset(window + Slot) = Slot
  <2>1. 0 \in 0 .. SlotSize /\ 0 < SlotSize /\ window + Slot + 0 = window + Slot /\ Slot + 0 = Slot
    BY <1>1, <1>2
  <2> QED
    BY <1>1, <2>1, OffsetInSlot
<1>4. ASSUME NEW c \in Cells, c < Slot PROVE ErasedFrom(Slot, n)[c] = Other
  <2>1. c \notin Slot .. Slot + n - 1
    BY <1>2, <1>4 DEF Cells
  <2> QED
    BY <1>4, <2>1 DEF ErasedFrom, OtaInv, OtherImagesKept
<1>5. ASSUME NEW k \in 0 .. SlotSize - 1, n = SlotSize PROVE ErasedFrom(Slot, n)[Slot + k] = Erased
  <2>1. Slot + k \in Cells /\ Slot + k \in Slot .. Slot + n - 1
    BY <1>2, <1>5 DEF Cells
  <2> QED
    BY <2>1 DEF ErasedFrom
<1> QED
  BY <1>3, <1>4, <1>5

-----------------------------------------------------------------------------
(* The inductive invariant.                                                *)

(* Steps that leave the flash and its driver alone and stay in the loops.  *)
LEMMA LoopKept ==
    ASSUME OtaInv, app \in Quiet, UNCHANGED <<flashVars, window, answer>>,
           app' \in Quiet \ {"resetting"}
    PROVE  OtaInv'
<1>1. mem' = mem /\ flash' = flash /\ window' = window /\ answer' = answer /\ mem = "idle"
  BY DEF flashVars, writeVars, OtaInv, FlashInv, Quiet
<1>2. FlashInv'
  BY <1>1 DEF OtaInv, FlashInv, Quiet
<1> QED
  BY <1>1, <1>2 DEF OtaInv, OtherImagesKept, DoneMeansWritten

(* A reset or a loss of power.                                             *)
LEMMA BootKept ==
    ASSUME OtaInv, NEW contents, Boot(contents),
           answer = "done" => contents = {flash},
           \A f \in contents : \A c \in Cells : c < Slot => f[c] = Other
    PROVE  OtaInv'
<1>1. /\ mem' = "idle" /\ flash' \in contents /\ app' = "connect" /\ window' = window
      /\ answer' = IF answer = "done" THEN "done" ELSE "none"
  BY DEF Boot, FlashReset
<1>2. FlashInv'
  BY <1>1 DEF OtaInv, FlashInv, Quiet
<1>3. OtherImagesKept'
  BY <1>1 DEF OtherImagesKept
<1>4. DoneMeansWritten'
  BY <1>1 DEF OtaInv, DoneMeansWritten
<1> QED
  BY <1>2, <1>3, <1>4 DEF OtaInv

LEMMA OtaInductive ==
    ASSUME Windows \subseteq XipWindows PROVE Spec => []OtaInv
<1>1. Init => OtaInv
  <2> SUFFICES ASSUME Init PROVE OtaInv
    OBVIOUS
  <2>1. mem = "idle" /\ app = "connect" /\ answer = "none" /\ window \in Windows
    BY DEF Init, FlashInit
  <2>2. FlashInv
    BY <2>1 DEF FlashInv, Quiet
  <2>3. OtherImagesKept
    BY DEF Init, OtherImagesKept
  <2> QED
    BY <2>1, <2>2, <2>3 DEF OtaInv, DoneMeansWritten
<1>2. OtaInv /\ [Next]_vars => OtaInv'
  <2> SUFFICES ASSUME OtaInv, [Next]_vars PROVE OtaInv'
    OBVIOUS
  <2>1. CASE Loop
    <3>1. UNCHANGED <<flashVars, window, answer>> /\ app \in Quiet /\ app' \in Quiet \ {"resetting"}
      BY <2>1 DEF Loop, Connect, Publish, Disconnect, PollReturns, AppStep, downloadVars, Quiet
    <3> QED
      BY <3>1, LoopKept
  <2>2. CASE \E c \in Commands : OnCommand(c)
    <3>1. UNCHANGED <<flashVars, window, answer>> /\ app = "poll" /\ app' = "poll"
      BY <2>2 DEF OnCommand, AppStep, downloadVars
    <3> QED
      BY <3>1, LoopKept DEF Quiet
  <2>3. CASE OnOta
    <3>1. /\ app' = "erase" /\ answer' = "downloading" /\ window' \in Windows
          /\ mem' = mem /\ flash' = flash /\ mem = "idle"
      BY <2>3 DEF OnOta, AppStep, flashVars, writeVars, OtaInv, FlashInv
    <3>2. FlashInv'
      BY <3>1 DEF FlashInv, Quiet
    <3> QED
      BY <3>1, <3>2 DEF OtaInv, OtherImagesKept, DoneMeansWritten
  <2>4. CASE EraseSlot
    <3>1. /\ app = "erase" /\ mem' = mem /\ mem = "idle" /\ received' = 0
          /\ window' = window /\ answer' = answer /\ answer # "done"
      BY <2>4 DEF EraseSlot, writeVars, OtaInv, FlashInv, Quiet
    <3>2. CASE app' = "failed" /\ UNCHANGED flash
      BY <3>1, <3>2 DEF OtaInv, FlashInv, OtherImagesKept, DoneMeansWritten, Quiet
    <3>3. CASE app' = "download" /\ flash' = ErasedFrom(EraseOffset(window + Slot), SlotSize)
      <4>1. SlotSize \in 0 .. SlotSize
        BY Sizes
      <4>2. /\ \A c \in Cells : c < Slot => flash'[c] = Other
            /\ \A k \in 0 .. SlotSize - 1 : flash'[Slot + k] = Erased
        BY <3>3, <4>1, ErasedSlot
      <4>3. Content(received)'
        BY <3>1, <4>2, Sizes DEF Content
      <4>4. 0 \in 0 .. ImageSize
        BY Sizes
      <4>5. FlashInv'
        BY <3>1, <3>3, <4>3, <4>4 DEF OtaInv, FlashInv, Downloading
      <4> QED
        BY <3>1, <4>2, <4>5 DEF OtaInv, OtherImagesKept, DoneMeansWritten
    <3> QED
      BY <2>4, <3>2, <3>3 DEF EraseSlot
  <2>5. CASE PieceArrives
    BY <2>5, PieceKept
  <2>6. CASE WriteStep
    <3> USE <2>6 DEF WriteStep
    <3>1. CASE ReadRow
      BY <3>1, ReadKept
    <3>2. CASE ProgramRow
      BY <3>2, ProgramKept
    <3>3. app' = app /\ window' = window /\ answer' = answer /\ received' = received
      BY DEF loopVars, downloadVars
    <3>4. CASE WriteEnds
      <4>1. mem = "next" /\ bytes_to_write = 0 /\ mem' = "ok" /\ flash' = flash
        BY <3>4 DEF WriteEnds
      <4>2. app = "download" /\ Progress /\ received \in 0 .. ImageSize /\ curr_src = received
        BY <4>1, Sizes DEF OtaInv, FlashInv, Downloading, Progress
      <4>3. Content(received)'
        BY <3>3, <4>1, <4>2 DEF Progress, Content
      <4>4. FlashInv'
        BY <3>3, <4>1, <4>2, <4>3 DEF OtaInv, FlashInv, Downloading, Quiet
      <4> QED
        BY <3>3, <4>1, <4>4 DEF OtaInv, OtherImagesKept, DoneMeansWritten
    <3>5. CASE WriteFails
      <4>1. app = "download" /\ mem' = "failed" /\ received \in 0 .. ImageSize /\ answer # "done"
        BY <3>5 DEF WriteFails, Writing, OtaInv, FlashInv, Downloading, Quiet
      <4>2. FlashInv'
        BY <3>3, <4>1 DEF OtaInv, FlashInv, Downloading
      <4>3. OtherImagesKept'
        <5>1. CASE Writing
          <6>1. PICK n \in 0 .. row : flash' = WriteRow(n)
            BY <3>5, <5>1 DEF WriteFails, row
          <6> QED
            BY <5>1, <6>1, RowInSlot DEF OtherImagesKept
        <5>2. CASE ~Writing
          BY <3>5, <5>2 DEF WriteFails, OtaInv, OtherImagesKept
        <5> QED
          BY <5>1, <5>2
      <4> QED
        BY <3>3, <4>1, <4>2, <4>3 DEF OtaInv, DoneMeansWritten
    <3> QED
      BY <3>1, <3>2, <3>4, <3>5 DEF Flash
  <2>7. CASE WriteReturns
    <3>1. /\ mem \in {"ok", "failed"} /\ mem' = "idle" /\ app = "download" /\ flash' = flash
          /\ app' = (IF mem = "ok" THEN "download" ELSE "failed")
          /\ window' = window /\ answer' = answer /\ received' = received /\ answer # "done"
      BY <2>7 DEF WriteReturns, downloadVars, OtaInv, FlashInv, Quiet
    <3>2. FlashInv'
      BY <3>1 DEF OtaInv, FlashInv, Downloading, Content
    <3> QED
      BY <3>1, <3>2 DEF OtaInv, OtherImagesKept, DoneMeansWritten
  <2>8. CASE DownloadFails \/ Retry
    <3>1. /\ app' \in {"failed", "erase"} /\ mem' = mem /\ mem = "idle" /\ flash' = flash
          /\ window' = window /\ answer' = answer /\ answer # "done"
      BY <2>8 DEF DownloadFails, Retry, AppStep, downloadVars, flashVars, writeVars,
                  OtaInv, FlashInv, Quiet
    <3>2. FlashInv'
      BY <3>1 DEF OtaInv, FlashInv
    <3> QED
      BY <3>1, <3>2 DEF OtaInv, OtherImagesKept, DoneMeansWritten
  <2>9. CASE AckFailed
    <3>1. /\ app' = "poll" /\ mem' = mem /\ mem = "idle" /\ flash' = flash
          /\ window' = window /\ answer' = "failed"
      BY <2>9 DEF AckFailed, AppStep, flashVars, writeVars, OtaInv, FlashInv
    <3>2. FlashInv'
      BY <3>1 DEF OtaInv, FlashInv
    <3> QED
      BY <3>1, <3>2 DEF OtaInv, OtherImagesKept, DoneMeansWritten
  <2>10. CASE AckDone
    <3>1. /\ app = "download" /\ app' = "resetting" /\ mem' = mem /\ mem = "idle" /\ flash' = flash
          /\ window' = window /\ answer' = "done" /\ received = ImageSize
      BY <2>10 DEF AckDone, AppStep, flashVars, writeVars
    <3>2. FlashInv'
      BY <3>1 DEF OtaInv, FlashInv, Quiet
    <3>3. \A k \in 0 .. ImageSize - 1 : flash[Slot + k] = k
      <4>1. Content(ImageSize)
        BY <3>1 DEF OtaInv, FlashInv, Downloading
      <4> QED
        BY <4>1, Sizes DEF Content
    <3> QED
      BY <3>1, <3>2, <3>3 DEF OtaInv, OtherImagesKept, DoneMeansWritten
  <2>11. CASE SystemReset
    <3>1. Boot({flash})
      BY <2>11 DEF SystemReset
    <3> QED
      BY <3>1, BootKept DEF OtaInv, OtherImagesKept
  <2>12. CASE PowerCycle
    <3> DEFINE contents ==
            IF app = "erase" THEN {ErasedFrom(EraseOffset(window + Slot), n) : n \in 0 .. SlotSize}
            ELSE IF Writing THEN {WriteRow(n) : n \in 0 .. row}
            ELSE {flash}
    <3>1. Boot(contents)
      BY <2>12 DEF PowerCycle, row
    <3>2. answer = "done" => contents = {flash}
      BY DEF OtaInv, FlashInv, Quiet, Writing
    <3>3. \A f \in contents : \A c \in Cells : c < Slot => f[c] = Other
      <4>1. CASE app = "erase"
        BY <4>1, ErasedSlot
      <4>2. CASE app # "erase" /\ Writing
        BY <4>2, RowInSlot
      <4>3. CASE app # "erase" /\ ~Writing
        BY <4>3 DEF OtaInv, OtherImagesKept
      <4> QED
        BY <4>1, <4>2, <4>3
    <3> HIDE DEF contents
    <3> QED
      BY <3>1, <3>2, <3>3, BootKept
  <2>13. CASE UNCHANGED vars
    <3>1. /\ mem' = mem /\ flash' = flash /\ window' = window /\ answer' = answer /\ app' = app
          /\ received' = received /\ curr_src' = curr_src /\ curr_addr' = curr_addr
          /\ bytes_to_write' = bytes_to_write /\ asked' = asked /\ block_buffer' = block_buffer
      BY <2>13 DEF vars, flashVars, writeVars, loopVars, downloadVars
    <3>2. Progress => Progress'
      BY <3>1 DEF Progress, Content
    <3>3. MergedRow => MergedRow'
      BY <3>1 DEF MergedRow, IsPartial, RowStart, ChunkSize, RowOffset, RowBase
    <3>4. FlashInv'
      BY <3>1, <3>2, <3>3 DEF OtaInv, FlashInv, Downloading, Content
    <3> QED
      BY <3>1, <3>4 DEF OtaInv, OtherImagesKept, DoneMeansWritten
  <2> QED
    BY <2>1, <2>2, <2>3, <2>4, <2>5, <2>6, <2>7, <2>8, <2>9, <2>10, <2>11, <2>12, <2>13
    DEF Next, Library, Finish
<1> QED
  BY <1>1, <1>2, PTL DEF Spec

-----------------------------------------------------------------------------
(* What an update leaves in the flash.                                     *)

(* An update that app_task has acknowledged as done is in its slot byte    *)
(* for byte: cy_ota_mem_write puts pieces of any length together over      *)
(* failed tries and losses of power.                                       *)
THEOREM DoneIsWritten ==
    ASSUME Windows \subseteq XipWindows PROVE Spec => []DoneMeansWritten
<1>1. OtaInv => DoneMeansWritten
  BY DEF OtaInv
<1> QED
  BY <1>1, OtaInductive, PTL

(* cy_ota_mem_erase and cy_ota_mem_write never touch what is in front of   *)
(* the slot, also where they fail or are cut short.                        *)
THEOREM OtherImagesAreKept ==
    ASSUME Windows \subseteq XipWindows PROVE Spec => []OtherImagesKept
<1>1. OtaInv => OtherImagesKept
  BY DEF OtaInv
<1> QED
  BY <1>1, OtaInductive, PTL

(* While cy_ota_mem_write runs nothing changes but the bytes it was called *)
(* for, although whole rows are programmed.                                *)
THEOREM NothingElseIsWritten ==
    ASSUME Windows \subseteq XipWindows PROVE Spec => WritesOnlyWhatIsAsked
<1>1. OtaInv /\ [Next]_vars
        => [(mem \in {"next", "merged"}) => \A c \in Cells \ asked : flash'[c] = flash[c]]_vars
  <2> SUFFICES ASSUME OtaInv, Next, mem \in {"next", "merged"}, NEW c \in Cells, c \notin asked
               PROVE  flash'[c] = flash[c]
    OBVIOUS
  <2>1. /\ app = "download" /\ Progress /\ received \in 0 .. ImageSize /\ window \in XipWindows
        /\ mem = "merged" => MergedRow
    BY DEF OtaInv, FlashInv, Downloading
  <2>2. ASSUME Writing, NEW n \in 0 .. row PROVE WriteRow(n)[c] = flash[c]
    <3>1. PICK start \in 0 .. curr_src : asked = Slot + start .. Slot + received - 1
      BY <2>1 DEF Progress
    <3>2. /\ curr_src \in Nat /\ bytes_to_write \in Nat \ {0} /\ curr_src + bytes_to_write = received
          /\ curr_src + bytes_to_write <= SlotSize /\ curr_addr = window + Slot + curr_src
      BY <2>1, <2>2, Sizes DEF Progress, Writing, MergedRow
    <3>3. ChunkSize \in Nat \ {0} /\ ChunkSize <= bytes_to_write
      BY <2>1, <3>2, ChunkInRow
    <3>4. c \notin Slot + curr_src .. Slot + curr_src + ChunkSize - 1
      BY <3>1, <3>2, <3>3, Sizes DEF Cells
    <3> QED
      BY <2>1, <2>2, <3>4, RowProgrammed
  <2>3. CASE WriteStep
    <3>1. CASE ReadRow \/ WriteEnds
      BY <3>1 DEF ReadRow, WriteEnds
    <3>2. CASE ProgramRow
      <4>1. Writing /\ flash' = WriteRow(row) /\ row \in 0 .. row
        BY <3>2, Sizes DEF ProgramRow, row
      <4> QED
        BY <2>2, <4>1
    <3>3. CASE WriteFails
      <4>1. CASE Writing
        <5>1. PICK n \in 0 .. row : flash' = WriteRow(n)
          BY <3>3, <4>1 DEF WriteFails, row
        <5> QED
          BY <2>2, <4>1, <5>1
      <4>2. CASE ~Writing
        BY <3>3, <4>2 DEF WriteFails
      <4> QED
        BY <4>1, <4>2
    <3> QED
      BY <2>3, <3>1, <3>2, <3>3 DEF WriteStep, Flash
  <2>4. CASE PowerCycle
    <3>1. CASE Writing
      <4>1. PICK n \in 0 .. row : flash' = WriteRow(n)
        BY <2>1, <2>4, <3>1 DEF PowerCycle, Boot, row
      <4> QED
        BY <2>2, <3>1, <4>1
    <3>2. CASE ~Writing
      BY <2>1, <2>4, <3>2 DEF PowerCycle, Boot
    <3> QED
      BY <3>1, <3>2
  <2>5. ~Loop /\ ~(\E d \in Commands : OnCommand(d)) /\ ~OnOta
    BY <2>1 DEF Loop, Connect, Publish, Disconnect, PollReturns, OnCommand, OnOta, AppStep
  <2>6. ~EraseSlot /\ ~PieceArrives /\ ~WriteReturns /\ ~DownloadFails /\ ~Retry /\ ~Finish
    BY <2>1 DEF EraseSlot, PieceArrives, MemWrite, WriteReturns, DownloadFails, Retry, AppStep,
                Finish, AckFailed, AckDone, SystemReset
  <2> QED
    BY <2>3, <2>4, <2>5, <2>6 DEF Next, Library
<1> QED
  BY <1>1, OtaInductive, PTL DEF Spec, WritesOnlyWhatIsAsked

(* The round that polls has published, and has while a download runs in it. *)
Answered ==
    /\ AnsweredBeforeTelemetry
    /\ app \in {"poll", "erase", "download", "failed"} \/ mem # "idle" => published

(* app_task answers every update it accepted before telemetry goes on, and *)
(* the flag of the download is clear again: no round is left without its   *)
(* telemetry.                                                              *)
THEOREM UpdatesAreAnswered == Spec => []AnsweredBeforeTelemetry
<1>1. Init => Answered
  BY DEF Init, FlashInit, Answered, AnsweredBeforeTelemetry
<1>2. Answered /\ [Next]_vars => Answered'
  <2> SUFFICES ASSUME Answered, [Next]_vars PROVE Answered'
    OBVIOUS
  <2> USE DEF Answered, AnsweredBeforeTelemetry
  <2>1. CASE Loop
    <3>1. CASE Connect
      BY <3>1 DEF Connect, AppStep, flashVars, writeVars, downloadVars
    <3>2. CASE Publish
      <4>1. app = "loop" /\ app' = "poll" /\ published' = ~is_downloading
            /\ is_downloading' = is_downloading /\ answer' = answer
        BY <3>2, Zenon DEF Publish, AppStep, flashVars, writeVars, downloadVars
      <4>2. ~is_downloading /\ answer # "downloading"
        BY <4>1
      <4>3. published'
        BY <4>1, <4>2, Zenon
      <4> QED
        BY <4>1, <4>2, <4>3
    <3>3. CASE Disconnect \/ PollReturns
      BY <3>3 DEF Disconnect, PollReturns, AppStep, flashVars, writeVars, downloadVars
    <3> QED
      BY <2>1, <3>1, <3>2, <3>3 DEF Loop
  <2>2. CASE \E c \in Commands : OnCommand(c)
    BY <2>2 DEF OnCommand, AppStep, flashVars, writeVars, downloadVars
  <2>3. CASE OnOta
    BY <2>3 DEF OnOta, AppStep
  <2>4. CASE EraseSlot \/ PieceArrives \/ WriteStep \/ WriteReturns \/ DownloadFails \/ Retry
    <3>1. CASE EraseSlot
      BY <3>1 DEF EraseSlot
    <3>2. CASE PieceArrives
      BY <3>2 DEF PieceArrives, loopVars
    <3>3. CASE WriteStep
      <4>1. app' = app /\ published' = published /\ answer' = answer /\ is_downloading' = is_downloading
        BY <3>3, Zenon DEF WriteStep, loopVars, downloadVars
      <4>2. mem # "idle"
        BY <3>3 DEF WriteStep, Flash, ReadRow, ProgramRow, WriteEnds, WriteFails, Writing
      <4> QED
        BY <4>1, <4>2
    <3>4. CASE WriteReturns
      <4>1. /\ app' \in {"download", "failed"} /\ published' = published
            /\ mem \in {"ok", "failed"}
        BY <3>4 DEF WriteReturns
      <4> QED
        BY <4>1
    <3>5. CASE DownloadFails \/ Retry
      BY <3>5 DEF DownloadFails, Retry, AppStep
    <3> QED
      BY <2>4, <3>1, <3>2, <3>3, <3>4, <3>5
  <2>5. CASE AckFailed
    BY <2>5 DEF AckFailed, AppStep
  <2>6. CASE AckDone
    BY <2>6 DEF AckDone, AppStep
  <2>7. CASE SystemReset \/ PowerCycle
    <3>1. /\ answer' = "done" \/ answer' = "none"
          /\ is_downloading' = FALSE /\ app' = "connect" /\ mem' = "idle"
      BY <2>7 DEF SystemReset, PowerCycle, Boot, FlashReset
    <3> QED
      BY <3>1
  <2>8. CASE UNCHANGED vars
    BY <2>8 DEF vars, loopVars, flashVars, writeVars, downloadVars
  <2> QED
    BY <2>1, <2>2, <2>3, <2>4, <2>5, <2>6, <2>7, <2>8 DEF Next, Library, Finish
<1>3. Answered => AnsweredBeforeTelemetry
  BY DEF Answered
<1> QED
  BY <1>1, <1>2, <1>3, PTL DEF Spec

-----------------------------------------------------------------------------
(* Types.                                                                  *)

Contents == {Erased, Mixed, Other} \cup Nat

(* The loop has a message left while the SDK is polled.                    *)
Typed == TypeOK /\ (app \notin {"connect", "loop", "done"} => messages > 0)

LEMMA WholeMessages ==
    /\ MaxDemo \in 0 .. Max({MaxDemo, MaxMessages})
    /\ MaxMessages \in 0 .. Max({MaxDemo, MaxMessages})
    /\ Max({MaxDemo, MaxMessages}) \in Nat
<1>1. MaxDemo \in Nat /\ MaxMessages \in Nat
  BY OtaAssumption DEF OtaAssumption
<1>2. \E x \in {MaxDemo, MaxMessages} : \A y \in {MaxDemo, MaxMessages} : x >= y
  BY <1>1
<1>3. /\ Max({MaxDemo, MaxMessages}) \in {MaxDemo, MaxMessages}
      /\ \A y \in {MaxDemo, MaxMessages} : Max({MaxDemo, MaxMessages}) >= y
  BY <1>2, Zenon DEF Max
<1> QED
  BY <1>1, <1>3

(* Programming and erasing leave contents of cells.                        *)
LEMMA RowTyped ==
    ASSUME flash \in [Cells -> Contents], block_buffer \in [RowBytes -> Contents],
           curr_src \in Nat, curr_addr \in Nat, NEW n \in 0 .. row
    PROVE  WriteRow(n) \in [Cells -> Contents]
<1>1. row \in Nat \ {0}
  BY FlashAssumption DEF FlashAssumption, row
<1>2. ASSUME NEW offset \in Int, NEW data \in [RowBytes -> Contents], NEW c \in Cells
      PROVE  ProgrammedFrom(offset, data, n)[c] \in Contents
  <2>1. c \in Int
    BY FlashAssumption DEF Cells, FlashAssumption
  <2>2. CASE c \in offset .. offset + n - 1
    <3>1. c - offset \in RowBytes
      BY <1>1, <2>1, <2>2 DEF RowBytes, row
    <3>2. data[c - offset] \in Contents /\ flash[c] \in Contents
      BY <3>1
    <3>3. ProgrammedFrom(offset, data, n)[c] \in {flash[c], data[c - offset], Mixed}
      BY <2>2 DEF ProgrammedFrom, Programmed
    <3> QED
      BY <3>2, <3>3 DEF Contents
  <2>3. CASE c \notin offset .. offset + n - 1
    BY <2>3 DEF ProgrammedFrom
  <2> QED
    BY <2>2, <2>3
<1>3. Whole \in [RowBytes -> Contents]
  BY <1>1 DEF Whole, RowBytes, Contents, row
<1>4. RowBase \in Int /\ \A a \in Int : Offset(a) \in Int
  <2>1. curr_addr \div row \in Int
    BY <1>1
  <2> QED
    BY <1>1, <2>1, FlashAssumption DEF RowBase, Offset, FlashAssumption, row
<1> QED
  BY <1>2, <1>3, <1>4 DEF WriteRow, ProgrammedFrom

LEMMA PieceTyped ==
    ASSUME Windows \subseteq XipWindows, OtaInv, Typed, PieceArrives
    PROVE  /\ received' \in 0 .. ImageSize
           /\ curr_addr' \in Nat /\ curr_src' \in Nat /\ bytes_to_write' \in Nat
           /\ asked' \subseteq Cells
<1>1. /\ received \in 0 .. ImageSize /\ received < ImageSize /\ window \in XipWindows /\ window \in Nat
  BY FlashAssumption DEF PieceArrives, Typed, TypeOK, XipWindows, FlashAssumption
<1>2. PICK n \in Pieces :
        LET len == Min({n, ImageSize - received})
        IN  /\ MemWrite(window + Slot + received, received, len)
            /\ received' = received + len
  BY DEF PieceArrives
<1> DEFINE len == Min({n, ImageSize - received})
<1>3. len \in Nat \ {0} /\ len <= ImageSize - received
  <2>1. n \in Nat \ {0} /\ ImageSize - received \in Nat \ {0}
    BY <1>1, Sizes, OtaAssumption DEF OtaAssumption
  <2>2. \E x \in {n, ImageSize - received} : \A y \in {n, ImageSize - received} : x <= y
    BY <2>1
  <2>3. /\ len \in {n, ImageSize - received}
        /\ \A y \in {n, ImageSize - received} : len <= y
    BY <2>2, Zenon DEF Min
  <2> QED
    BY <2>1, <2>3
<1> HIDE DEF len
<1>4. /\ curr_addr' = window + Slot + received /\ curr_src' = received /\ bytes_to_write' = len
      /\ asked' = Offset(window + Slot + received) .. Offset(window + Slot + received) + len - 1
      /\ received' = received + len
  BY <1>2 DEF MemWrite, len
<1>5. Offset(window + Slot + received) = Slot + received
  BY <1>1, Sizes, OffsetInSlot
<1>6. Slot + received + len <= FlashSize
  BY <1>1, <1>3, Sizes
<1> QED
  BY <1>1, <1>3, <1>4, <1>5, <1>6, Sizes DEF Cells

(* The steps of the loop and of its callbacks.                             *)
LEMMA LoopTyped ==
    ASSUME Typed, Loop \/ (\E c \in Commands : OnCommand(c)) \/ OnOta
    PROVE  Typed'
<1>1. CASE Loop
  <2>1. /\ app' \in {"loop", "done", "poll", "connect"}
        /\ UNCHANGED <<flash, mem, curr_addr, curr_src, bytes_to_write, block_buffer, asked, boots,
                       board_user_led, is_demo_mode, reporting_interval,
                       is_downloading, answer, window, received, tries>>
    BY <1>1 DEF Loop, Connect, Publish, Disconnect, PollReturns, AppStep, flashVars, writeVars,
                settingVars, downloadVars
  <2>2. connects' \in 0 .. MaxConnects
    BY <1>1, OtaAssumption DEF Loop, Connect, Publish, Disconnect, PollReturns, Typed, TypeOK, OtaAssumption
  <2>3. messages' \in 0 .. Max({MaxDemo, MaxMessages}) /\ (app' = "poll" => messages' > 0)
    BY <1>1, WholeMessages DEF Loop, Connect, Publish, Disconnect, PollReturns, AppStep, Typed, TypeOK
  <2>5. published' \in BOOLEAN
    <3>1. published \in BOOLEAN /\ is_downloading \in BOOLEAN
      BY DEF Typed, TypeOK
    <3>2. published' = published \/ published' = ~is_downloading
      BY <1>1, Zenon DEF Loop, Connect, Publish, Disconnect, PollReturns
    <3> QED
      BY <3>1, <3>2
  <2>4. TypeOK'
    BY <2>1, <2>2, <2>3, <2>5 DEF Typed, TypeOK, FlashTypeOK
  <2> QED
    BY <2>1, <2>3, <2>4 DEF Typed
<1>2. ASSUME NEW c \in Commands, OnCommand(c) PROVE Typed'
  <2>1. /\ app = "poll" /\ app' = app
        /\ UNCHANGED <<flash, mem, curr_addr, curr_src, bytes_to_write, block_buffer, asked, boots,
                       connects, messages, published, is_downloading, answer, window, received, tries>>
    BY <1>2 DEF OnCommand, AppStep, flashVars, writeVars, downloadVars
  <2>2. board_user_led' \in BOOLEAN /\ is_demo_mode' \in BOOLEAN
    <3>1. board_user_led \in BOOLEAN /\ is_demo_mode \in BOOLEAN
      BY DEF Typed, TypeOK
    <3>2. /\ board_user_led' = board_user_led \/ board_user_led' = (c.arg = "on")
          /\ is_demo_mode' = is_demo_mode \/ is_demo_mode' = (c.arg = "on")
      BY <1>2, Zenon DEF OnCommand
    <3>3. (c.arg = "on") \in BOOLEAN
      BY Zenon
    <3> QED
      BY <3>1, <3>2, <3>3
  <2>3. reporting_interval' \in (Intervals \ {0}) \cup {2000}
    BY <1>2 DEF OnCommand, Typed, TypeOK, Commands, Accepted, Switches
  <2>4. TypeOK'
    BY <2>1, <2>2, <2>3 DEF Typed, TypeOK, FlashTypeOK
  <2> QED
    BY <2>1, <2>4 DEF Typed
<1>3. CASE OnOta
  <2>1. /\ app = "poll" /\ app' = "erase" /\ answer' = "downloading" /\ is_downloading' = TRUE
        /\ window' \in Windows /\ tries' = Tries - 1
        /\ UNCHANGED <<flash, mem, curr_addr, curr_src, bytes_to_write, block_buffer, asked, boots,
                       connects, messages, published, board_user_led, is_demo_mode,
                       reporting_interval, received>>
    BY <1>3 DEF OnOta, AppStep, flashVars, writeVars, settingVars
  <2>2. tries' \in 0 .. Tries - 1
    BY <2>1, OtaAssumption DEF OtaAssumption
  <2>3. TypeOK'
    BY <2>1, <2>2 DEF Typed, TypeOK, FlashTypeOK
  <2> QED
    BY <2>1, <2>3 DEF Typed
<1> QED
  BY <1>1, <1>2, <1>3

(* The steps of the flash.                                                 *)
LEMMA WriteTyped ==
    ASSUME Windows \subseteq XipWindows, OtaInv, OtaInv', Typed, WriteStep
    PROVE  Typed'
<1>1. UNCHANGED <<boots, app, connects, messages, published, board_user_led, is_demo_mode, reporting_interval,
                 is_downloading, answer, window, received, tries>>
  BY DEF WriteStep, loopVars, settingVars, downloadVars
<1>2. /\ flash \in [Cells -> Contents] /\ block_buffer \in [RowBytes -> Contents]
      /\ curr_addr \in Nat /\ curr_src \in Nat /\ bytes_to_write \in Nat /\ asked \subseteq Cells
      /\ row \in Nat
  BY Sizes DEF Typed, TypeOK, FlashTypeOK, Contents
<1>3. mem \in {"next", "merged"} => app = "download" /\ Progress
  BY DEF OtaInv, FlashInv, Downloading
<1>4. CASE ReadRow
  <2>1. /\ mem' = "merged"
        /\ UNCHANGED <<flash, curr_addr, curr_src, bytes_to_write, asked>>
        /\ block_buffer' = [i \in RowBytes |-> IF i \in RowOffset .. RowOffset + ChunkSize - 1
                                               THEN curr_src + (i - RowOffset)
                                               ELSE flash[Offset(RowBase) + i]]
    BY <1>4 DEF ReadRow
  <2>2. MergedRow'
    BY <1>1, <1>3, <1>4, <2>1 DEF OtaInv, FlashInv, Downloading, ReadRow
  <2>3. RowStart' \in Nat
    <3>1. curr_src \div row \in Nat /\ row \in Nat \ {0}
      BY <1>2, Sizes, Division
    <3> QED
      BY <2>1, <3>1 DEF RowStart, row
  <2>4. \A i \in RowBytes : block_buffer'[i] \in Contents
    BY <2>2, <2>3 DEF MergedRow, RowBytes, Contents
  <2>5. block_buffer' \in [RowBytes -> Contents]
    BY <2>1, <2>4
  <2>6. TypeOK'
    BY <1>1, <1>2, <2>1, <2>5 DEF Typed, TypeOK, FlashTypeOK, Contents
  <2> QED
    BY <1>1, <2>6 DEF Typed
<1>5. CASE ProgramRow
  <2>1. /\ Writing /\ flash' = WriteRow(row) /\ mem' = "next" /\ curr_addr' = curr_addr + ChunkSize
        /\ curr_src' = curr_src + ChunkSize /\ bytes_to_write' = bytes_to_write - ChunkSize
        /\ UNCHANGED <<block_buffer, asked>>
    BY <1>5 DEF ProgramRow, row
  <2>2. ChunkSize \in Nat /\ ChunkSize <= bytes_to_write
    <3>1. Progress /\ bytes_to_write > 0 /\ received \in 0 .. ImageSize /\ window \in XipWindows
      BY <1>3, <2>1 DEF Writing, OtaInv, FlashInv, Downloading, MergedRow
    <3> QED
      BY <3>1, ChunkInRow, Sizes DEF Progress
  <2>3. flash' \in [Cells -> Contents]
    BY <1>2, <2>1, RowTyped
  <2>4. TypeOK'
    BY <1>1, <1>2, <2>1, <2>2, <2>3 DEF Typed, TypeOK, FlashTypeOK, Contents
  <2> QED
    BY <1>1, <2>4 DEF Typed
<1>6. CASE WriteEnds \/ WriteFails
  <2>1. /\ mem' \in {"ok", "failed"}
        /\ UNCHANGED <<curr_addr, curr_src, bytes_to_write, block_buffer, asked>>
    BY <1>6 DEF WriteEnds, WriteFails
  <2>2. flash' = flash \/ \E n \in 0 .. row : flash' = WriteRow(n)
    BY <1>6 DEF WriteEnds, WriteFails, row
  <2>3. flash' \in [Cells -> Contents]
    BY <1>2, <2>2, RowTyped
  <2>4. TypeOK'
    BY <1>1, <1>2, <2>1, <2>3 DEF Typed, TypeOK, FlashTypeOK, Contents
  <2> QED
    BY <1>1, <2>4 DEF Typed
<1> QED
  BY <1>4, <1>5, <1>6 DEF WriteStep, Flash

(* A reset or a loss of power.                                             *)
LEMMA BootTyped ==
    ASSUME Typed, NEW contents, Boot(contents), contents \subseteq [Cells -> Contents]
    PROVE  Typed'
<1>1. /\ mem' = "idle" /\ curr_addr' = 0 /\ curr_src' = 0 /\ bytes_to_write' = 0
      /\ block_buffer' = [i \in RowBytes |-> 0] /\ asked' = {}
      /\ flash' \in [Cells -> Contents]
      /\ boots < MaxBoots /\ boots' = boots + 1 /\ app' = "connect" /\ connects' = 0 /\ messages' = 0
      /\ published' = FALSE
      /\ board_user_led' = FALSE /\ is_demo_mode' = FALSE /\ reporting_interval' = 2000
      /\ is_downloading' = FALSE /\ received' = 0 /\ tries' = 0
      /\ answer' \in {"done", "none"} /\ window' = window
  BY DEF Boot, FlashReset
<1>2. boots' \in 1 .. MaxBoots
  BY <1>1, OtaAssumption DEF Typed, TypeOK, OtaAssumption
<1>3. /\ connects' \in 0 .. MaxConnects /\ messages' \in 0 .. Max({MaxDemo, MaxMessages})
      /\ received' \in 0 .. ImageSize /\ tries' \in 0 .. Tries - 1
  BY <1>1, WholeMessages, OtaAssumption DEF OtaAssumption
<1>4. FlashTypeOK'
  <2>1. block_buffer' \in [RowBytes -> Contents]
    BY <1>1 DEF Contents
  <2> QED
    BY <1>1, <2>1 DEF FlashTypeOK, Contents
<1>5. window' \in Windows /\ reporting_interval' \in (Intervals \ {0}) \cup {2000}
  BY <1>1 DEF Typed, TypeOK
<1>6. TypeOK'
  BY <1>1, <1>2, <1>3, <1>4, <1>5 DEF TypeOK
<1> QED
  BY <1>1, <1>6 DEF Typed

LEMMA TypedInductive ==
    ASSUME Windows \subseteq XipWindows PROVE Spec => []Typed
<1>1. Init => Typed
  <2> SUFFICES ASSUME Init PROVE Typed
    OBVIOUS
  <2>1. block_buffer \in [RowBytes -> Contents] /\ flash \in [Cells -> Contents]
    BY DEF Init, FlashInit, Contents
  <2>2. FlashTypeOK
    BY <2>1 DEF Init, FlashInit, FlashTypeOK, Contents
  <2>3. /\ boots \in 1 .. MaxBoots /\ connects \in 0 .. MaxConnects /\ tries \in 0 .. Tries - 1
        /\ messages \in 0 .. Max({MaxDemo, MaxMessages}) /\ received \in 0 .. ImageSize
    BY WholeMessages, OtaAssumption DEF Init, OtaAssumption
  <2>4. TypeOK
    BY <2>2, <2>3 DEF Init, TypeOK
  <2> QED
    BY <2>4 DEF Init, Typed
<1>2. OtaInv /\ OtaInv' /\ Typed /\ [Next]_vars => Typed'
  <2> SUFFICES ASSUME OtaInv, OtaInv', Typed, [Next]_vars PROVE Typed'
    OBVIOUS
  <2>t. flash \in [Cells -> Contents] /\ row \in Nat
    BY Sizes DEF Typed, TypeOK, FlashTypeOK, Contents
  <2>e. \A offset, n : ErasedFrom(offset, n) \in [Cells -> Contents]
    BY <2>t DEF ErasedFrom, Contents
  <2>1. CASE Loop \/ (\E c \in Commands : OnCommand(c)) \/ OnOta
    BY <2>1, LoopTyped
  <2>2. CASE EraseSlot
    <3>1. /\ app' \in {"download", "failed"} /\ app = "erase" /\ received' = 0
          /\ flash' = flash \/ \E offset, n : flash' = ErasedFrom(offset, n)
          /\ UNCHANGED <<mem, curr_addr, curr_src, bytes_to_write, block_buffer, asked,
                         boots, connects, messages, published, board_user_led, is_demo_mode, reporting_interval,
                         is_downloading, answer, window, tries>>
      BY <2>2 DEF EraseSlot, writeVars, settingVars
    <3>2. flash' \in [Cells -> Contents] /\ received' \in 0 .. ImageSize
      BY <2>t, <2>e, <3>1, OtaAssumption DEF OtaAssumption
    <3>3. TypeOK'
      BY <3>1, <3>2 DEF Typed, TypeOK, FlashTypeOK, Contents
    <3> QED
      BY <3>1, <3>3 DEF Typed
  <2>3. CASE PieceArrives
    <3>1. /\ mem' = "next"
          /\ UNCHANGED <<flash, block_buffer, boots, app, connects, messages, published, board_user_led,
                         is_demo_mode, reporting_interval, is_downloading, answer, window, tries>>
      BY <2>3 DEF PieceArrives, MemWrite, loopVars, settingVars
    <3>2. TypeOK'
      BY <2>3, <3>1, PieceTyped DEF Typed, TypeOK, FlashTypeOK
    <3> QED
      BY <3>1, <3>2 DEF Typed
  <2>4. CASE WriteStep
    BY <2>4, WriteTyped
  <2>5. CASE WriteReturns
    <3>1. /\ mem' = "idle" /\ app' \in {"download", "failed"} /\ app = "download"
          /\ UNCHANGED <<flash, curr_addr, curr_src, bytes_to_write, block_buffer, asked,
                         boots, connects, messages, published, board_user_led, is_demo_mode, reporting_interval,
                         is_downloading, answer, window, received, tries>>
      BY <2>5 DEF WriteReturns, settingVars, downloadVars, OtaInv, FlashInv
    <3>2. TypeOK'
      BY <3>1 DEF Typed, TypeOK, FlashTypeOK
    <3> QED
      BY <3>1, <3>2 DEF Typed
  <2>6. CASE DownloadFails \/ Retry \/ AckFailed \/ AckDone
    <3>1. /\ app \in {"download", "failed"} /\ app' \in {"failed", "erase", "poll", "resetting"}
          /\ UNCHANGED <<flash, mem, curr_addr, curr_src, bytes_to_write, block_buffer, asked,
                         boots, connects, messages, published, board_user_led, is_demo_mode, reporting_interval,
                         window, received>>
      BY <2>6 DEF DownloadFails, Retry, AckFailed, AckDone, AppStep, flashVars, writeVars,
                  settingVars, downloadVars
    <3>2. /\ is_downloading' \in {is_downloading, FALSE} /\ answer' \in {answer, "failed", "done"}
          /\ tries' = tries \/ (tries > 0 /\ tries' = tries - 1)
      BY <2>6 DEF DownloadFails, Retry, AckFailed, AckDone, settingVars, downloadVars
    <3>3. tries' \in 0 .. Tries - 1
      BY <3>2, OtaAssumption DEF Typed, TypeOK, OtaAssumption
    <3>5. is_downloading' \in BOOLEAN
      <4>1. is_downloading \in BOOLEAN
        BY DEF Typed, TypeOK
      <4> QED
        BY <3>2, <4>1
    <3>4. TypeOK'
      BY <3>1, <3>2, <3>3, <3>5 DEF Typed, TypeOK, FlashTypeOK
    <3> QED
      BY <3>1, <3>4 DEF Typed
  <2>7. CASE SystemReset
    BY <2>t, <2>7, BootTyped DEF SystemReset
  <2>8. CASE PowerCycle
    <3> DEFINE contents ==
                 IF app = "erase" THEN {ErasedFrom(EraseOffset(window + Slot), n) : n \in 0 .. SlotSize}
                 ELSE IF Writing THEN {WriteRow(n) : n \in 0 .. CY_FLASH_SIZEOF_ROW}
                 ELSE {flash}
    <3>1. \A n \in 0 .. CY_FLASH_SIZEOF_ROW : WriteRow(n) \in [Cells -> Contents]
      BY <2>t, RowTyped DEF Typed, TypeOK, FlashTypeOK, Contents, row
    <3>2. contents \subseteq [Cells -> Contents]
      BY <2>t, <2>e, <3>1
    <3>3. Boot(contents)
      BY <2>8 DEF PowerCycle
    <3> HIDE DEF contents
    <3> QED
      BY <3>2, <3>3, BootTyped
  <2>9. CASE UNCHANGED vars
    BY <2>9 DEF vars, flashVars, writeVars, loopVars, settingVars, downloadVars, Typed, TypeOK, FlashTypeOK
  <2> QED
    BY <2>1, <2>2, <2>3, <2>4, <2>5, <2>6, <2>7, <2>8, <2>9 DEF Next, Library, Finish
<1> QED
  BY <1>1, <1>2, OtaInductive, PTL DEF Spec

(* Types: the row buffer and the flash only ever hold bytes, what          *)
(* cy_ota_mem_write is asked for lies in the flash, no interval is 0, and  *)
(* the number of messages left never falls below none.                     *)
THEOREM TypeCorrect ==
    ASSUME Windows \subseteq XipWindows PROVE Spec => []TypeOK
<1>1. Typed => TypeOK
  BY DEF Typed
<1> QED
  BY <1>1, TypedInductive, PTL
=============================================================================
