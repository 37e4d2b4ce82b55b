---------------------------- MODULE MCOtaUpdate ----------------------------
(* OtaUpdate for TLC: rows of four bytes, sectors of two rows, a flash of  *)
(* two sectors, the second one being the slot; an image that ends within a *)
(* row, and pieces that start and end anywhere in one or span two.         *)
EXTENDS OtaUpdate

XipWindows == {CY_XIP_PORT0_NS_SBUS_BASE, CY_XIP_PORT0_S_SBUS_BASE}
AllWindows == XipWindows \cup {0}
MCPieces   == {1, 3, 4, 6}
MCIntervals == {-5, 0, 7}
=============================================================================
