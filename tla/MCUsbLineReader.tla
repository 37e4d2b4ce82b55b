-------------------------- MODULE MCUsbLineReader ---------------------------
(* The reader for TLC: the network's name, its password, a document.       *)
EXTENDS UsbLineReader

MCPrompts == << [eod |-> FALSE, masked |-> FALSE],
                [eod |-> FALSE, masked |-> TRUE],
                [eod |-> TRUE,  masked |-> FALSE] >>
MCLengths == 0 .. 5
MCEndings == {<<CR>>, <<LF>>}
=============================================================================
