--------------------------- MODULE UsbLineReader ----------------------------
(***************************************************************************)
(* How the configurator reads what is typed at its USB terminal            *)
(* (proj_cm33_ns/app_io_cdc_impl.c).  The bytes of a line reach the device *)
(* in pieces of any size; app_io_read_lines echoes each piece and looks    *)
(* through it for the end of the line, or for the end of the document.     *)
(* The user, the host and the USB stack are external.  Everything that a   *)
(* turn of the read loop does is one step, as only the stack, which adds   *)
(* bytes, runs in between.                                                 *)
(***************************************************************************)
EXTENDS Integers, Sequences, SequencesExt

CONSTANTS
    Prompts,    \* what is asked for: a document or a line, masked or not
    Lengths,    \* lengths of what the user types
    Endings,    \* what the terminal sends for the end of a line
    BufferLen,  \* size of the buffer of the caller
    TypeAhead   \* TRUE: the user types before being asked

ASSUME ReaderAssumption ==
    /\ Prompts \in Seq([eod : BOOLEAN, masked : BOOLEAN])
    /\ Lengths \subseteq 0 .. 99
    /\ Endings \subseteq Seq(Nat)
    /\ BufferLen \in Nat \ {0, 1}
    /\ TypeAhead \in BOOLEAN

VARIABLES
    configured,   \* whether the host has configured the device
    pending,      \* bytes that are on their way
    texts,        \* history: what the user typed, without the endings
    prompt,       \* which prompt it is
    is_reading,
    received,     \* what is in the buffer
    is_password_masking_enabled,
    echo,         \* what was written to the terminal in answer
    lines         \* what the reads returned

hostVars   == <<configured, pending, texts>>
readerVars == <<prompt, is_reading, received, is_password_masking_enabled, echo, lines>>
vars == <<hostVars, readerVars>>

LF   == 10
CR   == 13
EOD  == 4
Star == 42

(* Character i of the answer to prompt k, and the prompt it answers.       *)
Char(k, i)  == 100 * k + i
AnswerOf(c) == c \div 100

Init ==
    /\ configured = FALSE
    /\ pending = <<>> /\ texts = <<>>
    /\ prompt = 1 /\ is_reading = FALSE /\ received = <<>>
    /\ is_password_masking_enabled = FALSE
    /\ echo = <<>> /\ lines = <<>>

-----------------------------------------------------------------------------
(* The host and the user.                                                  *)

Configure ==
    /\ ~configured /\ configured' = TRUE
    /\ UNCHANGED <<pending, texts, readerVars>>

(* A line has no line ends in it; a document may.                          *)
Answers(k) ==
    UNION {{[i \in 1 .. n |-> IF i \in ends THEN CR ELSE Char(k, i)] :
                ends \in IF Prompts[k].eod THEN SUBSET (1 .. n) ELSE {{}}} :
            n \in Lengths}

Type ==
    LET k == Len(texts) + 1
    IN  /\ k <= Len(Prompts)
        /\ TypeAhead \/ (prompt = k /\ is_reading)
        /\ \E text \in Answers(k) :
            \E end \in IF Prompts[k].eod THEN {<<EOD>>} ELSE Endings :
                /\ pending' = pending \o text \o end
                /\ texts' = Append(texts, text)
    /\ UNCHANGED <<configured, readerVars>>

-----------------------------------------------------------------------------
(* The reader.                                                             *)

(* Mutant: masking is not switched on.                                     *)
MaskNothing(k) == FALSE

(* Whether the configurator masks what it reads at a prompt.               *)
Mask(k) == Prompts[k].masked

BeginRead ==
    /\ ~is_reading /\ prompt <= Len(Prompts)
    /\ is_reading' = TRUE
    /\ received' = <<>>
    /\ is_password_masking_enabled' = Mask(prompt)
    /\ UNCHANGED <<hostVars, prompt, echo, lines>>

(* Mutant: the buffer is offered as if nothing were in it.                 *)
WholeRoom == BufferLen - 1

(* What is left of the buffer, but for the terminator of the string.       *)
Room == BufferLen - Len(received) - 1

(* app_io_write_data, which hides all but line ends while masking.         *)
Written(bytes) ==
    IF ~is_password_masking_enabled THEN bytes
    ELSE [i \in DOMAIN bytes |-> IF bytes[i] \in {CR, LF} THEN bytes[i] ELSE Star]

Echoed(bytes) == Written(bytes) \o (IF Last(bytes) = CR THEN <<LF>> ELSE <<>>)

(* Mutant: only LF ends a line.                                            *)
TerminatorsLf(k) == IF Prompts[k].eod THEN {EOD} ELSE {LF}

Terminators(k) == IF Prompts[k].eod THEN {EOD} ELSE {CR, LF}

(* Mutant: the terminator is kept.                                         *)
CutBehind(bytes) ==
    LET at == SelectInSeq(bytes, LAMBDA b : b \in Terminators(prompt))
    IN  IF at = 0 THEN bytes ELSE SubSeq(bytes, 1, at)

(* The bytes up to the terminator; what came with it is dropped.           *)
Cut(bytes) ==
    LET at == SelectInSeq(bytes, LAMBDA b : b \in Terminators(prompt))
    IN  IF at = 0 THEN bytes ELSE SubSeq(bytes, 1, at - 1)

(* A turn of the loop that receives something.  In a full buffer nothing   *)
(* can be received, and the loop goes on for ever.                         *)
Receive ==
    /\ is_reading /\ configured
    /\ \E n \in 1 .. Len(pending) :
        LET bytes == SubSeq(pending, 1, n)
        IN  /\ n <= Room
            /\ pending' = SubSeq(pending, n + 1, Len(pending))
            /\ echo' = echo \o Echoed(bytes)
            /\ received' = received \o Cut(bytes)
            /\ IF \E b \in Terminators(prompt) : Contains(bytes, b)
               THEN /\ lines' = Append(lines, received')
                    /\ prompt' = prompt + 1
                    /\ is_reading' = FALSE
                    /\ is_password_masking_enabled' = FALSE
               ELSE UNCHANGED <<lines, prompt, is_reading, is_password_masking_enabled>>
    /\ UNCHANGED <<configured, texts>>

Next == Configure \/ Type \/ BeginRead \/ Receive

(* The host configures the device and the reader's task runs.              *)
Spec ==
    /\ Init /\ [][Next]_vars
    /\ WF_vars(Configure) /\ WF_vars(BeginRead) /\ WF_vars(Receive)

-----------------------------------------------------------------------------
(* The buffer is never filled beyond its end: one byte is left for the     *)
(* terminator of the string.                                               *)
TypeOK ==
    /\ Len(received) < BufferLen
    /\ prompt \in 1 .. Len(Prompts) + 1 /\ Len(lines) = prompt - 1
    /\ Len(texts) <= Len(Prompts)
    /\ configured \in BOOLEAN /\ is_reading \in BOOLEAN
    /\ is_password_masking_enabled \in BOOLEAN

(* However the bytes are cut into pieces, each read returns what was typed *)
(* at its prompt.                                                          *)
LinesAsTyped == IsPrefix(lines, texts)

(* No character of a password is ever echoed.                              *)
PasswordMasked ==
    \A i \in DOMAIN echo :
        AnswerOf(echo[i]) \in DOMAIN Prompts => ~Prompts[AnswerOf(echo[i])].masked

(* What fits: the buffer holds the line's end besides the string's.        *)
Fits(text) == Len(text) + 2 <= BufferLen

(* "Blocking read lines into buffer until newline": a read returns once    *)
(* the line is typed, if all that was typed fits.                          *)
ReadReturns ==
    \A k \in DOMAIN Prompts :
        (Len(texts) >= k /\ \A j \in DOMAIN texts : Fits(texts[j])) ~> (prompt > k)
=============================================================================
