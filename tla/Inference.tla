----------------------------- MODULE Inference ------------------------------
(***************************************************************************)
(* What the sensor tasks of the CM55 have in common: a vendor model that   *)
(* is fed samples and now and then reports a class, and the payload that   *)
(* tells the CM33 of it (proj_cm55/source).  The model library is external *)
(* and its scores are one-hot.  How the payload crosses to the other core  *)
(* is the subject of IpcDetection; here it is sent in one step.            *)
(***************************************************************************)
EXTENDS Integers, FiniteSets, FiniteSetsExt

VARIABLES
    halted,   \* an assertion has failed; nothing runs any more
    sent      \* the label_id of the last payload that was sent

resultVars == <<halted, sent>>

NothingSent == -1

InferenceInit == halted = FALSE /\ sent = NothingSent

OneHot(n) == {[c \in 0 .. n - 1 |-> IF c = k THEN 1 ELSE 0] : k \in 0 .. n - 1}

(* CY_ASSERT(0).                                                           *)
Halt == halted' = TRUE /\ UNCHANGED sent

(* The class that a model of two classes reports.                          *)
OneOrOther(s) == IF s[1] = 1 THEN 1 ELSE 0

(* The class that a model of several reports: the last one with a score,   *)
(* or the one from before.                                                 *)
LastScored(s, before) ==
    LET scored == {c \in DOMAIN s : s[c] = 1}
    IN  IF scored = {} THEN before ELSE Max(scored)

(* The model has a result, which is sent, or none.                         *)
Report(class) == sent' = class /\ UNCHANGED halted
NoReport      == UNCHANGED resultVars
=============================================================================
