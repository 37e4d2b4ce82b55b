------------------------ MODULE UsbLineReader_proofs -------------------------
(***************************************************************************)
(* What the configurator's terminal reads, and what it echoes of a         *)
(* password: for every dialogue, every buffer and every cut of what is     *)
(* typed into pieces.                                                      *)
(***************************************************************************)
EXTENDS UsbLineReader, IntegerFacts

-----------------------------------------------------------------------------
(* Sequences of bytes.                                                     *)

LEMMA Concatenated ==
    ASSUME NEW a \in Seq(Int), NEW b \in Seq(Int)
    PROVE  /\ a \o b \in Seq(Int) /\ Len(a \o b) = Len(a) + Len(b)
           /\ \A i \in 1 .. Len(a) : (a \o b)[i] = a[i]
           /\ \A i \in 1 .. Len(b) : (a \o b)[Len(a) + i] = b[i]
  OBVIOUS

LEMMA Appended ==
    ASSUME NEW S, NEW s \in Seq(S), NEW e \in S
    PROVE  /\ Append(s, e) \in Seq(S) /\ Len(Append(s, e)) = Len(s) + 1
           /\ \A i \in 1 .. Len(s) : Append(s, e)[i] = s[i]
           /\ Append(s, e)[Len(s) + 1] = e
  OBVIOUS

LEMMA Part ==
    ASSUME NEW a \in Seq(Int), NEW m \in 1 .. Len(a) + 1, NEW n \in m - 1 .. Len(a)
    PROVE  /\ SubSeq(a, m, n) \in Seq(Int) /\ Len(SubSeq(a, m, n)) = n - m + 1
           /\ \A i \in 1 .. n - m + 1 : SubSeq(a, m, n)[i] = a[m + i - 1]
  OBVIOUS

LEMMA SameElements ==
    ASSUME NEW S, NEW a \in Seq(S), NEW b \in Seq(S), Len(a) = Len(b),
           \A i \in 1 .. Len(b) : a[i] = b[i]
    PROVE  a = b
  OBVIOUS

LEMMA SamePrefix ==
    ASSUME NEW S, NEW a \in Seq(S), NEW b \in Seq(S), NEW n \in Nat,
           n <= Len(a), n <= Len(b), \A i \in 1 .. n : a[i] = b[i]
    PROVE  SubSeq(a, 1, n) = SubSeq(b, 1, n)
  OBVIOUS

(* app_io_read_lines finds the first terminator of what it has received.   *)
LEMMA FirstTerminator ==
    ASSUME NEW bytes \in Seq(Int), NEW T
    PROVE  LET at == SelectInSeq(bytes, LAMBDA b : b \in T)
           IN  \/ at = 0 /\ \A i \in 1 .. Len(bytes) : bytes[i] \notin T
               \/ /\ at \in 1 .. Len(bytes) /\ bytes[at] \in T
                  /\ \A i \in 1 .. at - 1 : bytes[i] \notin T
<1> DEFINE I == {i \in 1 .. Len(bytes) : bytes[i] \in T}
           at == SelectInSeq(bytes, LAMBDA b : b \in T)
<1>1. at = IF I # {} THEN CHOOSE x \in I : \A y \in I : x <= y ELSE 0
  BY Zenon DEF SelectInSeq, Min
<1>2. CASE I = {}
  BY <1>1, <1>2
<1>3. CASE I # {}
  <2>1. I \in SUBSET Nat
    OBVIOUS
  <2>2. \E x \in I : \A y \in I : x <= y
    BY <1>3, <2>1, LeastNatural
  <2>3. at \in I /\ \A y \in I : at <= y
    BY <1>1, <1>3, <2>2
  <2> HIDE DEF at
  <2>4. at \in 1 .. Len(bytes) /\ bytes[at] \in T
    BY <2>3
  <2>5. ASSUME NEW i \in 1 .. at - 1 PROVE bytes[i] \notin T
    BY <2>3, <2>4
  <2> QED
    BY <2>4, <2>5 DEF at
<1> QED
  BY <1>2, <1>3

(* What is taken into the buffer: the bytes before the first terminator.   *)
LEMMA CutBefore ==
    ASSUME NEW bytes \in Seq(Int)
    PROVE  \/ /\ Cut(bytes) = bytes
              /\ \A i \in 1 .. Len(bytes) : bytes[i] \notin Terminators(prompt)
           \/ \E at \in 1 .. Len(bytes) :
                /\ bytes[at] \in Terminators(prompt)
                /\ \A i \in 1 .. at - 1 : bytes[i] \notin Terminators(prompt)
                /\ Cut(bytes) = SubSeq(bytes, 1, at - 1)
<1> DEFINE at == SelectInSeq(bytes, LAMBDA b : b \in Terminators(prompt))
<1>1. \/ at = 0 /\ \A i \in 1 .. Len(bytes) : bytes[i] \notin Terminators(prompt)
      \/ /\ at \in 1 .. Len(bytes) /\ bytes[at] \in Terminators(prompt)
         /\ \A i \in 1 .. at - 1 : bytes[i] \notin Terminators(prompt)
  BY FirstTerminator
<1>2. Cut(bytes) = IF at = 0 THEN bytes ELSE SubSeq(bytes, 1, at - 1)
  BY DEF Cut
<1> HIDE DEF at
<1> QED
  BY <1>1, <1>2

LEMMA CutFits ==
    ASSUME NEW bytes \in Seq(Int)
    PROVE  Cut(bytes) \in Seq(Int) /\ Len(Cut(bytes)) \in 0 .. Len(bytes)
<1>1. CASE Cut(bytes) = bytes
  BY <1>1
<1>2. ASSUME NEW at \in 1 .. Len(bytes), Cut(bytes) = SubSeq(bytes, 1, at - 1)
      PROVE  Cut(bytes) \in Seq(Int) /\ Len(Cut(bytes)) \in 0 .. Len(bytes)
  <2>1. 1 \in 1 .. Len(bytes) + 1 /\ at - 1 \in 1 - 1 .. Len(bytes)
    OBVIOUS
  <2>2. Cut(bytes) \in Seq(Int) /\ Len(Cut(bytes)) = at - 1 - 1 + 1
    BY <1>2, <2>1, Part
  <2> QED
    BY <2>2
<1> QED
  BY <1>1, <1>2, CutBefore

(* The characters of an answer.                                            *)
LEMMA AnswerType ==
    ASSUME NEW k \in 1 .. Len(Prompts), NEW text \in Answers(k)
    PROVE  text \in Seq(Int)
<1> DEFINE Of(n, ends) == [i \in 1 .. n |-> IF i \in ends THEN CR ELSE Char(k, i)]
<1>1. PICK n \in Lengths :
        \E e \in IF Prompts[k].eod THEN SUBSET (1 .. n) ELSE {{}} : text = Of(n, e)
  BY DEF Answers
<1>2. PICK ends \in IF Prompts[k].eod THEN SUBSET (1 .. n) ELSE {{}} : text = Of(n, ends)
  BY <1>1
<1>3. n \in 0 .. 99 /\ k \in Nat
  BY ReaderAssumption
<1> QED
  BY <1>2, <1>3 DEF Char, CR

-----------------------------------------------------------------------------
(* The buffer: what is received fits in what is left of it, whoever types  *)
(* whatever and whenever.                                                  *)
BufferInv ==
    /\ TypeOK
    /\ pending \in Seq(Int) /\ received \in Seq(Int)
    /\ texts \in Seq(Seq(Int)) /\ lines \in Seq(Seq(Int))
    /\ is_reading = TRUE => prompt <= Len(Prompts)

LEMMA ReceiveFits == ASSUME BufferInv, Receive PROVE BufferInv'
<1> DEFINE Got(n) == SubSeq(pending, 1, n)
<1>1. PICK n \in 1 .. Len(pending) :
        /\ n <= Room
        /\ pending' = SubSeq(pending, n + 1, Len(pending))
        /\ received' = received \o Cut(Got(n))
        /\ \/ /\ lines' = Append(lines, received') /\ prompt' = prompt + 1
              /\ is_reading' = FALSE /\ is_password_masking_enabled' = FALSE
           \/ UNCHANGED <<lines, prompt, is_reading, is_password_masking_enabled>>
  BY DEF Receive
<1>2. is_reading = TRUE /\ prompt <= Len(Prompts) /\ UNCHANGED <<configured, texts>>
  BY DEF Receive, BufferInv, TypeOK
<1>3. Got(n) \in Seq(Int) /\ Len(Got(n)) = n /\ pending' \in Seq(Int)
  BY <1>1 DEF BufferInv
<1>4. Cut(Got(n)) \in Seq(Int) /\ Len(Cut(Got(n))) \in 0 .. n
  BY <1>3, CutFits
<1> HIDE DEF Got
<1>5. received' \in Seq(Int) /\ Len(received') = Len(received) + Len(Cut(Got(n)))
  BY <1>1, <1>4, Concatenated, Zenon DEF BufferInv
<1>6. Len(received') < BufferLen
  BY <1>1, <1>4, <1>5, ReaderAssumption DEF Room, BufferInv
<1>7. lines' \in Seq(Seq(Int)) /\ prompt' \in 1 .. Len(Prompts) + 1 /\ Len(lines') = prompt' - 1
      /\ (is_reading' = TRUE => prompt' <= Len(Prompts))
  <2>1. CASE lines' = Append(lines, received') /\ prompt' = prompt + 1 /\ is_reading' = FALSE
    <3>1. lines' \in Seq(Seq(Int)) /\ Len(lines') = Len(lines) + 1
      BY <1>5, <2>1, Appended, Zenon DEF BufferInv
    <3> QED
      BY <1>2, <2>1, <3>1 DEF BufferInv, TypeOK
  <2>2. CASE UNCHANGED <<lines, prompt, is_reading>>
    BY <1>2, <2>2 DEF BufferInv, TypeOK
  <2> QED
    BY <1>1, <2>1, <2>2
<1>8. is_reading' \in BOOLEAN /\ is_password_masking_enabled' \in BOOLEAN
  BY <1>1 DEF BufferInv, TypeOK
<1> QED
  BY <1>2, <1>3, <1>5, <1>6, <1>7, <1>8 DEF BufferInv, TypeOK

LEMMA TypeFits == ASSUME BufferInv, Type PROVE BufferInv'
<1> DEFINE k == Len(texts) + 1
<1>1. k \in 1 .. Len(Prompts) /\ UNCHANGED <<configured, readerVars>>
  BY DEF Type, BufferInv
<1>2. PICK text \in Answers(k), end \in (IF Prompts[k].eod THEN {<<EOD>>} ELSE Endings) :
          pending' = pending \o text \o end /\ texts' = Append(texts, text)
  BY DEF Type
<1> HIDE DEF k
<1>3. text \in Seq(Int)
  BY <1>1, AnswerType
<1>4. end \in Seq(Int)
  <2>1. <<EOD>> \in Seq(Int)
    BY DEF EOD
  <2>2. CASE end = <<EOD>>
    BY <2>1, <2>2, Zenon
  <2>3. CASE end \in Endings
    <3>1. end \in Seq(Nat)
      BY <2>3, ReaderAssumption
    <3> QED
      BY <3>1
  <2> QED
    BY <1>2, <2>2, <2>3
<1>5. pending' \in Seq(Int)
  BY <1>2, <1>3, <1>4 DEF BufferInv
<1>6. texts' \in Seq(Seq(Int)) /\ Len(texts') = k
  BY <1>2, <1>3, Appended, Zenon DEF BufferInv, k
<1> QED
  BY <1>1, <1>5, <1>6 DEF BufferInv, TypeOK, readerVars

LEMMA BeginFits == ASSUME BufferInv, BeginRead PROVE BufferInv'
<1>1. /\ is_reading' = TRUE /\ prompt <= Len(Prompts) /\ received' = <<>>
      /\ is_password_masking_enabled' = Mask(prompt)
      /\ UNCHANGED <<configured, pending, texts, prompt, lines>>
  BY DEF BeginRead, hostVars
<1>2. prompt \in 1 .. Len(Prompts)
  BY <1>1 DEF BufferInv, TypeOK
<1>3. Mask(prompt) \in BOOLEAN
  <2>1. \A S, s : s \in Seq(S) => \A i \in 1 .. Len(s) : s[i] \in S
    OBVIOUS
  <2>2. Prompts[prompt] \in [eod : BOOLEAN, masked : BOOLEAN]
    BY <1>2, <2>1, ReaderAssumption, Zenon
  <2> QED
    BY <2>2, Zenon DEF Mask
<1>4. received' \in Seq(Int) /\ Len(received') = 0
  BY <1>1
<1> QED
  BY <1>1, <1>3, <1>4, ReaderAssumption DEF BufferInv, TypeOK

LEMMA BufferInductive == Spec => []BufferInv
<1>1. Init => BufferInv
  <2> SUFFICES ASSUME Init PROVE BufferInv
    OBVIOUS
  <2>1. /\ prompt = 1 /\ is_reading = FALSE /\ configured = FALSE
        /\ is_password_masking_enabled = FALSE
        /\ pending = <<>> /\ received = <<>> /\ texts = <<>> /\ lines = <<>>
    BY DEF Init
  <2>2. Len(Prompts) \in Nat /\ BufferLen \in Nat /\ BufferLen > 1
    BY ReaderAssumption
  <2>3. configured \in BOOLEAN /\ is_reading \in BOOLEAN /\ is_password_masking_enabled \in BOOLEAN
    BY <2>1, Zenon
  <2>4. /\ Len(received) < BufferLen /\ Len(texts) <= Len(Prompts)
        /\ prompt \in 1 .. Len(Prompts) + 1 /\ Len(lines) = prompt - 1
    BY <2>1, <2>2
  <2>5. TypeOK
    BY <2>3, <2>4, Zenon DEF TypeOK
  <2> QED
    BY <2>1, <2>5 DEF BufferInv
<1>2. BufferInv /\ [Next]_vars => BufferInv'
  <2> SUFFICES ASSUME BufferInv, [Next]_vars PROVE BufferInv'
    OBVIOUS
  <2>1. CASE Configure
    BY <2>1 DEF Configure, BufferInv, TypeOK, readerVars
  <2>2. CASE UNCHANGED vars
    BY <2>2 DEF BufferInv, TypeOK, vars, hostVars, readerVars
  <2> QED
    BY <2>1, <2>2, TypeFits, BeginFits, ReceiveFits DEF Next
<1> QED
  BY <1>1, <1>2, PTL DEF Spec

(* The buffer is never filled beyond its end, and the reads are one by one *)
(* those of the prompts, also where a user types ahead of them and         *)
(* whatever the terminal sends for the end of a line.                      *)
THEOREM BufferNeverFull == Spec => []TypeOK
<1>1. BufferInv => TypeOK
  BY DEF BufferInv
<1> QED
  BY <1>1, BufferInductive, PTL

-----------------------------------------------------------------------------

(* Who the theorem is for: a user who waits for the prompt, at a terminal  *)
(* that ends a line with one character.                                    *)
PatientUser == ~TypeAhead /\ Endings \subseteq {<<CR>>, <<LF>>}

(* A character that may be written in clear.                               *)
Clear(c) == AnswerOf(c) \in DOMAIN Prompts => ~Prompts[AnswerOf(c)].masked

(* What is on its way answers the prompt that is being read, and only its  *)
(* last byte ends the line; so nothing is left for the next prompt.        *)
PendingInv ==
    /\ pending \in Seq(Int)
    /\ pending # <<>> => is_reading = TRUE /\ Len(texts) = prompt
    /\ \A i \in 1 .. Len(pending) : AnswerOf(pending[i]) \in {0, prompt}
    /\ \A i \in 1 .. Len(pending) - 1 : pending[i] \notin Terminators(prompt)

ReadingInv ==
    /\ prompt \in Nat \ {0}
    /\ Len(texts) \in {prompt - 1, prompt}
    /\ is_reading = TRUE => prompt <= Len(Prompts)
    /\ is_reading = TRUE => is_password_masking_enabled = Mask(prompt)

EchoInv == echo \in Seq(Int) /\ \A i \in 1 .. Len(echo) : Clear(echo[i])

MaskInv == PendingInv /\ ReadingInv /\ EchoInv /\ texts \in Seq(Seq(Int))

(* The bytes of an answer and of its end.                                  *)
LEMMA AnswerBytes ==
    ASSUME PatientUser, NEW k \in 1 .. Len(Prompts), NEW text \in Answers(k),
           NEW end \in IF Prompts[k].eod THEN {<<EOD>>} ELSE Endings
    PROVE  /\ text \in Seq(Int) /\ text \o end \in Seq(Int)
           /\ \A i \in 1 .. Len(text \o end) : AnswerOf((text \o end)[i]) \in {0, k}
           /\ \A i \in 1 .. Len(text \o end) - 1 : (text \o end)[i] \notin Terminators(k)
           /\ Len(text \o end) = Len(text) + 1
           /\ \A i \in 1 .. Len(text) : (text \o end)[i] = text[i]
           /\ (text \o end)[Len(text) + 1] \in Terminators(k)
<1> DEFINE Of(n, ends) == [i \in 1 .. n |-> IF i \in ends THEN CR ELSE Char(k, i)]
<1>0. PICK n \in Lengths :
        \E e \in IF Prompts[k].eod THEN SUBSET (1 .. n) ELSE {{}} : text = Of(n, e)
  BY DEF Answers
<1>1. PICK ends \in IF Prompts[k].eod THEN SUBSET (1 .. n) ELSE {{}} : text = Of(n, ends)
  BY <1>0
<1>2. n \in 0 .. 99 /\ k \in Nat
  BY ReaderAssumption
<1>3. text \in Seq(Int) /\ Len(text) = n
  BY <1>1, <1>2 DEF Char, CR
<1>4. end \in {<<EOD>>, <<CR>>, <<LF>>} /\ end \in Seq(Int) /\ Len(end) = 1
  <2>1. end \in {<<EOD>>, <<CR>>, <<LF>>}
    <3>1. CASE Prompts[k].eod
      BY <3>1, Zenon
    <3>2. CASE ~Prompts[k].eod
      BY <3>2, Zenon DEF PatientUser
    <3> QED
      BY <3>1, <3>2
  <2>2. PICK c \in {4, 10, 13} : end = <<c>>
    BY <2>1, Zenon DEF EOD, CR, LF
  <2>3. <<c>> \in Seq(Int) /\ Len(<<c>>) = 1
    OBVIOUS
  <2> QED
    BY <2>1, <2>2, <2>3, Zenon
<1>5. /\ text \o end \in Seq(Int) /\ Len(text \o end) = n + 1
      /\ (text \o end)[n + 1] = end[1]
      /\ \A i \in 1 .. n : (text \o end)[i] = text[i]
  <2>1. /\ text \o end \in Seq(Int) /\ Len(text \o end) = Len(text) + Len(end)
        /\ \A i \in 1 .. Len(text) : (text \o end)[i] = text[i]
        /\ \A i \in 1 .. Len(end) : (text \o end)[Len(text) + i] = end[i]
    BY <1>3, <1>4, Concatenated, Zenon
  <2> QED
    BY <1>2, <1>3, <1>4, <2>1
<1>6. ASSUME NEW i \in 1 .. n
      PROVE  AnswerOf(text[i]) \in {0, k} /\ text[i] \notin Terminators(k)
  <2>1. CASE i \in ends
    <3>1. text[i] = 13 /\ Prompts[k].eod
      BY <1>1, <2>1 DEF CR
    <3> QED
      BY <3>1 DEF AnswerOf, Terminators, EOD
  <2>2. CASE i \notin ends
    <3>1. text[i] = 100 * k + i /\ i \in 1 .. 99
      BY <1>1, <1>2, <2>2 DEF Char
    <3>2. (100 * k + i) \div 100 = k /\ 100 * k + i > 100
      BY <1>2, <3>1
    <3> QED
      BY <3>1, <3>2 DEF AnswerOf, Terminators, EOD, CR, LF
  <2> QED
    BY <2>1, <2>2
<1>7. AnswerOf(end[1]) = 0
  BY <1>4 DEF AnswerOf, EOD, CR, LF
<1>8. end[1] \in Terminators(k)
  <2>1. <<EOD>>[1] = EOD /\ <<CR>>[1] = CR /\ <<LF>>[1] = LF
    OBVIOUS
  <2>2. CASE Prompts[k].eod
    BY <2>1, <2>2, Zenon DEF Terminators
  <2>3. CASE ~Prompts[k].eod
    BY <2>1, <2>3, Zenon DEF Terminators, PatientUser
  <2> QED
    BY <2>2, <2>3
<1> QED
  BY <1>2, <1>3, <1>5, <1>6, <1>7, <1>8

(* What is written in answer to bytes of the prompt that is being read.    *)
LEMMA EchoedIsClear ==
    ASSUME ReadingInv, is_reading = TRUE,
           NEW bytes \in Seq(Int), bytes # <<>>,
           \A i \in 1 .. Len(bytes) : AnswerOf(bytes[i]) \in {0, prompt}
    PROVE  /\ Echoed(bytes) \in Seq(Int)
           /\ \A i \in 1 .. Len(Echoed(bytes)) : Clear(Echoed(bytes)[i])
<1>1. DOMAIN Prompts = 1 .. Len(Prompts) /\ 0 \notin DOMAIN Prompts
  BY ReaderAssumption
<1>2. Clear(LF) /\ Clear(CR) /\ Clear(Star)
  BY <1>1 DEF Clear, AnswerOf, LF, CR, Star
<1>3. prompt \in DOMAIN Prompts /\ is_password_masking_enabled = Prompts[prompt].masked
  BY <1>1 DEF ReadingInv, Mask
<1>4. Written(bytes) \in Seq(Int) /\ Len(Written(bytes)) = Len(bytes)
  BY DEF Written, CR, LF, Star
<1>5. ASSUME NEW i \in 1 .. Len(bytes) PROVE Clear(Written(bytes)[i])
  <2>1. CASE ~is_password_masking_enabled
    <3>1. Written(bytes)[i] = bytes[i]
      BY <2>1 DEF Written
    <3>2. ~Prompts[prompt].masked
      BY <2>1, <1>3
    <3> QED
      BY <1>1, <3>1, <3>2, Zenon DEF Clear
  <2>2. CASE is_password_masking_enabled
    <3>1. Written(bytes)[i] \in {CR, LF, Star}
      BY <2>2 DEF Written
    <3> QED
      BY <1>2, <3>1
  <2> QED
    BY <2>1, <2>2
<1> DEFINE Tail1 == IF Last(bytes) = CR THEN <<LF>> ELSE <<>>
<1>6. Tail1 \in Seq(Int) /\ \A i \in 1 .. Len(Tail1) : Tail1[i] = LF
  BY DEF LF
<1>7. Echoed(bytes) = Written(bytes) \o Tail1
  BY DEF Echoed
<1> HIDE DEF Tail1
<1>8. /\ Echoed(bytes) \in Seq(Int)
      /\ Len(Echoed(bytes)) = Len(bytes) + Len(Tail1)
      /\ \A i \in 1 .. Len(bytes) : Echoed(bytes)[i] = Written(bytes)[i]
      /\ \A i \in 1 .. Len(Tail1) : Echoed(bytes)[Len(bytes) + i] = LF
  <2>1. /\ Written(bytes) \o Tail1 \in Seq(Int)
        /\ Len(Written(bytes) \o Tail1) = Len(Written(bytes)) + Len(Tail1)
        /\ \A i \in 1 .. Len(Written(bytes)) : (Written(bytes) \o Tail1)[i] = Written(bytes)[i]
        /\ \A i \in 1 .. Len(Tail1) :
                (Written(bytes) \o Tail1)[Len(Written(bytes)) + i] = Tail1[i]
    BY <1>4, <1>6, Concatenated, Zenon
  <2> QED
    BY <1>4, <1>6, <1>7, <2>1, Zenon
<1>9. ASSUME NEW i \in 1 .. Len(Echoed(bytes)) PROVE Clear(Echoed(bytes)[i])
  <2>1. CASE i \in 1 .. Len(bytes)
    BY <1>5, <1>8, <2>1
  <2>2. CASE i \notin 1 .. Len(bytes)
    <3>1. PICK j \in 1 .. Len(Tail1) : i = Len(bytes) + j
      <4>1. i - Len(bytes) \in 1 .. Len(Tail1) /\ i = Len(bytes) + (i - Len(bytes))
        BY <1>6, <1>8, <2>2
      <4> QED
        BY <4>1
    <3> QED
      BY <1>2, <1>8, <3>1
  <2> QED
    BY <2>1, <2>2
<1> QED
  BY <1>8, <1>9

LEMMA TypeKeepsMask == ASSUME PatientUser, MaskInv, Type PROVE MaskInv'
<1> DEFINE k == Len(texts) + 1
<1>1. k \in 1 .. Len(Prompts) /\ prompt = k /\ is_reading = TRUE
  BY DEF Type, PatientUser, MaskInv
<1>2. pending = <<>>
  BY <1>1 DEF MaskInv, PendingInv, ReadingInv
<1>3. PICK text \in Answers(k), end \in (IF Prompts[k].eod THEN {<<EOD>>} ELSE Endings) :
          pending' = pending \o text \o end /\ texts' = Append(texts, text)
  BY DEF Type
<1>4. UNCHANGED <<prompt, is_reading, is_password_masking_enabled, echo>>
  BY DEF Type, readerVars
<1> HIDE DEF k
<1>5. /\ text \in Seq(Int) /\ text \o end \in Seq(Int)
      /\ \A i \in 1 .. Len(text \o end) : AnswerOf((text \o end)[i]) \in {0, k}
      /\ \A i \in 1 .. Len(text \o end) - 1 : (text \o end)[i] \notin Terminators(k)
  BY <1>1, AnswerBytes
<1>6. pending' = text \o end
  BY <1>2, <1>3, <1>5
<1>7. texts' \in Seq(Seq(Int)) /\ Len(texts') = k
  BY <1>3, <1>5, Appended, Zenon DEF MaskInv, k
<1>8. PendingInv'
  <2>1. prompt' = k /\ is_reading' = TRUE /\ Len(texts') = k
    BY <1>1, <1>4, <1>7
  <2> QED
    BY <1>5, <1>6, <2>1 DEF PendingInv, Terminators, AnswerOf
<1>9. ReadingInv'
  BY <1>1, <1>4, <1>7 DEF MaskInv, ReadingInv, Mask
<1>10. EchoInv'
  BY <1>4 DEF MaskInv, EchoInv, Clear, AnswerOf
<1> QED
  BY <1>7, <1>8, <1>9, <1>10 DEF MaskInv

LEMMA ReceiveKeepsMask == ASSUME MaskInv, Receive PROVE MaskInv'
<1> DEFINE Got(n) == SubSeq(pending, 1, n)
<1>1. PICK n \in 1 .. Len(pending) :
        /\ pending' = SubSeq(pending, n + 1, Len(pending))
        /\ echo' = echo \o Echoed(Got(n))
        /\ IF \E b \in Terminators(prompt) : Contains(Got(n), b)
           THEN prompt' = prompt + 1 /\ is_reading' = FALSE
           ELSE UNCHANGED <<prompt, is_reading, is_password_masking_enabled>>
  BY DEF Receive
<1>2. is_reading = TRUE /\ texts' = texts /\ prompt \in Nat /\ pending \in Seq(Int)
  BY <1>1 DEF Receive, MaskInv, PendingInv, ReadingInv
<1>3. /\ Got(n) \in Seq(Int) /\ Len(Got(n)) = n /\ Got(n) # <<>>
      /\ \A i \in 1 .. n : Got(n)[i] = pending[i]
  BY <1>2
<1>4. /\ pending' \in Seq(Int) /\ Len(pending') = Len(pending) - n
      /\ \A i \in 1 .. Len(pending) - n : pending'[i] = pending[n + i]
  BY <1>1, <1>2
<1>5. EchoInv'
  <2>1. \A i \in 1 .. Len(Got(n)) : AnswerOf(Got(n)[i]) \in {0, prompt}
    BY <1>3 DEF MaskInv, PendingInv
  <2>2. /\ Echoed(Got(n)) \in Seq(Int)
        /\ \A i \in 1 .. Len(Echoed(Got(n))) : Clear(Echoed(Got(n))[i])
    BY <1>2, <1>3, <2>1, EchoedIsClear DEF MaskInv
  <2> DEFINE added == Echoed(Got(n))
  <2>3. echo' = echo \o added /\ echo \in Seq(Int) /\ added \in Seq(Int)
    BY <1>1, <2>2 DEF MaskInv, EchoInv
  <2>4. /\ \A i \in 1 .. Len(echo) : Clear(echo[i])
        /\ \A i \in 1 .. Len(added) : Clear(added[i])
    BY <2>2 DEF MaskInv, EchoInv
  <2> HIDE DEF added
  <2>5. echo' \in Seq(Int) /\ \A i \in 1 .. Len(echo') : Clear(echo'[i])
    BY <2>3, <2>4
  <2> QED
    BY <2>5 DEF EchoInv, Clear, AnswerOf
<1>6. CASE \E b \in Terminators(prompt) : Contains(Got(n), b)
  <2>1. PICK i \in 1 .. n : pending[i] \in Terminators(prompt)
    BY <1>3, <1>6 DEF Contains
  <2>2. n = Len(pending)
    BY <1>2, <2>1 DEF MaskInv, PendingInv
  <2>3. pending' = <<>> /\ prompt' = prompt + 1 /\ is_reading' = FALSE
    BY <1>1, <1>4, <1>6, <2>2
  <2>4. Len(texts) = prompt
    BY <1>1, <1>2 DEF MaskInv, PendingInv
  <2>5. PendingInv'
    BY <1>4, <2>3 DEF PendingInv
  <2>6. ReadingInv'
    BY <1>2, <2>3, <2>4 DEF MaskInv, ReadingInv
  <2> QED
    BY <1>2, <1>5, <2>5, <2>6 DEF MaskInv
<1>7. CASE ~\E b \in Terminators(prompt) : Contains(Got(n), b)
  <2>1. UNCHANGED <<prompt, is_reading, is_password_masking_enabled>>
    BY <1>1, <1>7
  <2>2. PendingInv'
    BY <1>1, <1>2, <1>4, <2>1 DEF MaskInv, PendingInv, Terminators, AnswerOf
  <2>3. ReadingInv'
    BY <1>2, <2>1 DEF MaskInv, ReadingInv, Mask
  <2> QED
    BY <1>2, <1>5, <2>2, <2>3 DEF MaskInv
<1> QED
  BY <1>6, <1>7

LEMMA BeginKeepsMask == ASSUME MaskInv, BeginRead PROVE MaskInv'
<1>1. UNCHANGED <<pending, texts, prompt, echo>>
  BY DEF BeginRead, hostVars
<1>2. is_reading' = TRUE /\ is_password_masking_enabled' = Mask(prompt)
  BY DEF BeginRead
<1>3. prompt <= Len(Prompts)
  BY DEF BeginRead
<1>4. PendingInv'
  BY <1>1, <1>2 DEF MaskInv, PendingInv, Terminators, AnswerOf
<1>5. ReadingInv'
  BY <1>1, <1>2, <1>3 DEF MaskInv, ReadingInv, Mask
<1> QED
  BY <1>1, <1>4, <1>5 DEF MaskInv, EchoInv, Clear, AnswerOf

LEMMA MaskInductive == ASSUME PatientUser PROVE Spec => []MaskInv
<1>1. Init => MaskInv
  BY DEF Init, MaskInv, PendingInv, ReadingInv, EchoInv
<1>2. MaskInv /\ [Next]_vars => MaskInv'
  <2> SUFFICES ASSUME MaskInv, [Next]_vars PROVE MaskInv'
    OBVIOUS
  <2>1. CASE Configure \/ UNCHANGED vars
    <3>1. UNCHANGED <<pending, texts, prompt, is_reading, is_password_masking_enabled, echo>>
      BY <2>1 DEF Configure, vars, hostVars, readerVars
    <3> QED
      BY <3>1 DEF MaskInv, PendingInv, ReadingInv, EchoInv, Terminators, AnswerOf, Mask, Clear
  <2> QED
    BY <2>1, TypeKeepsMask, BeginKeepsMask, ReceiveKeepsMask DEF Next
<1> QED
  BY <1>1, <1>2, PTL DEF Spec

(* However a password is cut into pieces, app_io_write_data hides every    *)
(* character of it: masking is on while its line is read and nothing of it *)
(* is left when masking is switched off.                                   *)
THEOREM PasswordIsMasked == ASSUME PatientUser PROVE Spec => []PasswordMasked
<1>1. MaskInv => PasswordMasked
  <2>1. MaskInv => DOMAIN echo = 1 .. Len(echo)
    BY DEF MaskInv, EchoInv
  <2> QED
    BY <2>1, Zenon DEF MaskInv, EchoInv, PasswordMasked, Clear
<1> QED
  BY <1>1, MaskInductive, PTL

-----------------------------------------------------------------------------
(* Lines: what is in the buffer and what is on its way are together what   *)
(* was typed at the prompt, then its end.                                  *)
Returned == \A i \in 1 .. prompt - 1 : lines[i] = texts[i]

Split ==
    LET text == texts[prompt]
    IN  /\ pending # <<>> /\ Len(received) + Len(pending) = Len(text) + 1
        /\ \A i \in 1 .. Len(received) : received[i] = text[i]
        /\ \A i \in 1 .. Len(pending) - 1 : pending[i] = text[Len(received) + i]
        /\ pending[Len(pending)] \in Terminators(prompt)

LineInv ==
    /\ Returned
    /\ is_reading = FALSE => Len(texts) = prompt - 1
    /\ is_reading = TRUE /\ Len(texts) = prompt - 1 => received = <<>>
    /\ is_reading = TRUE /\ Len(texts) = prompt => Split

LEMMA TypeKeepsLines ==
    ASSUME PatientUser, BufferInv, MaskInv, LineInv, Type PROVE LineInv'
<1> DEFINE k == Len(texts) + 1
<1>1. k \in 1 .. Len(Prompts) /\ prompt = k /\ is_reading = TRUE
  BY DEF Type, PatientUser, MaskInv
<1>2. pending = <<>> /\ received = <<>>
  BY <1>1 DEF MaskInv, PendingInv, ReadingInv, LineInv
<1>3. PICK text \in Answers(k), end \in (IF Prompts[k].eod THEN {<<EOD>>} ELSE Endings) :
          pending' = pending \o text \o end /\ texts' = Append(texts, text)
  BY DEF Type
<1>4. UNCHANGED <<prompt, is_reading, received, lines>>
  BY DEF Type, readerVars
<1> HIDE DEF k
<1>5. /\ text \in Seq(Int) /\ text \o end \in Seq(Int)
      /\ Len(text \o end) = Len(text) + 1
      /\ \A i \in 1 .. Len(text) : (text \o end)[i] = text[i]
      /\ (text \o end)[Len(text) + 1] \in Terminators(k)
  BY <1>1, AnswerBytes
<1>6. pending' = text \o end
  BY <1>2, <1>3, <1>5
<1>7. /\ texts' \in Seq(Seq(Int)) /\ Len(texts') = k /\ texts'[k] = text
      /\ \A i \in 1 .. k - 1 : texts'[i] = texts[i]
  <2>1. texts \in Seq(Seq(Int)) /\ Len(texts) = k - 1 /\ k - 1 + 1 = k
    BY <1>1 DEF BufferInv, k
  <2> DEFINE longer == Append(texts, text)
  <2>2. /\ longer \in Seq(Seq(Int)) /\ Len(longer) = Len(texts) + 1
        /\ \A i \in 1 .. Len(texts) : longer[i] = texts[i]
        /\ longer[Len(texts) + 1] = text
    BY <1>5, <2>1, Appended, Zenon
  <2> HIDE DEF longer
  <2>3. texts' = longer
    BY <1>3 DEF longer
  <2> QED
    BY <2>1, <2>2, <2>3
<1>8. Returned'
  BY <1>1, <1>4, <1>7 DEF LineInv, Returned
<1>9. Split'
  <2>1. received' = <<>> /\ prompt' = k /\ texts'[k] = text /\ Len(text) \in Nat
    BY <1>1, <1>2, <1>4, <1>5, <1>7
  <2>2. Terminators(prompt)' = Terminators(k)
    BY <2>1 DEF Terminators
  <2> DEFINE bytes == text \o end
  <2>3. bytes # <<>> /\ Len(bytes) = Len(text) + 1 /\ bytes[Len(bytes)] \in Terminators(k)
        /\ \A i \in 1 .. Len(bytes) - 1 : bytes[i] = text[i]
    BY <1>5
  <2> HIDE DEF bytes
  <2>4. pending' = bytes
    BY <1>6 DEF bytes
  <2> QED
    BY <2>1, <2>2, <2>3, <2>4 DEF Split
<1> QED
  BY <1>1, <1>4, <1>7, <1>8, <1>9 DEF LineInv

LEMMA ReceiveKeepsLines ==
    ASSUME BufferInv, MaskInv, LineInv, Receive PROVE LineInv'
<1> DEFINE Got(n) == SubSeq(pending, 1, n)
           text == texts[prompt]
<1>1. PICK n \in 1 .. Len(pending) :
        /\ pending' = SubSeq(pending, n + 1, Len(pending))
        /\ received' = received \o Cut(Got(n))
        /\ IF \E b \in Terminators(prompt) : Contains(Got(n), b)
           THEN prompt' = prompt + 1 /\ is_reading' = FALSE /\ lines' = Append(lines, received')
           ELSE UNCHANGED <<prompt, is_reading, lines>>
  BY DEF Receive
<1>2. is_reading = TRUE /\ texts' = texts /\ prompt \in Nat /\ pending \in Seq(Int)
      /\ received \in Seq(Int)
  BY DEF Receive, BufferInv, TypeOK
<1>3. Len(texts) = prompt /\ pending # <<>>
  BY <1>1, <1>2 DEF MaskInv, PendingInv
<1>4. Split
  BY <1>2, <1>3 DEF LineInv
<1>5. /\ Got(n) \in Seq(Int) /\ Len(Got(n)) = n
      /\ \A i \in 1 .. n : Got(n)[i] = pending[i]
  BY <1>2
<1>6. /\ pending' \in Seq(Int) /\ Len(pending') = Len(pending) - n
      /\ \A i \in 1 .. Len(pending) - n : pending'[i] = pending[n + i]
  BY <1>1, <1>2
<1>7. /\ pending[Len(pending)] \in Terminators(prompt)
      /\ \A i \in 1 .. Len(pending) - 1 : pending[i] \notin Terminators(prompt)
  BY <1>4 DEF Split, MaskInv, PendingInv
<1>8. text \in Seq(Int)
  BY <1>2, <1>3 DEF BufferInv, TypeOK
<1> DEFINE r == Len(received)
           p == Len(pending)
<1>11. r \in Nat /\ p \in Nat /\ n \in 1 .. p /\ Len(text) \in Nat /\ r + p = Len(text) + 1
  BY <1>2, <1>4, <1>8 DEF Split
<1>12. /\ \A i \in 1 .. r : received[i] = text[i]
       /\ \A i \in 1 .. p - 1 : pending[i] = text[r + i]
  BY <1>4 DEF Split
<1>13. /\ pending[p] \in Terminators(prompt)
       /\ \A i \in 1 .. p - 1 : pending[i] \notin Terminators(prompt)
  BY <1>7
<1> HIDE DEF Got, text, r, p
<1>9. CASE n = p
  <2>1. \E b \in Terminators(prompt) : Contains(Got(n), b)
    BY <1>5, <1>9, <1>11, <1>13 DEF Contains
  <2>2. prompt' = prompt + 1 /\ is_reading' = FALSE /\ lines' = Append(lines, received')
    BY <1>1, <2>1
  <2>3. Cut(Got(n)) = SubSeq(Got(n), 1, n - 1)
    <3>1. PICK at \in 1 .. n : Got(n)[at] \in Terminators(prompt) /\ Cut(Got(n)) = SubSeq(Got(n), 1, at - 1)
      BY <1>5, <1>9, <1>11, <1>13, CutBefore
    <3>2. at = n
      BY <1>5, <1>9, <1>11, <1>13, <3>1
    <3> QED
      BY <3>1, <3>2
  <2>4. /\ Cut(Got(n)) \in Seq(Int) /\ Len(Cut(Got(n))) = n - 1
        /\ \A i \in 1 .. n - 1 : Cut(Got(n))[i] = pending[i]
    <3>1. 1 \in 1 .. n + 1 /\ n - 1 \in 1 - 1 .. n /\ n - 1 - 1 + 1 = n - 1
      BY <1>11
    <3>2. /\ SubSeq(Got(n), 1, n - 1) \in Seq(Int) /\ Len(SubSeq(Got(n), 1, n - 1)) = n - 1 - 1 + 1
          /\ \A i \in 1 .. n - 1 - 1 + 1 : SubSeq(Got(n), 1, n - 1)[i] = Got(n)[1 + i - 1]
      BY <1>5, <3>1, Part
    <3>3. \A i \in 1 .. n - 1 : i \in 1 .. n /\ 1 + i - 1 = i
      BY <1>11
    <3> QED
      BY <1>5, <2>3, <3>1, <3>2, <3>3
  <2> DEFINE new == Cut(Got(n))
  <2>5. /\ received' \in Seq(Int) /\ Len(received') = r + (n - 1)
        /\ \A i \in 1 .. r : received'[i] = received[i]
        /\ \A i \in 1 .. n - 1 : received'[r + i] = pending[i]
    <3>1. /\ received \o new \in Seq(Int) /\ Len(received \o new) = Len(received) + Len(new)
          /\ \A i \in 1 .. Len(received) : (received \o new)[i] = received[i]
          /\ \A i \in 1 .. Len(new) : (received \o new)[Len(received) + i] = new[i]
      BY <1>2, <2>4, Concatenated, Zenon
    <3> QED
      BY <1>1, <2>4, <3>1, Zenon DEF r
  <2> HIDE DEF new
  <2>6. received' = text
    <3>1. Len(received') = Len(text)
      BY <1>9, <1>11, <2>5
    <3>2. ASSUME NEW i \in 1 .. Len(text) PROVE received'[i] = text[i]
      <4>1. CASE i <= r
        BY <1>11, <1>12, <2>5, <4>1
      <4>2. CASE i > r
        <5>1. PICK j \in 1 .. n - 1 : i = r + j
          <6>1. i - r \in 1 .. n - 1 /\ i = r + (i - r)
            BY <1>9, <1>11, <4>2
          <6> QED
            BY <6>1
        <5>2. received'[i] = pending[j]
          BY <2>5, <5>1
        <5> QED
          BY <1>9, <1>12, <5>1, <5>2
      <4> QED
        BY <1>11, <4>1, <4>2
    <3> QED
      BY <1>8, <2>5, <3>1, <3>2, SameElements
  <2>7. /\ Len(lines) = prompt - 1 /\ \A i \in 1 .. Len(lines) : lines'[i] = lines[i]
        /\ lines'[Len(lines) + 1] = received'
    <3>1. lines \in Seq(Seq(Int)) /\ Len(lines) = prompt - 1
      BY DEF BufferInv, TypeOK
    <3>2. \A e \in Seq(Int) :
            /\ \A i \in 1 .. Len(lines) : Append(lines, e)[i] = lines[i]
            /\ Append(lines, e)[Len(lines) + 1] = e
      BY <3>1, Appended, Zenon
    <3> QED
      BY <2>2, <2>5, <3>1, <3>2, Zenon
  <2>8. Returned'
    <3>1. ASSUME NEW i \in 1 .. prompt' - 1 PROVE lines'[i] = texts'[i]
      <4>1. CASE i = prompt
        BY <1>2, <2>6, <2>7, <4>1 DEF text
      <4>2. CASE i # prompt
        BY <1>2, <2>2, <2>7, <4>2 DEF LineInv, Returned
      <4> QED
        BY <4>1, <4>2
    <3> QED
      BY <3>1 DEF Returned
  <2> QED
    BY <1>2, <1>3, <2>2, <2>8 DEF LineInv
<1>10. CASE n # p
  <2>1. \A i \in 1 .. n : Got(n)[i] \notin Terminators(prompt)
    BY <1>5, <1>10, <1>11, <1>13
  <2>2. UNCHANGED <<prompt, is_reading, lines>>
    BY <1>1, <1>5, <2>1 DEF Contains
  <2>3. Cut(Got(n)) = Got(n)
    BY <1>5, <2>1, CutBefore
  <2>5. /\ received' \in Seq(Int) /\ Len(received') = r + n
        /\ \A i \in 1 .. r : received'[i] = received[i]
        /\ \A i \in 1 .. n : received'[r + i] = pending[i]
    <3> DEFINE new == Got(n)
    <3>1. /\ received \o new \in Seq(Int) /\ Len(received \o new) = Len(received) + Len(new)
          /\ \A i \in 1 .. Len(received) : (received \o new)[i] = received[i]
          /\ \A i \in 1 .. Len(new) : (received \o new)[Len(received) + i] = new[i]
      BY <1>2, <1>5, Concatenated, Zenon
    <3> QED
      BY <1>1, <1>5, <2>3, <3>1, Zenon DEF r
  <2>6. Split'
    <3>1. Terminators(prompt)' = Terminators(prompt) /\ texts'[prompt'] = text
      BY <1>2, <2>2 DEF Terminators, text
    <3>2. Len(pending') = p - n /\ \A i \in 1 .. p - n : pending'[i] = pending[n + i]
      BY <1>6 DEF p
    <3>3. pending' # <<>>
      BY <1>10, <1>11, <3>2
    <3>4. Len(received') + Len(pending') = Len(text) + 1
      <4>1. Len(received') = r + n /\ Len(pending') = p - n
        BY <2>5, <3>2
      <4>2. r + n + (p - n) = r + p
        BY <1>11
      <4> QED
        BY <1>11, <4>1, <4>2, Zenon
    <3>5. ASSUME NEW i \in 1 .. Len(received') PROVE received'[i] = text[i]
      <4>1. CASE i <= r
        BY <1>11, <1>12, <2>5, <4>1
      <4>2. CASE i > r
        <5>1. PICK j \in 1 .. n : i = r + j
          <6>1. i - r \in 1 .. n /\ i = r + (i - r)
            BY <1>11, <2>5, <4>2
          <6> QED
            BY <6>1
        <5>2. received'[i] = pending[j] /\ j \in 1 .. p - 1
          BY <1>10, <1>11, <2>5, <5>1
        <5> QED
          BY <1>12, <5>1, <5>2
      <4> QED
        BY <1>11, <4>1, <4>2
    <3>6. ASSUME NEW i \in 1 .. Len(pending') - 1 PROVE pending'[i] = text[Len(received') + i]
      <4>1. i \in 1 .. p - n /\ n + i \in 1 .. p - 1
        BY <1>11, <3>2
      <4>2. pending'[i] = pending[n + i]
        BY <3>2, <4>1
      <4>3. pending[n + i] = text[r + (n + i)]
        BY <1>12, <4>1
      <4>4. r + (n + i) = Len(received') + i
        BY <1>11, <2>5, <4>1
      <4> QED
        BY <4>2, <4>3, <4>4
    <3>7. pending'[Len(pending')] \in Terminators(prompt)
      <4>1. p - n \in 1 .. p - n /\ n + (p - n) = p
        BY <1>10, <1>11
      <4>2. pending'[p - n] = pending[n + (p - n)]
        BY <3>2, <4>1
      <4> QED
        BY <1>13, <3>2, <4>1, <4>2
    <3> QED
      BY <3>1, <3>3, <3>4, <3>5, <3>6, <3>7, Zenon DEF Split
  <2> QED
    BY <1>2, <1>3, <2>2, <2>6 DEF LineInv, Returned
<1> QED
  BY <1>9, <1>10

LEMMA BeginKeepsLines ==
    ASSUME BufferInv, MaskInv, LineInv, BeginRead PROVE LineInv'
<1>1. /\ is_reading = FALSE /\ is_reading' = TRUE /\ received' = <<>>
      /\ UNCHANGED <<texts, prompt, lines>>
  BY DEF BeginRead, hostVars, BufferInv, TypeOK
<1>2. Len(texts) = prompt - 1 /\ prompt \in Nat
  BY <1>1 DEF LineInv, BufferInv, TypeOK
<1> QED
  BY <1>1, <1>2 DEF LineInv, Returned

(* However what is typed at a prompt is cut into pieces, app_io_read_lines *)
(* returns it, each line at its own prompt, for a user who waits to be     *)
(* asked and a terminal that ends a line with one character.               *)
THEOREM LinesReturnedAsTyped == ASSUME PatientUser PROVE Spec => []LinesAsTyped
<1>1. Init => LineInv
  BY DEF Init, LineInv, Returned
<1>2. BufferInv /\ MaskInv /\ LineInv /\ [Next]_vars => LineInv'
  <2> SUFFICES ASSUME BufferInv, MaskInv, LineInv, [Next]_vars PROVE LineInv'
    OBVIOUS
  <2>1. CASE Configure \/ UNCHANGED vars
    <3>1. UNCHANGED <<pending, texts, prompt, is_reading, received, lines>>
      BY <2>1 DEF Configure, vars, hostVars, readerVars
    <3> QED
      BY <3>1 DEF LineInv, Returned, Split, Terminators
  <2> QED
    BY <2>1, TypeKeepsLines, BeginKeepsLines, ReceiveKeepsLines DEF Next
<1>3. BufferInv /\ MaskInv /\ LineInv => LinesAsTyped
  <2> SUFFICES ASSUME BufferInv, MaskInv, LineInv PROVE LinesAsTyped
    OBVIOUS
  <2>1. /\ texts \in Seq(Seq(Int)) /\ lines \in Seq(Seq(Int)) /\ Len(lines) = prompt - 1
        /\ Len(texts) \in {prompt - 1, prompt} /\ prompt \in Nat
    BY DEF BufferInv, TypeOK, MaskInv, ReadingInv
  <2>2. \A i \in 1 .. Len(lines) : lines[i] = texts[i]
    BY <2>1 DEF LineInv, Returned
  <2> DEFINE n == Len(lines)
  <2>3. n \in Nat /\ n <= Len(texts)
    BY <2>1
  <2>4. SubSeq(lines, 1, n) = SubSeq(texts, 1, n)
    BY <2>1, <2>2, <2>3, SamePrefix
  <2> QED
    BY <2>3, <2>4, Zenon DEF LinesAsTyped, IsPrefix
<1> QED
  BY <1>1, <1>2, <1>3, BufferInductive, MaskInductive, PTL DEF Spec
=============================================================================
