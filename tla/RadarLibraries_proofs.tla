------------------------ MODULE RadarLibraries_proofs -----------------------
(***************************************************************************)
(* The libraries under proj_cm55/source/radar, by themselves and where     *)
(* RadarLibraries puts them together: what the operators of Preprocess do  *)
(* to frames of every size; the data manager's counter of subscribers, for *)
(* every number of tasks and slots, every buffer and whatever the sensor   *)
(* delivers; what its tasks are handed, for a sensor that delivers no less *)
(* than a fill level into a buffer that holds at least two; the detection  *)
(* of a hand (HandDetection_proofs); and the features that the slim        *)
(* algorithms hand to the model, for every number of bins, every number    *)
(* of chirps from 16 on that is a multiple of four, and all scenes.        *)
(***************************************************************************)
EXTENDS RadarLibraries, HandDetection_proofs

-----------------------------------------------------------------------------
(* Index arithmetic.                                                       *)

(* A pair of indices is one index, and comes back from it.                 *)
LEMMA PairOfIndex ==
    ASSUME NEW m \in Nat, NEW n \in Nat \ {0}, NEW a \in Indices(m), NEW b \in Indices(n)
    PROVE  /\ a * n + b \in Indices(m * n)
           /\ (a * n + b) \div n = a
           /\ (a * n + b) % n = b
<1>1. a * n + b \in Indices(m * n)
  BY SMT DEF Indices
<1>2. (a * n + b) \div n = a
  BY SMT DEF Indices
<1>3. (a * n + b) % n = b
  BY SMT DEF Indices
<1> QED
  BY <1>1, <1>2, <1>3

LEMMA IndexOfPair ==
    ASSUME NEW m \in Nat, NEW n \in Nat \ {0}, NEW i \in Indices(m * n)
    PROVE  /\ i \div n \in Indices(m)
           /\ i % n \in Indices(n)
           /\ i = (i \div n) * n + (i % n)
<1>1. i = (i \div n) * n + (i % n) /\ i \div n \in Int /\ i % n \in 0 .. n - 1
  BY SMT DEF Indices
<1>2. i \div n >= 0
  BY <1>1, SMT DEF Indices
<1>3. i \div n < m
  BY <1>1, SMT DEF Indices
<1> QED
  BY <1>1, <1>2, <1>3, SMT DEF Indices

-----------------------------------------------------------------------------
(* slice.c.                                                                *)

(* slice_3d_col_cf64 takes the column's sample of every channel and row,   *)
(* and reads nothing outside the frame.                                    *)
THEOREM ColumnOfEveryChannel ==
    ASSUME NEW src, NEW n_ch \in Nat \ {0}, NEW n_rows \in Nat \ {0}, NEW n_cols \in Nat \ {0},
           NEW ch \in Indices(n_ch), NEW row \in Indices(n_rows), NEW col \in Indices(n_cols)
    PROVE  /\ ch * n_rows * n_cols + row * n_cols + col \in Indices(n_ch * n_rows * n_cols)
           /\ Slice3dCol(src, col, n_ch, n_rows, n_cols)[ch * n_rows + row]
                = src[ch * n_rows * n_cols + row * n_cols + col]
<1> DEFINE i == ch * n_rows + row
<1>1. i \in Indices(n_ch * n_rows) /\ i \div n_rows = ch /\ i % n_rows = row
  BY PairOfIndex
<1>2. i * n_cols + col \in Indices((n_ch * n_rows) * n_cols)
  <2>1. n_ch * n_rows \in Nat
    BY SMT
  <2> QED
    BY <1>1, <2>1, PairOfIndex
<1>3. i * n_cols + col = ch * n_rows * n_cols + row * n_cols + col
  BY SMT DEF Indices
<1>4. Slice3dCol(src, col, n_ch, n_rows, n_cols)[i]
        = src[(i \div n_rows) * n_rows * n_cols + (i % n_rows) * n_cols + col]
  BY <1>1 DEF Slice3dCol
<1> QED
  BY <1>1, <1>2, <1>3, <1>4

(* slice_3d_row_cf64 takes the row of every channel, one behind the other, *)
(* and reads nothing outside the frame.                                    *)
THEOREM RowOfEveryChannel ==
    ASSUME NEW src, NEW n_ch \in Nat \ {0}, NEW n_rows \in Nat \ {0}, NEW n_cols \in Nat \ {0},
           NEW ch \in Indices(n_ch), NEW row \in Indices(n_rows), NEW col \in Indices(n_cols)
    PROVE  /\ ch * n_rows * n_cols + row * n_cols + col \in Indices(n_ch * n_rows * n_cols)
           /\ Slice3dRow(src, row, n_ch, n_rows, n_cols)[ch * n_cols + col]
                = src[ch * n_rows * n_cols + row * n_cols + col]
<1> DEFINE i == ch * n_cols + col
<1>1. i \in Indices(n_ch * n_cols) /\ i \div n_cols = ch /\ i % n_cols = col
  BY PairOfIndex
<1>2. Slice3dRow(src, row, n_ch, n_rows, n_cols)[i]
        = src[(i \div n_cols) * n_rows * n_cols + row * n_cols + (i % n_cols)]
  BY <1>1 DEF Slice3dRow
<1> QED
  BY <1>1, <1>2, ColumnOfEveryChannel

(* The slices of one image.                                                *)
THEOREM SlicesOfImage ==
    ASSUME NEW src, NEW n_rows \in Nat \ {0}, NEW n_cols \in Nat \ {0},
           NEW row \in Indices(n_rows), NEW col \in Indices(n_cols)
    PROVE  /\ row * n_cols + col \in Indices(n_rows * n_cols)
           /\ Slice2dRow(src, row, n_cols)[col] = src[row * n_cols + col]
           /\ Slice2dCol(src, col, n_rows, n_cols)[row] = src[row * n_cols + col]
<1>1. row * n_cols + col \in Indices(n_rows * n_cols)
  BY PairOfIndex
<1> QED
  BY <1>1 DEF Slice2dRow, Slice2dCol

-----------------------------------------------------------------------------
(* Exchanging places.                                                      *)

(* fftshift_cf64, which works in place, puts every element of an array of  *)
(* even length half the length on, and twice puts all of them back.        *)
THEOREM ShiftTwice ==
    ASSUME NEW S, NEW len \in Nat, len % 2 = 0, NEW in \in [Indices(len) -> S]
    PROVE  /\ \A i \in Indices(len) : FftShift(in, len)[(i + len \div 2) % len] = in[i]
           /\ FftShift(FftShift(in, len), len) = in
<1> DEFINE half == len \div 2
           once == FftShift(in, len)
<1>1. len = 2 * half /\ half \in Nat
  BY SMT
<1>2. once = [i \in Indices(len) |-> IF i < half THEN in[i + half] ELSE in[i - half]]
  BY DEF FftShift
<1>3. \A i \in Indices(len) : once[(i + half) % len] = in[i]
  <2> SUFFICES ASSUME NEW i \in Indices(len) PROVE once[(i + half) % len] = in[i]
    OBVIOUS
  <2>1. CASE i < half
    <3>1. (i + half) % len = i + half
      BY <1>1, <2>1, SMT DEF Indices
    <3>2. i + half \in Indices(len) /\ ~(i + half < half) /\ (i + half) - half = i
      BY <1>1, <2>1, SMT DEF Indices
    <3> QED
      BY <1>2, <3>1, <3>2
  <2>2. CASE ~(i < half)
    <3>1. (i + half) % len = i - half
      BY <1>1, <2>2, SMT DEF Indices
    <3>2. i - half \in Indices(len) /\ i - half < half /\ (i - half) + half = i
      BY <1>1, <2>2, SMT DEF Indices
    <3> QED
      BY <1>2, <3>1, <3>2
  <2> QED
    BY <2>1, <2>2
<1>4. FftShift(once, len) = in
  <2>1. FftShift(once, len)
            = [i \in Indices(len) |-> IF i < half THEN once[i + half] ELSE once[i - half]]
    BY DEF FftShift
  <2>2. ASSUME NEW i \in Indices(len)
        PROVE  (IF i < half THEN once[i + half] ELSE once[i - half]) = in[i]
    <3>1. CASE i < half
      <4>1. i + half \in Indices(len) /\ ~(i + half < half) /\ (i + half) - half = i
        BY <1>1, <3>1, SMT DEF Indices
      <4> QED
        BY <1>2, <3>1, <4>1
    <3>2. CASE ~(i < half)
      <4>1. i - half \in Indices(len) /\ i - half < half /\ (i - half) + half = i
        BY <1>1, <3>2, SMT DEF Indices
      <4> QED
        BY <1>2, <3>2, <4>1
    <3> QED
      BY <3>1, <3>2
  <2> HIDE DEF once
  <2> QED
    BY <2>1, <2>2
<1> QED
  BY <1>3, <1>4

(* cmplx_image_transpose puts the sample of a row and a column at the      *)
(* column and the row.                                                     *)
LEMMA Transposed ==
    ASSUME NEW num_rows \in Nat \ {0}, NEW num_cols \in Nat \ {0},
           NEW row \in Indices(num_rows), NEW col \in Indices(num_cols)
    PROVE  /\ col * num_rows + row \in Indices(num_rows * num_cols)
           /\ TransposedFrom(col * num_rows + row, num_rows, num_cols) = row * num_cols + col
<1> DEFINE i == col * num_rows + row
<1>1. num_cols * num_rows = num_rows * num_cols
  BY SMT
<1>2. i \in Indices(num_rows * num_cols) /\ i \div num_rows = col /\ i % num_rows = row
  BY <1>1, PairOfIndex
<1> QED
  BY <1>2 DEF TransposedFrom

(* cmplx_image_transpose does so with every sample of an image, and a      *)
(* second transposition gives the image back; a refused one changes        *)
(* nothing.                                                                *)
THEOREM TransposeTwice ==
    ASSUME NEW S, NEW num_rows \in Nat \ {0}, NEW num_cols \in Nat \ {0}, NEW checked \in BOOLEAN,
           NEW src \in [Indices(num_rows * num_cols) -> S],
           NEW dst \in [Indices(num_rows * num_cols) -> S],
           NEW once, once = ImageTranspose(src, dst, num_rows, num_cols, checked)
    PROVE  /\ TransposeRefused(num_rows, num_cols, checked) => once = dst
           /\ ~TransposeRefused(num_rows, num_cols, checked) =>
                /\ \A row \in Indices(num_rows), col \in Indices(num_cols) :
                        once[col * num_rows + row] = src[row * num_cols + col]
                /\ ImageTranspose(once, dst, num_cols, num_rows, checked) = src
<1> DEFINE size == num_rows * num_cols
           refused == TransposeRefused(num_rows, num_cols, checked)
<1>1. num_cols * num_rows = size
  BY SMT
<1>2. once = [i \in Indices(size) |-> IF refused THEN dst[i]
                                      ELSE src[TransposedFrom(i, num_rows, num_cols)]]
  BY DEF ImageTranspose
<1>3. ASSUME refused PROVE once = dst
  <2>1. once = [i \in Indices(size) |-> dst[i]]
    BY <1>2, <1>3
  <2>2. dst = [i \in Indices(size) |-> dst[i]]
    OBVIOUS
  <2> QED
    BY <2>1, <2>2, Zenon
<1>4. ASSUME ~refused, NEW row \in Indices(num_rows), NEW col \in Indices(num_cols)
      PROVE  once[col * num_rows + row] = src[row * num_cols + col]
  <2> HIDE DEF refused
  <2> QED
    BY <1>2, <1>4, Transposed
<1>5. ASSUME ~refused PROVE ImageTranspose(once, dst, num_cols, num_rows, checked) = src
  <2>1. ~TransposeRefused(num_cols, num_rows, checked) /\ DOMAIN dst = Indices(size)
    BY <1>5 DEF TransposeRefused
  <2>2. ImageTranspose(once, dst, num_cols, num_rows, checked)
        = [i \in Indices(size) |-> once[(i % num_cols) * num_rows + (i \div num_cols)]]
    <3>1. num_cols * num_rows = size
      BY <1>1
    <3> HIDE DEF size
    <3> QED
      BY <2>1, <3>1 DEF ImageTranspose, TransposedFrom
  <2>3. ASSUME NEW i \in Indices(size)
        PROVE  once[(i % num_cols) * num_rows + (i \div num_cols)] = src[i]
    <3>1. /\ i \div num_cols \in Indices(num_rows)
          /\ i % num_cols \in Indices(num_cols)
          /\ i = (i \div num_cols) * num_cols + (i % num_cols)
      BY IndexOfPair
    <3> HIDE DEF size, refused
    <3> QED
      BY <1>4, <1>5, <3>1
  <2> HIDE DEF size
  <2>4. src = [i \in Indices(size) |-> src[i]]
    BY DEF size
  <2> QED
    BY <2>2, <2>3, <2>4
<1> QED
  BY <1>3, <1>4, <1>5

(* cmplx_frame_transpose does that to the image of every channel, and puts *)
(* it where the channel was, if the last channel starts below 65536, where *)
(* its offset would wrap; refused, it changes nothing.                     *)
THEOREM TransposedChannels ==
    ASSUME NEW cfg \in FrameConfig, NEW ch \in Indices(cfg.n_channels),
           NEW row \in Indices(cfg.n_chirps), NEW col \in Indices(cfg.n_range_bins),
           NEW size, size = cfg.n_chirps * cfg.n_range_bins,
           (cfg.n_channels - 1) * size < 65536,
           NEW S, NEW src, NEW dst \in [Indices(cfg.n_channels * size) -> S],
           NEW checked \in BOOLEAN
    PROVE  IF TransposeRefused(cfg.n_chirps, cfg.n_range_bins, checked)
           THEN FrameTranspose(src, dst, cfg, checked) = dst
           ELSE FrameTranspose(src, dst, cfg, checked)[ch * size + (col * cfg.n_chirps + row)]
                    = src[ch * size + (row * cfg.n_range_bins + col)]
<1> DEFINE m == cfg.n_chirps
           n == cfg.n_range_bins
           many == cfg.n_channels
           refused == TransposeRefused(m, n, checked)
           Offset(c) == U16(c * size)
           Over(p) == {c \in Indices(many) : p - Offset(c) \in Indices(size)}
           i0 == col * m + row
           p0 == ch * size + i0
<1>1. m \in Nat \ {0} /\ n \in Nat \ {0} /\ many \in Nat \ {0} /\ size \in Nat \ {0}
  <2>1. m \in Nat \ {0} /\ n \in Nat \ {0} /\ many \in Nat \ {0}
    BY DEF FrameConfig
  <2> QED
    BY <2>1, SMT
<1>2. FrameTranspose(src, dst, cfg, checked)
        = [p \in Indices(many * size) |->
            IF refused \/ Over(p) = {} THEN dst[p]
            ELSE LET offset == Offset(Max(Over(p)))
                 IN  src[offset + TransposedFrom(p - offset, m, n)]]
  BY DEF FrameTranspose
<1>3. ASSUME refused PROVE FrameTranspose(src, dst, cfg, checked) = dst
  <2> HIDE DEF refused, Over, Offset
  <2>1. FrameTranspose(src, dst, cfg, checked) = [p \in Indices(many * size) |-> dst[p]]
    BY <1>2, <1>3
  <2>2. dst = [p \in Indices(many * size) |-> dst[p]]
    OBVIOUS
  <2> HIDE DEF many
  <2> QED
    BY <2>1, <2>2
<1>4. i0 \in Indices(size) /\ TransposedFrom(i0, m, n) = row * n + col
  BY <1>1, Transposed
<1> HIDE DEF m, n, many, i0
<1>5. ASSUME NEW c \in Indices(many) PROVE Offset(c) = c * size /\ c \in Nat
  <2>1. c \in Nat /\ c <= many - 1
    BY <1>1, <1>5 DEF Indices
  <2>2. c * size <= (many - 1) * size /\ c * size \in Nat
    BY <1>1, <2>1
  <2>3. (many - 1) * size < 65536 /\ (many - 1) * size \in Int
    BY <1>1 DEF many
  <2>4. \A k \in Nat : k < 65536 => U16(k) = k
    BY DEF U16
  <2> DEFINE k == c * size
             top == (many - 1) * size
  <2>5. k \in Nat /\ k <= top /\ top < 65536 /\ top \in Int
    BY <2>2, <2>3
  <2> HIDE DEF k, top
  <2>6. U16(k) = k
    BY <2>4, <2>5
  <2> QED
    BY <2>1, <2>6 DEF k
<1>6. ch \in Indices(many) /\ p0 \in Indices(many * size)
  BY <1>1, <1>4, PairOfIndex DEF many
<1>7. Over(p0) = {ch}
  <2>1. ASSUME NEW c \in Indices(many), p0 - c * size \in Indices(size) PROVE c = ch
    <3> DEFINE e == p0 - c * size
    <3>1. c \in Nat /\ c * size \in Int /\ ch * size \in Int /\ i0 \in Int
      <4>1. c \in Nat /\ ch \in Nat /\ i0 \in Int
        BY <1>1, <1>4, <1>6, <2>1 DEF Indices
      <4> QED
        BY <1>1, <4>1
    <3>2. ch * size + i0 = c * size + e
      BY <3>1
    <3>3. (ch * size + i0) \div size = ch
      BY <1>1, <1>4, <1>6, PairOfIndex
    <3>4. e \in Indices(size)
      BY <2>1
    <3> HIDE DEF e
    <3>5. (c * size + e) \div size = c
      BY <1>1, <2>1, <3>4, PairOfIndex
    <3> QED
      BY <3>2, <3>3, <3>5
  <2>2. p0 - ch * size = i0
    <3>1. ch * size \in Int /\ i0 \in Int
      <4>1. ch \in Nat /\ i0 \in Int
        BY <1>1, <1>4, <1>6 DEF Indices
      <4> QED
        BY <1>1, <4>1
    <3> QED
      BY <3>1
  <2>3. \A c \in Indices(many) : Offset(c) = c * size
    BY <1>5
  <2> HIDE DEF Offset, p0
  <2> QED
    BY <1>4, <1>6, <2>1, <2>2, <2>3
<1>8. Max(Over(p0)) = ch /\ Over(p0) # {}
  <2>1. Max({ch}) = ch
    <3>1. ch >= ch
      BY <1>5, <1>6
    <3> QED
      BY <3>1 DEF Max
  <2> HIDE DEF Over, p0
  <2> QED
    BY <1>7, <2>1
<1>9. ASSUME ~refused
      PROVE  FrameTranspose(src, dst, cfg, checked)[p0] = src[ch * size + (row * n + col)]
  <2>1. p0 - ch * size = i0 /\ Offset(ch) = ch * size
    <3>1. ch * size \in Int /\ i0 \in Int
      <4>1. ch \in Nat /\ i0 \in Int
        BY <1>1, <1>4, <1>6 DEF Indices
      <4> QED
        BY <1>1, <4>1
    <3>2. p0 - ch * size = i0
      BY <3>1
    <3>3. Offset(ch) = ch * size
      BY <1>5, <1>6
    <3> QED
      BY <3>2, <3>3
  <2> HIDE DEF Over, Offset, p0, refused
  <2>2. FrameTranspose(src, dst, cfg, checked)[p0]
            = src[Offset(ch) + TransposedFrom(p0 - Offset(ch), m, n)]
    BY <1>2, <1>6, <1>8, <1>9
  <2> QED
    BY <1>4, <2>1, <2>2
<1> QED
  BY <1>3, <1>9 DEF m, n, i0

-----------------------------------------------------------------------------
(* remove_mean_3d_cf64.                                                    *)

(* Along every axis the lines cover the frame, and none overlaps another:  *)
(* every sample is freed of exactly one mean.  The step from channel to    *)
(* channel has to fit in 16 bits.                                          *)
THEOREM OneMeanPerSample ==
    ASSUME NEW n_ch \in Nat \ {0}, NEW n_rows \in Nat \ {0}, NEW n_cols \in Nat \ {0},
           NEW axis \in {0, 1, 2}, axis = 0 => n_rows * n_cols < 65536,
           NEW i \in Indices(n_ch * n_rows * n_cols)
    PROVE  \E line \in MeanLines(axis, n_ch, n_rows, n_cols) :
                /\ i \in line
                /\ \A other \in MeanLines(axis, n_ch, n_rows, n_cols) : i \in other => other = line
<1> DEFINE image == n_rows * n_cols
           ch  == i \div image
           el  == i % image
           row == el \div n_cols
           col == el % n_cols
<1>1. image \in Nat \ {0} /\ n_ch * n_rows * n_cols = n_ch * image
  BY SMT
<1>2. ch \in Indices(n_ch) /\ el \in Indices(image) /\ i = ch * image + el
  BY <1>1, IndexOfPair
<1>3. row \in Indices(n_rows) /\ col \in Indices(n_cols) /\ el = row * n_cols + col
  BY <1>2, IndexOfPair
<1>4. CASE axis = 0
  <2>1. MeanLines(axis, n_ch, n_rows, n_cols) = {Line(e, n_ch, image) : e \in Indices(image)}
    <3>1. U16(image) = image
      BY <1>1, <1>4 DEF U16
    <3> QED
      BY <1>4, <3>1 DEF MeanLines
  <2>2. \A e \in Indices(image) : i \in Line(e, n_ch, image) <=> e = el
    <3> SUFFICES ASSUME NEW e \in Indices(image)
                 PROVE  i \in Line(e, n_ch, image) <=> e = el
      OBVIOUS
    <3>1. ASSUME NEW c \in Indices(n_ch), i = e + c * image PROVE e = el
      <4>1. i = c * image + e
        BY <1>1, <3>1, SMT DEF Indices
      <4> QED
        BY <1>1, <4>1, PairOfIndex
    <3>2. i = el + ch * image
      BY <1>1, <1>2, SMT DEF Indices
    <3> HIDE DEF el, ch, image
    <3> QED
      BY <1>2, <3>1, <3>2 DEF Line
  <2> HIDE DEF el, ch, image
  <2> QED
    BY <1>2, <2>1, <2>2
<1>5. CASE axis = 1
  <2> DEFINE L(c, k) == Line(c * n_rows * n_cols + k, n_rows, n_cols)
  <2>1. MeanLines(axis, n_ch, n_rows, n_cols) = {L(c, k) : c \in Indices(n_ch), k \in Indices(n_cols)}
    BY <1>5 DEF MeanLines
  <2>2. \A c \in Indices(n_ch), k \in Indices(n_cols) : i \in L(c, k) <=> c = ch /\ k = col
    <3> SUFFICES ASSUME NEW c \in Indices(n_ch), NEW k \in Indices(n_cols)
                 PROVE  i \in L(c, k) <=> c = ch /\ k = col
      OBVIOUS
    <3>1. ASSUME NEW r \in Indices(n_rows), i = c * n_rows * n_cols + k + r * n_cols
          PROVE  c = ch /\ k = col
      <4>1. i = c * image + (r * n_cols + k)
        BY <3>1, SMT DEF Indices
      <4>2. r * n_cols + k \in Indices(image) /\ (r * n_cols + k) % n_cols = k
        BY PairOfIndex
      <4>3. c = ch /\ r * n_cols + k = el
        <5> DEFINE e == r * n_cols + k
        <5> HIDE DEF e, image
        <5>1. (c * image + e) \div image = c /\ (c * image + e) % image = e
          BY <1>1, <4>2, PairOfIndex DEF e
        <5> QED
          BY <4>1, <5>1 DEF e
      <4> QED
        BY <4>2, <4>3
    <3>2. i = ch * n_rows * n_cols + col + row * n_cols
      <4>1. i = ch * image + (row * n_cols + col)
        BY <1>2, <1>3
      <4>2. ch \in Int /\ row \in Int /\ col \in Int
        BY <1>2, <1>3 DEF Indices
      <4> HIDE DEF ch, row, col
      <4> QED
        BY <4>1, <4>2, SMT
    <3> HIDE DEF el, ch, image, row, col
    <3> QED
      BY <1>3, <3>1, <3>2 DEF Line
  <2> HIDE DEF el, ch, image, row, col, L
  <2> QED
    BY <1>2, <1>3, <2>1, <2>2
<1>6. CASE axis = 2
  <2> DEFINE L(c, r) == Line(c * n_rows * n_cols + r * n_cols, n_cols, 1)
  <2>1. MeanLines(axis, n_ch, n_rows, n_cols) = {L(c, r) : c \in Indices(n_ch), r \in Indices(n_rows)}
    BY <1>6 DEF MeanLines
  <2>2. \A c \in Indices(n_ch), r \in Indices(n_rows) : i \in L(c, r) <=> c = ch /\ r = row
    <3> SUFFICES ASSUME NEW c \in Indices(n_ch), NEW r \in Indices(n_rows)
                 PROVE  i \in L(c, r) <=> c = ch /\ r = row
      OBVIOUS
    <3>1. ASSUME NEW k \in Indices(n_cols), i = c * n_rows * n_cols + r * n_cols + k * 1
          PROVE  c = ch /\ r = row
      <4>1. i = c * image + (r * n_cols + k)
        BY <3>1, SMT DEF Indices
      <4>2. r * n_cols + k \in Indices(image) /\ (r * n_cols + k) \div n_cols = r
        BY PairOfIndex
      <4>3. c = ch /\ r * n_cols + k = el
        <5> DEFINE e == r * n_cols + k
        <5> HIDE DEF e, image
        <5>1. (c * image + e) \div image = c /\ (c * image + e) % image = e
          BY <1>1, <4>2, PairOfIndex DEF e
        <5> QED
          BY <4>1, <5>1 DEF e
      <4> QED
        BY <4>2, <4>3
    <3>2. i = ch * n_rows * n_cols + row * n_cols + col * 1
      <4>1. i = ch * image + (row * n_cols + col)
        BY <1>2, <1>3
      <4>2. ch \in Int /\ row \in Int /\ col \in Int
        BY <1>2, <1>3 DEF Indices
      <4> HIDE DEF ch, row, col
      <4> QED
        BY <4>1, <4>2, SMT
    <3> HIDE DEF el, ch, image, row, col
    <3> DEFINE first == c * n_rows * n_cols + r * n_cols
    <3>3. L(c, r) = {first + k * 1 : k \in Indices(n_cols)}
      BY DEF Line
    <3>4. ASSUME i \in L(c, r) PROVE c = ch /\ r = row
      <4>1. PICK k \in Indices(n_cols) : i = first + k * 1
        BY <3>3, <3>4
      <4> QED
        BY <3>1, <4>1
    <3>5. ASSUME c = ch, r = row PROVE i \in L(c, r)
      <4>1. i = first + col * 1
        BY <3>2, <3>5
      <4> HIDE DEF first, L
      <4> QED
        BY <1>3, <3>3, <4>1
    <3> HIDE DEF L
    <3> QED
      BY <3>4, <3>5
  <2> HIDE DEF el, ch, image, row, col, L
  <2> QED
    BY <1>2, <1>3, <2>1, <2>2
<1> QED
  BY <1>4, <1>5, <1>6

-----------------------------------------------------------------------------
(* get_phase_difference.                                                   *)

(* A difference of phases is at most half a turn, and is the difference up *)
(* to whole turns.                                                         *)
THEOREM AtMostHalfATurn ==
    ASSUME NEW phase0 \in Int, NEW phase1 \in Int, NEW turn \in Nat \ {0},
           NEW d, d = PhaseDifference(phase0, phase1, turn)
    PROVE  /\ d \in Int /\ 2 * d <= turn /\ -turn <= 2 * d
           /\ \E k \in Int : phase1 - phase0 = d + turn * k
<1> DEFINE n == phase1 - phase0
           q == n \div turn
           r == n % turn
<1>1. n \in Int /\ q \in Int /\ r \in 0 .. turn - 1 /\ n = turn * q + r
  BY SMT
<1>2. d = n - turn * Rint(n, turn)
  BY DEF PhaseDifference
<1>3. Rint(n, turn) = IF 2 * r < turn \/ (2 * r = turn /\ q % 2 = 0) THEN q ELSE q + 1
  BY DEF Rint
<1> HIDE DEF n, q, r
<1>4. CASE Rint(n, turn) = q /\ 2 * r <= turn
  <2>1. d = r
    <3>1. turn * q \in Int
      BY <1>1, SMT
    <3> QED
      BY <1>1, <1>2, <1>4, <3>1
  <2>2. n = d + turn * q
    BY <1>1, <2>1
  <2> QED
    BY <1>1, <1>4, <2>1, <2>2 DEF n
<1>5. CASE Rint(n, turn) = q + 1 /\ turn <= 2 * r
  <2>1. turn * (q + 1) = turn * q + turn /\ turn * q \in Int
    BY <1>1, SMT
  <2>2. d = r - turn
    BY <1>1, <1>2, <1>5, <2>1
  <2>3. n = d + turn * (q + 1)
    BY <1>1, <2>1, <2>2
  <2> QED
    BY <1>1, <1>5, <2>2, <2>3 DEF n
<1>6. (Rint(n, turn) = q /\ 2 * r <= turn) \/ (Rint(n, turn) = q + 1 /\ turn <= 2 * r)
  BY <1>1, <1>3
<1> QED
  BY <1>4, <1>5, <1>6

-----------------------------------------------------------------------------
(* The libraries together.                                                 *)

(* Whoever uses the libraries, the manager's state changes as              *)
(* xensiv_radar_data_management.c changes it.                              *)
LEMMA LibrariesManage == LibrariesSpec => Spec
<1>1. LibrariesInit => Init
  BY DEF LibrariesInit
<1>2. [LibrariesNext]_libraryVars => [Next]_vars
  BY DEF LibrariesNext, libraryVars, managerVars
<1> QED
  BY <1>1, <1>2, PTL DEF LibrariesSpec, Spec

(* And the detection's as algo in preprocess.c changes it.                 *)
LEMMA LibrariesDetect == LibrariesSpec => HandSpec
<1>1. LibrariesInit => HandInit
  BY DEF LibrariesInit
<1>2. [LibrariesNext]_libraryVars => [HandNext]_handVars
  BY DEF LibrariesNext, libraryVars
<1> QED
  BY <1>1, <1>2, PTL DEF LibrariesSpec, HandSpec

(* And the algorithms' arrays as extractions.c changes them.               *)
LEMMA LibrariesExtract == LibrariesSpec => SlimSpec
<1>1. LibrariesInit => SlimInit
  BY DEF LibrariesInit
<1>2. [LibrariesNext]_libraryVars => [SlimNext]_slimVars
  BY DEF LibrariesNext, libraryVars
<1> QED
  BY <1>1, <1>2, PTL DEF LibrariesSpec, SlimSpec

-----------------------------------------------------------------------------
(* The data manager.                                                       *)

(* Each task is at most in one slot, in none while it is not subscribed,   *)
(* and nobody is subscribed while nothing is allocated.                    *)
SlotsInv ==
    /\ subscriptions \in [Slots -> [suscriber_task_handle : Tasks \cup {None},
                                    data_read : BOOLEAN]]
    /\ task \in [Tasks -> {"out", "waiting", "reading"}]
    /\ \A t \in Tasks : task[t] = "out" => SlotOf(t) = {}
    /\ \A t \in Tasks : task[t] # "out" => \E s \in Slots : SlotOf(t) = {s}
    /\ subscribers = Cardinality(Subscribed)
    /\ ~IsAllocated => subscribers = 0

LEMMA SlotsFinite ==
    /\ IsFiniteSet(Slots) /\ IsFiniteSet(Subscribed)
    /\ Cardinality(Slots) = ACTIVE_SUBSCRIPTION_UB
    /\ Cardinality(Subscribed) \in Nat /\ Cardinality(Subscribed) <= ACTIVE_SUBSCRIPTION_UB
<1>1. IsFiniteSet(Slots) /\ Cardinality(Slots) = ACTIVE_SUBSCRIPTION_UB
  BY FS_Interval, ManagerAssumption DEF Slots
<1>2. Subscribed \in SUBSET Slots
  BY DEF Subscribed
<1> QED
  BY <1>1, <1>2, FS_Subset, FS_CardinalityType

LEMMA NobodySubscribed ==
    ASSUME SlotsInv, subscribers = 0
    PROVE  Subscribed = {} /\ \A t \in Tasks : task[t] = "out"
<1>1. Subscribed = {}
  BY SlotsFinite, FS_EmptySet DEF SlotsInv
<1>2. ASSUME NEW t \in Tasks PROVE task[t] = "out"
  <2>1. SlotOf(t) \subseteq Subscribed
    BY ManagerAssumption DEF SlotOf, Subscribed, None
  <2> QED
    BY <1>1, <2>1 DEF SlotsInv
<1> QED
  BY <1>1, <1>2

(* A step that changes no handle and subscribes nobody.                    *)
LEMMA HandlesKept ==
    ASSUME SlotsInv,
           subscriptions' \in [Slots -> [suscriber_task_handle : Tasks \cup {None},
                                         data_read : BOOLEAN]],
           \A s \in Slots : subscriptions'[s].suscriber_task_handle
                                = subscriptions[s].suscriber_task_handle,
           task' \in [Tasks -> {"out", "waiting", "reading"}],
           \A t \in Tasks : task'[t] = "out" <=> task[t] = "out",
           subscribers' = subscribers,
           IsAllocated => IsAllocated'
    PROVE  SlotsInv'
<1>1. Subscribed' = Subscribed
  BY DEF Subscribed
<1>2. \A t : SlotOf(t)' = SlotOf(t)
  BY DEF SlotOf
<1> QED
  BY <1>1, <1>2 DEF SlotsInv

(* Memory that was allocated is not the absence of memory.                 *)
LEMMA Allocated ==
    ASSUME NEW b, DOMAIN b = 0 .. BufferSize - 1 PROVE b # NoBuffer
<1>1. 0 \in DOMAIN b
  BY ManagerAssumption
<1>2. DOMAIN NoBuffer = {}
  BY DEF NoBuffer
<1> QED
  BY <1>1, <1>2

LEMMA RunKeepsSlots == ASSUME SlotsInv, Run PROVE SlotsInv'
<1>1. task' = task /\ subscribers' = subscribers
  BY DEF Run
<1>2. BuffSize = BufferSize
  BY DEF Run, BuffSize
<1>3. IsAllocated'
  <2>1. DOMAIN buffer' = 0 .. BufferSize - 1
    BY <1>2 DEF Run, Adjust, MovedToFront, Filled
  <2> QED
    BY <2>1, Allocated DEF IsAllocated
<1>4. \/ subscriptions' = subscriptions
      \/ subscriptions' = [s \in Slots |-> [subscriptions[s] EXCEPT !.data_read = FALSE]]
  BY DEF Run, Adjust
<1>5. /\ subscriptions' \in [Slots -> [suscriber_task_handle : Tasks \cup {None},
                                       data_read : BOOLEAN]]
      /\ \A s \in Slots : subscriptions'[s].suscriber_task_handle
                              = subscriptions[s].suscriber_task_handle
  BY <1>4 DEF SlotsInv
<1>6. task' \in [Tasks -> {"out", "waiting", "reading"}]
  BY <1>1 DEF SlotsInv
<1> QED
  BY <1>1, <1>3, <1>5, <1>6, HandlesKept

LEMMA SubscribeKeepsSlots ==
    ASSUME SlotsInv, NEW t \in Tasks, Subscribe(t) PROVE SlotsInv'
<1>1. PICK s \in Slots \ Subscribed :
        subscriptions' = [subscriptions EXCEPT ![s] =
                             [suscriber_task_handle |-> t, data_read |-> FALSE]]
  BY DEF Subscribe
<1>2. task' = [task EXCEPT ![t] = "waiting"] /\ subscribers' = subscribers + 1
  BY DEF Subscribe
<1>3. subscriptions' \in [Slots -> [suscriber_task_handle : Tasks \cup {None},
                                    data_read : BOOLEAN]]
  BY <1>1 DEF SlotsInv
<1>4. Subscribed' = Subscribed \cup {s}
  BY <1>1, ManagerAssumption DEF SlotsInv, Subscribed, None
<1>5. subscribers' = Cardinality(Subscribed')
  BY <1>2, <1>4, SlotsFinite, FS_AddElement DEF SlotsInv
<1>6. SlotOf(t)' = {s}
  BY <1>1 DEF Subscribe, SlotsInv, SlotOf
<1>7. ASSUME NEW u \in Tasks, u # t PROVE SlotOf(u)' = SlotOf(u)
  <2>1. s \notin SlotOf(u)
    BY ManagerAssumption DEF SlotOf, Subscribed, None
  <2> QED
    BY <1>1, <1>7, <2>1 DEF SlotsInv, SlotOf
<1>8. IsAllocated'
  BY DEF Subscribe, IsAllocated, queueVars
<1>9. task' \in [Tasks -> {"out", "waiting", "reading"}]
  BY <1>2 DEF SlotsInv
<1>10. ASSUME NEW u \in Tasks
       PROVE  /\ task'[u] = "out" => SlotOf(u)' = {}
              /\ task'[u] # "out" => \E r \in Slots : SlotOf(u)' = {r}
  <2>1. CASE u = t
    BY <1>2, <1>6, <2>1 DEF SlotsInv
  <2>2. CASE u # t
    BY <1>2, <1>7, <2>2 DEF SlotsInv
  <2> QED
    BY <2>1, <2>2
<1> QED
  BY <1>3, <1>5, <1>8, <1>9, <1>10 DEF SlotsInv

LEMMA UnsubscribeKeepsSlots ==
    ASSUME SlotsInv, NEW t \in Tasks, Unsubscribe(t) PROVE SlotsInv'
<1>1. PICK s \in SlotOf(t) : subscriptions' = [subscriptions EXCEPT ![s] = FreeSlot]
  BY DEF Unsubscribe
<1>2. task' = [task EXCEPT ![t] = "out"] /\ subscribers' = subscribers - 1
  BY DEF Unsubscribe
<1>3. SlotOf(t) = {s} /\ s \in Slots
  BY <1>1 DEF Unsubscribe, SlotsInv, SlotOf
<1>4. subscriptions' \in [Slots -> [suscriber_task_handle : Tasks \cup {None},
                                    data_read : BOOLEAN]]
  BY <1>1, <1>3 DEF SlotsInv, FreeSlot
<1>5. s \in Subscribed /\ Subscribed' = Subscribed \ {s}
  BY <1>1, <1>3, ManagerAssumption DEF SlotsInv, Subscribed, SlotOf, FreeSlot, None
<1>6. subscribers' = Cardinality(Subscribed')
  BY <1>2, <1>5, SlotsFinite, FS_RemoveElement DEF SlotsInv
<1>7. SlotOf(t)' = {}
  BY <1>1, <1>3, ManagerAssumption DEF SlotsInv, SlotOf, FreeSlot, None
<1>8. ASSUME NEW u \in Tasks, u # t PROVE SlotOf(u)' = SlotOf(u)
  BY <1>1, <1>3, <1>8, ManagerAssumption DEF SlotsInv, SlotOf, FreeSlot, None
<1>9. ~IsAllocated => subscribers = 0
  BY DEF SlotsInv
<1>10. IsAllocated'
  BY <1>9 DEF Unsubscribe, IsAllocated, queueVars
<1>11. task' \in [Tasks -> {"out", "waiting", "reading"}]
  BY <1>2 DEF SlotsInv
<1>12. ASSUME NEW u \in Tasks
       PROVE  /\ task'[u] = "out" => SlotOf(u)' = {}
              /\ task'[u] # "out" => \E r \in Slots : SlotOf(u)' = {r}
  <2>1. CASE u = t
    BY <1>2, <1>7, <2>1 DEF SlotsInv
  <2>2. CASE u # t
    BY <1>2, <1>8, <2>2 DEF SlotsInv
  <2> QED
    BY <2>1, <2>2
<1> QED
  BY <1>4, <1>6, <1>10, <1>11, <1>12 DEF SlotsInv

LEMMA OwnerKeepsSlots ==
    ASSUME SlotsInv, Deinit \/ \E l \in FillLevels : InitManager(l) \/ SetFillLevel(l)
    PROVE  SlotsInv'
<1>1. CASE Deinit
  <2>1. \A t \in Tasks : task[t] = "out"
    BY <1>1, NobodySubscribed DEF Deinit
  <2>2. task' = task /\ subscribers' = 0 /\ subscriptions' = [s \in Slots |-> FreeSlot]
    BY <1>1 DEF Deinit, taskVars
  <2>3. subscriptions' \in [Slots -> [suscriber_task_handle : Tasks \cup {None},
                                      data_read : BOOLEAN]]
    BY <2>2 DEF FreeSlot
  <2>4. Subscribed' = {} /\ Cardinality({}) = 0
    BY <2>2, FS_EmptySet DEF Subscribed, FreeSlot
  <2>5. \A t \in Tasks : SlotOf(t)' = {}
    BY <2>2, ManagerAssumption DEF SlotOf, FreeSlot, None
  <2>6. task' \in [Tasks -> {"out", "waiting", "reading"}]
    BY <2>2 DEF SlotsInv
  <2> QED
    BY <2>1, <2>2, <2>3, <2>4, <2>5, <2>6 DEF SlotsInv
<1>2. ASSUME NEW l \in FillLevels, InitManager(l) PROVE SlotsInv'
  <2>1. subscribers = 0 /\ subscribers' = 0
    BY <1>2 DEF InitManager, SlotsInv
  <2>2. subscriptions' = subscriptions /\ task' = task
    BY <1>2 DEF InitManager, taskVars
  <2> QED
    BY <1>2, <2>1, <2>2, HandlesKept DEF SlotsInv, InitManager
<1>3. ASSUME NEW l \in FillLevels, SetFillLevel(l) PROVE SlotsInv'
  <2>1. UNCHANGED <<subscriptions, subscribers, task, buffer>>
    BY <1>3 DEF SetFillLevel, slotVars, taskVars
  <2> QED
    BY <2>1, HandlesKept DEF SlotsInv, IsAllocated
<1> QED
  BY <1>1, <1>2, <1>3

LEMMA ReaderKeepsSlots ==
    ASSUME SlotsInv, NEW t \in Tasks, Reader(t) PROVE SlotsInv'
<1>1. CASE ReadBuffer(t)
  <2>1. UNCHANGED <<subscriptions, subscribers, buffer>>
    BY <1>1 DEF ReadBuffer, slotVars, queueVars
  <2>2. /\ task[t] = "waiting"
        /\ task' = task \/ task' = [task EXCEPT ![t] = "reading"]
    BY <1>1 DEF ReadBuffer
  <2>3. /\ task' \in [Tasks -> {"out", "waiting", "reading"}]
        /\ \A u \in Tasks : task'[u] = "out" <=> task[u] = "out"
    BY <2>2 DEF SlotsInv
  <2> QED
    BY <2>1, <2>3, HandlesKept DEF SlotsInv, IsAllocated
<1>2. CASE AckDataRead(t)
  <2>1. PICK s \in SlotOf(t) :
            subscriptions' = [subscriptions EXCEPT ![s].data_read = TRUE]
    BY <1>2 DEF AckDataRead
  <2>2. /\ subscriptions' \in [Slots -> [suscriber_task_handle : Tasks \cup {None},
                                         data_read : BOOLEAN]]
        /\ \A r \in Slots : subscriptions'[r].suscriber_task_handle
                                = subscriptions[r].suscriber_task_handle
    <3>1. s \in Slots
      BY <2>1 DEF SlotOf
    <3> QED
      BY <2>1, <3>1 DEF SlotsInv
  <2>3. task[t] = "reading" /\ task' = [task EXCEPT ![t] = "waiting"]
    BY <1>2 DEF AckDataRead
  <2>4. /\ task' \in [Tasks -> {"out", "waiting", "reading"}]
        /\ \A u \in Tasks : task'[u] = "out" <=> task[u] = "out"
    BY <2>3 DEF SlotsInv
  <2>5. subscribers' = subscribers /\ buffer' = buffer
    BY <1>2 DEF AckDataRead, queueVars
  <2> QED
    BY <2>2, <2>4, <2>5, HandlesKept DEF IsAllocated
<1> QED
  BY <1>1, <1>2 DEF Reader

LEMMA SlotsInductive == Spec => []SlotsInv
<1>1. Init => SlotsInv
  <2> SUFFICES ASSUME Init PROVE SlotsInv
    OBVIOUS
  <2>1. Subscribed = {} /\ Cardinality({}) = 0
    BY FS_EmptySet DEF Init, Subscribed, FreeSlot
  <2>2. \A t \in Tasks : SlotOf(t) = {}
    BY ManagerAssumption DEF Init, SlotOf, FreeSlot, None
  <2>3. subscriptions \in [Slots -> [suscriber_task_handle : Tasks \cup {None},
                                     data_read : BOOLEAN]]
    BY DEF Init, FreeSlot
  <2> QED
    BY <2>1, <2>2, <2>3 DEF Init, SlotsInv
<1>2. SlotsInv /\ [Next]_vars => SlotsInv'
  <2> SUFFICES ASSUME SlotsInv, [Next]_vars PROVE SlotsInv'
    OBVIOUS
  <2>1. CASE UNCHANGED vars
    <3>1. UNCHANGED <<subscriptions, subscribers, task, buffer>>
      BY <2>1 DEF vars, slotVars, taskVars, queueVars
    <3> QED
      BY <3>1, HandlesKept DEF SlotsInv, IsAllocated
  <2>2. CASE Next
    BY <2>2, OwnerKeepsSlots, RunKeepsSlots, SubscribeKeepsSlots,
       UnsubscribeKeepsSlots, ReaderKeepsSlots DEF Next
  <2> QED
    BY <2>1, <2>2
<1> QED
  BY <1>1, <1>2, PTL DEF Spec

(* The counter that radar_data_manager_deinit and _subscribe trust is the  *)
(* number of slots in use, and no task has two, whatever the order of      *)
(* calls, short or failing reads and interrupts.                           *)
THEOREM SubscribersAreCounted ==
    (Spec => []CountedSubscribers) /\ (LibrariesSpec => []CountedSubscribers)
<1>1. SlotsInv => CountedSubscribers
  BY FS_EmptySet, FS_Singleton DEF SlotsInv, CountedSubscribers
<1> QED
  BY <1>1, SlotsInductive, LibrariesManage, PTL

-----------------------------------------------------------------------------
(* What tasks are handed.                                                  *)

(* One fill level, which the sensor never falls short of; a buffer that    *)
(* has room for a second one while the first is read; no interrupt within  *)
(* a read.                                                                 *)
Level == CHOOSE l \in FillLevels : TRUE
WholeLevels ==
    /\ FillLevels = {Level} /\ 2 * Level <= BufferSize
    /\ \A n \in Deliveries : n >= Level
    /\ Paced /\ ~SensorFails

(* How many bytes have left the queue, and those that are handed out next. *)
Handed == produced - tail
Chunk  == Handed + 1 .. Handed + Level

(* The queue holds the last bytes of the sensor in order.                  *)
QueueInv ==
    /\ produced \in Nat /\ tail \in Nat /\ tail <= produced
    /\ IsAllocated =>
        /\ head = 0 /\ fill_level = Level /\ tail <= BufferSize
        /\ \A i \in 0 .. tail - 1 : buffer[i] = Handed + i + 1

(* Who was notified or has acknowledged found a whole chunk, which is      *)
(* still in the queue; who has not acknowledged it has read up to it.      *)
ReaderInv ==
    /\ lastRead \in [Tasks -> Int] /\ notified \in [Tasks -> BOOLEAN]
    /\ DOMAIN got = Tasks
    /\ \A t \in Tasks : \A s \in SlotOf(t) :
        /\ notified[t] => tail >= Level
        /\ subscriptions[s].data_read => tail >= Level /\ lastRead[t] = Handed + Level
        /\ ~subscriptions[s].data_read => lastRead[t] \in {0, Handed}
    /\ \A t \in Tasks : task[t] = "reading" => tail >= Level /\ got[t] = Chunk

HandedInv == QueueInv /\ ReaderInv

LEMMA Ends ==
    ASSUME NEW a \in Int, NEW b \in Int, a <= b PROVE Min(a .. b) = a /\ Max(a .. b) = b
<1>1. a \in a .. b /\ b \in a .. b /\ \A x \in a .. b : a <= x /\ b >= x
  OBVIOUS
<1>2. \A x, y \in a .. b : x <= y /\ y <= x => x = y
  OBVIOUS
<1>3. Min(a .. b) \in a .. b /\ \A y \in a .. b : Min(a .. b) <= y
  BY <1>1, Zenon DEF Min
<1>4. Max(a .. b) \in a .. b /\ \A y \in a .. b : Max(a .. b) >= y
  BY <1>1, Zenon DEF Max
<1> QED
  BY <1>1, <1>3, <1>4

LEMMA Levels ==
    ASSUME WholeLevels
    PROVE  /\ Level \in Nat \ {0} /\ Level \in FillLevels
           /\ BufferSize \in Nat /\ BufferSize < UintModulus /\ 2 * Level <= BufferSize
<1>1. Level \in FillLevels /\ FillLevels \subseteq 1 .. BufferSize /\ BufferSize \in Nat
  BY ManagerAssumption DEF WholeLevels
<1> QED
  BY <1>1, ManagerAssumption DEF WholeLevels

(* A step that leaves queue and subscribers alone.                         *)
LEMMA NothingHanded ==
    ASSUME HandedInv, UNCHANGED <<queueVars, slotVars, produced, taskVars>>
    PROVE  HandedInv'
<1>1. /\ buffer' = buffer /\ head' = head /\ tail' = tail /\ fill_level' = fill_level
      /\ produced' = produced /\ subscriptions' = subscriptions /\ task' = task
      /\ notified' = notified /\ got' = got /\ lastRead' = lastRead
  BY DEF queueVars, slotVars, taskVars
<1>2. QueueInv'
  BY <1>1 DEF HandedInv, QueueInv, IsAllocated, Handed
<1>3. ReaderInv'
  BY <1>1 DEF HandedInv, ReaderInv, SlotOf, Handed, Chunk
<1> QED
  BY <1>2, <1>3 DEF HandedInv

LEMMA OwnerHands ==
    ASSUME WholeLevels, SlotsInv, HandedInv,
           Deinit \/ \E l \in FillLevels : InitManager(l) \/ SetFillLevel(l)
    PROVE  HandedInv'
<1>1. CASE Deinit
  <2>1. \A t \in Tasks : task[t] = "out"
    BY <1>1, NobodySubscribed DEF Deinit
  <2>2. /\ tail' = 0 /\ buffer' = NoBuffer /\ produced' = produced /\ task' = task
        /\ subscriptions' = [s \in Slots |-> FreeSlot]
        /\ notified' = notified /\ got' = got /\ lastRead' = lastRead
    BY <1>1 DEF Deinit, taskVars
  <2>3. \A t \in Tasks : SlotOf(t)' = {}
    BY <2>2, ManagerAssumption DEF SlotOf, FreeSlot, None
  <2>4. QueueInv'
    BY <2>2 DEF HandedInv, QueueInv, IsAllocated
  <2>5. ReaderInv'
    BY <2>1, <2>2, <2>3 DEF HandedInv, ReaderInv
  <2> QED
    BY <2>4, <2>5 DEF HandedInv
<1>2. ASSUME NEW l \in FillLevels, InitManager(l) PROVE HandedInv'
  <2>1. \A t \in Tasks : task[t] = "out" /\ SlotOf(t) = {}
    BY <1>2, NobodySubscribed DEF InitManager, SlotsInv
  <2>2. /\ tail' = 0 /\ head' = 0 /\ fill_level' = l /\ produced' = produced
        /\ task' = task /\ subscriptions' = subscriptions
        /\ notified' = notified /\ got' = got /\ lastRead' = lastRead
    BY <1>2 DEF InitManager, taskVars
  <2>3. l = Level /\ BufferSize \in Nat
    BY Levels DEF WholeLevels
  <2>4. QueueInv'
    BY <2>2, <2>3 DEF HandedInv, QueueInv
  <2>5. ReaderInv'
    BY <2>1, <2>2 DEF HandedInv, ReaderInv, SlotOf
  <2> QED
    BY <2>4, <2>5 DEF HandedInv
<1>3. ASSUME NEW l \in FillLevels, SetFillLevel(l) PROVE HandedInv'
  <2>1. l = Level /\ Level \in Nat \ {0}
    BY Levels DEF WholeLevels
  <2>2. IsAllocated
    BY <1>3, <2>1 DEF SetFillLevel, BuffSize
  <2>3. fill_level' = fill_level
    BY <1>3, <2>1, <2>2 DEF SetFillLevel, HandedInv, QueueInv
  <2>4. UNCHANGED <<queueVars, slotVars, produced, taskVars>>
    BY <1>3, <2>3 DEF SetFillLevel, queueVars
  <2> QED
    BY <2>4, NothingHanded
<1> QED
  BY <1>1, <1>2, <1>3

(* The interrupt reads a delivery in, and moves the queue on by a chunk    *)
(* that every subscriber has acknowledged.                                 *)
LEMMA RunHands ==
    ASSUME WholeLevels, SlotsInv, HandedInv, Run
    PROVE  HandedInv'
<1>1. /\ IsAllocated /\ \A t \in Tasks : task[t] # "reading"
      /\ fill_level' = fill_level /\ task' = task /\ got' = got /\ lastRead' = lastRead
      /\ head = 0 /\ fill_level = Level /\ tail <= BufferSize /\ BuffSize = BufferSize
      /\ produced \in Nat /\ tail \in Nat /\ tail <= produced
  BY DEF Run, WholeLevels, HandedInv, QueueInv, BuffSize
<1>2. PICK n \in ReadOutcomes :
        LET read       == Max({n, 0})
            newSamples == IF n < 0 THEN samples ELSE Minus(tail + n, head)
            full       == Fills(newSamples)
        IN  /\ samples' = newSamples
            /\ produced' = produced + read
            /\ notified' = [t \in Tasks |-> notified[t] \/ (full /\ SlotOf(t) # {})]
            /\ IF full /\ AllRead THEN Adjust(Filled(read), tail + read)
               ELSE /\ buffer' = Filled(read)
                    /\ tail' = tail + read
                    /\ UNCHANGED <<head, subscriptions>>
  BY DEF Run
<1> DEFINE read == Max({n, 0})
           end  == tail + read
<1>3. /\ read \in Nat /\ end <= BufferSize
      /\ read >= Level \/ (read = 0 /\ tail = BufferSize)
  <2>1. CASE n = -1 /\ tail = BufferSize
    <3>1. read = 0
      <4>1. 0 \in {n, 0} /\ \A y \in {n, 0} : 0 >= y
        BY <2>1
      <4>2. \A x \in {n, 0} : (\A y \in {n, 0} : x >= y) => x = 0
        BY <2>1
      <4> QED
        BY <4>1, <4>2, Zenon DEF Max
    <3> QED
      BY <2>1, <3>1, Levels
  <2>2. CASE n \in Deliveries /\ n <= BufferSize - tail
    <3>1. n \in Nat /\ n >= Level
      BY <2>2, ManagerAssumption DEF WholeLevels
    <3>2. read = n
      <4>1. n \in {n, 0} /\ \A y \in {n, 0} : n >= y
        BY <3>1
      <4>2. \A x \in {n, 0} : (\A y \in {n, 0} : x >= y) => x = n
        BY <3>1
      <4> QED
        BY <4>1, <4>2, Zenon DEF Max
    <3> QED
      BY <1>1, <2>2, <3>1, <3>2, Levels
  <2>3. CASE tail >= BuffSize
    BY <1>1, <2>1, <2>3, Levels DEF ReadOutcomes
  <2>4. CASE ~(tail >= BuffSize)
    <3>1. n \in {m \in Deliveries : m <= Room /\ produced + m <= MaxBytes}
      BY <2>4 DEF ReadOutcomes, WholeLevels
    <3> QED
      BY <1>1, <2>2, <3>1 DEF Room
  <2> QED
    BY <2>3, <2>4
<1> HIDE DEF read
<1>4. /\ end \in Nat /\ end >= tail /\ end >= Level /\ produced' = produced + read
      /\ notified' \in [Tasks -> BOOLEAN]
  <2>1. notified' \in [Tasks -> BOOLEAN]
    BY <1>2, Zenon
  <2> QED
    BY <1>1, <1>2, <1>3, <2>1, Levels DEF read
<1>5. \A i \in 0 .. end - 1 : Filled(read)[i] = Handed + i + 1
  <2> SUFFICES ASSUME NEW i \in 0 .. end - 1 PROVE Filled(read)[i] = Handed + i + 1
    OBVIOUS
  <2>1. i \in 0 .. BufferSize - 1
    BY <1>1, <1>3, <1>4, Levels
  <2>2. i < tail => buffer[i] = Handed + i + 1
    BY <1>1 DEF HandedInv, QueueInv
  <2>3. i >= tail => i \in tail .. tail + read - 1
    BY <1>1, <1>3
  <2> QED
    BY <1>1, <2>1, <2>2, <2>3 DEF Filled, Handed
<1>6. CASE AllRead /\ Adjust(Filled(read), end)
  <2>1. Minus(end, head + fill_level) = end - Level
    <3>1. end - Level \in 0 .. UintModulus - 1 /\ UintModulus \in Int
      BY <1>1, <1>3, <1>4, Levels, ManagerAssumption
    <3>2. \A m \in Nat \ {0} : \A x \in 0 .. m - 1 : x % m = x
      OBVIOUS
    <3>3. UintModulus \in Nat \ {0}
      BY <3>1
    <3> QED
      BY <1>1, <1>4, <3>1, <3>2, <3>3, Levels DEF Minus
  <2>2. /\ tail' = end - Level /\ head' = 0
        /\ buffer' = MovedToFront(Filled(read), Level, end - Level)
        /\ subscriptions' = [s \in Slots |-> [subscriptions[s] EXCEPT !.data_read = FALSE]]
    BY <1>1, <1>6, <2>1, Levels DEF Adjust
  <2>3. Handed' = Handed + Level
    BY <1>1, <1>3, <1>4, <2>2, Levels DEF Handed
  <2>4. \A i \in 0 .. tail' - 1 : buffer'[i] = Handed' + i + 1
    <3> SUFFICES ASSUME NEW i \in 0 .. tail' - 1 PROVE buffer'[i] = Handed' + i + 1
      OBVIOUS
    <3>1. /\ i \in 0 .. BufferSize - 1 /\ Level + i < BufferSize /\ i < end - Level
          /\ Level + i \in 0 .. end - 1
      BY <1>3, <1>4, <2>2, Levels
    <3>2. buffer'[i] = Filled(read)[Level + i]
      BY <1>1, <2>2, <3>1 DEF MovedToFront
    <3> QED
      BY <1>1, <1>5, <2>3, <3>1, <3>2, Levels DEF Handed
  <2>5. QueueInv'
    BY <1>1, <1>3, <1>4, <2>2, <2>4, Levels DEF QueueInv
  <2>6. ASSUME NEW t \in Tasks, NEW s \in SlotOf(t)'
        PROVE  tail' >= Level /\ ~subscriptions'[s].data_read /\ lastRead'[t] \in {0, Handed'}
    <3>1. s \in SlotOf(t) /\ s \in Subscribed
      BY <2>2, <2>6, ManagerAssumption DEF SlotOf, Subscribed, None, SlotsInv
    <3>2. subscriptions[s].data_read
      BY <1>6, <3>1 DEF AllRead
    <3>3. tail >= Level /\ lastRead[t] = Handed + Level
      BY <3>1, <3>2 DEF HandedInv, ReaderInv
    <3>4. tail' >= Level
      BY <1>1, <1>3, <1>4, <2>2, <3>3, Levels
    <3>5. s \in Slots /\ subscriptions[s] \in [suscriber_task_handle : Tasks \cup {None},
                                                data_read : BOOLEAN]
      BY <3>1 DEF SlotOf, SlotsInv
    <3> QED
      BY <1>1, <2>2, <2>3, <3>3, <3>4, <3>5
  <2>7. ReaderInv'
    BY <1>1, <1>4, <2>6 DEF HandedInv, ReaderInv
  <2> QED
    BY <2>5, <2>7 DEF HandedInv
<1>7. CASE /\ buffer' = Filled(read) /\ tail' = end
           /\ UNCHANGED <<head, subscriptions>>
  <2>1. Handed' = Handed
    BY <1>1, <1>3, <1>4, <1>7 DEF Handed
  <2>2. QueueInv'
    BY <1>1, <1>3, <1>4, <1>5, <1>7, <2>1 DEF QueueInv
  <2>3. \A t : SlotOf(t)' = SlotOf(t)
    BY <1>7 DEF SlotOf
  <2>4. tail' >= Level
    BY <1>4, <1>7
  <2>5. ReaderInv'
    BY <1>1, <1>4, <1>7, <2>1, <2>3, <2>4 DEF HandedInv, ReaderInv
  <2> QED
    BY <2>2, <2>5 DEF HandedInv
<1> QED
  BY <1>2, <1>6, <1>7 DEF read

LEMMA SubscriberHands ==
    ASSUME WholeLevels, SlotsInv, HandedInv, NEW t \in Tasks, Subscribe(t) \/ Unsubscribe(t)
    PROVE  HandedInv'
<1>1. /\ buffer' = buffer /\ head' = head /\ tail' = tail /\ fill_level' = fill_level
      /\ produced' = produced /\ got' = got
  BY DEF Subscribe, Unsubscribe, queueVars
<1>2. QueueInv'
  BY <1>1 DEF HandedInv, QueueInv, IsAllocated, Handed
<1>3. Handed' = Handed /\ Chunk' = Chunk
  BY <1>1 DEF Handed, Chunk
<1>4. CASE Subscribe(t)
  <2>1. PICK s \in Slots \ Subscribed :
          subscriptions' = [subscriptions EXCEPT ![s] =
                               [suscriber_task_handle |-> t, data_read |-> FALSE]]
    BY <1>4 DEF Subscribe
  <2>2. /\ task' = [task EXCEPT ![t] = "waiting"] /\ SlotOf(t) = {}
        /\ lastRead' = [lastRead EXCEPT ![t] = 0] /\ notified' = [notified EXCEPT ![t] = FALSE]
    BY <1>4 DEF Subscribe
  <2>3. /\ lastRead' \in [Tasks -> Int] /\ notified' \in [Tasks -> BOOLEAN] /\ DOMAIN got' = Tasks
    BY <1>1, <2>2 DEF HandedInv, ReaderInv
  <2>4. ASSUME NEW u \in Tasks, NEW r \in SlotOf(u)'
        PROVE  /\ notified'[u] => tail' >= Level
               /\ subscriptions'[r].data_read => tail' >= Level /\ lastRead'[u] = Handed' + Level
               /\ ~subscriptions'[r].data_read => lastRead'[u] \in {0, Handed'}
    <3>1. CASE u = t
      <4>1. r = s
        BY <2>1, <2>2, <2>4, <3>1 DEF SlotOf, SlotsInv
      <4>2. subscriptions'[s].data_read = FALSE
        BY <2>1 DEF SlotsInv
      <4> QED
        BY <2>2, <3>1, <4>1, <4>2 DEF HandedInv, ReaderInv
    <3>2. CASE u # t
      <4>1. r # s /\ r \in SlotOf(u) /\ subscriptions'[r] = subscriptions[r]
        BY <2>1, <2>4, <3>2 DEF SlotOf, SlotsInv
      <4>2. notified'[u] = notified[u] /\ lastRead'[u] = lastRead[u]
        BY <2>2, <3>2 DEF HandedInv, ReaderInv
      <4> QED
        BY <1>1, <1>3, <4>1, <4>2 DEF HandedInv, ReaderInv
    <3> QED
      BY <3>1, <3>2
  <2>5. \A u \in Tasks : task'[u] = "reading" => tail' >= Level /\ got'[u] = Chunk'
    BY <1>1, <1>3, <2>2 DEF HandedInv, ReaderInv, SlotsInv
  <2>6. ReaderInv'
    BY <2>3, <2>4, <2>5 DEF ReaderInv
  <2> QED
    BY <1>2, <2>6 DEF HandedInv
<1>5. CASE Unsubscribe(t)
  <2>1. PICK s \in SlotOf(t) : subscriptions' = [subscriptions EXCEPT ![s] = FreeSlot]
    BY <1>5 DEF Unsubscribe
  <2>2. /\ task' = [task EXCEPT ![t] = "out"] /\ notified' = notified /\ lastRead' = lastRead
    BY <1>5 DEF Unsubscribe
  <2>3. ASSUME NEW u \in Tasks, NEW r \in SlotOf(u)'
        PROVE  r \in SlotOf(u) /\ subscriptions'[r] = subscriptions[r]
    <3>1. r # s
      BY <2>1, <2>3, ManagerAssumption DEF SlotOf, SlotsInv, FreeSlot, None
    <3> QED
      BY <2>1, <2>3, <3>1 DEF SlotOf, SlotsInv
  <2>4. \A u \in Tasks : task'[u] = "reading" => tail' >= Level /\ got'[u] = Chunk'
    BY <1>1, <1>3, <2>2 DEF HandedInv, ReaderInv, SlotsInv
  <2>5. ReaderInv'
    BY <1>1, <1>3, <2>2, <2>3, <2>4 DEF HandedInv, ReaderInv
  <2> QED
    BY <1>2, <2>5 DEF HandedInv
<1> QED
  BY <1>4, <1>5

(* A notified task finds a whole chunk, and acknowledges that one.         *)
LEMMA ReaderHands ==
    ASSUME WholeLevels, SlotsInv, HandedInv, NEW t \in Tasks, Reader(t)
    PROVE  HandedInv'
<1>1. /\ buffer' = buffer /\ head' = head /\ tail' = tail /\ fill_level' = fill_level
      /\ produced' = produced
  BY DEF Reader, ReadBuffer, AckDataRead, queueVars
<1>2. QueueInv'
  BY <1>1 DEF HandedInv, QueueInv, IsAllocated, Handed
<1>3. Handed' = Handed /\ Chunk' = Chunk /\ Handed \in Nat /\ Level \in Nat \ {0}
  BY <1>1, Levels DEF Handed, Chunk, HandedInv, QueueInv
<1>4. CASE ReadBuffer(t)
  <2>1. /\ task[t] = "waiting" /\ notified[t] /\ notified' = [notified EXCEPT ![t] = FALSE]
        /\ lastRead' = lastRead /\ subscriptions' = subscriptions
    BY <1>4 DEF ReadBuffer, slotVars
  <2>2. PICK s \in Slots : SlotOf(t) = {s}
    BY <2>1 DEF SlotsInv
  <2>3. tail >= Level
    BY <2>1, <2>2 DEF HandedInv, ReaderInv
  <2>4. subscribers # 0
    BY <2>1, NobodySubscribed
  <2>5. {buffer[i] : i \in head .. head + fill_level - 1} = Chunk
    <3>1. /\ head = 0 /\ fill_level = Level
          /\ \A i \in 0 .. tail - 1 : buffer[i] = Handed + i + 1
      BY <2>4 DEF HandedInv, QueueInv, SlotsInv
    <3>2. 0 .. Level - 1 \subseteq 0 .. tail - 1
      BY <2>3, <1>3 DEF HandedInv, QueueInv
    <3>3. ASSUME NEW x \in Chunk PROVE x \in {buffer[i] : i \in 0 .. Level - 1}
      <4>1. x - Handed - 1 \in 0 .. Level - 1
        BY <1>3, <3>3 DEF Chunk
      <4>2. buffer[x - Handed - 1] = x
        BY <1>3, <3>1, <3>2, <4>1 DEF Chunk
      <4> QED
        BY <4>1, <4>2
    <3>4. ASSUME NEW i \in 0 .. Level - 1 PROVE buffer[i] \in Chunk
      BY <1>3, <3>1, <3>2 DEF Chunk
    <3>5. head + fill_level - 1 = Level - 1
      BY <1>3, <3>1
    <3> QED
      BY <3>1, <3>3, <3>4, <3>5
  <2>6. \/ task' = task /\ got' = got
        \/ task' = [task EXCEPT ![t] = "reading"] /\ got' = [got EXCEPT ![t] = Chunk]
    BY <1>4, <2>5 DEF ReadBuffer, SlotsInv
  <2>7. \A u \in Tasks : task'[u] = "reading" => tail' >= Level /\ got'[u] = Chunk'
    <3>1. CASE task' = task /\ got' = got
      BY <1>1, <1>3, <3>1 DEF HandedInv, ReaderInv
    <3>2. CASE got' = [got EXCEPT ![t] = Chunk] /\ task' = [task EXCEPT ![t] = "reading"]
      BY <1>1, <1>3, <2>3, <3>2 DEF HandedInv, ReaderInv, SlotsInv
    <3> QED
      BY <2>1, <2>6, <3>1, <3>2
  <2>8. \A u : SlotOf(u)' = SlotOf(u)
    BY <2>1 DEF SlotOf
  <2>9. /\ notified' \in [Tasks -> BOOLEAN] /\ DOMAIN got' = Tasks
        /\ \A u \in Tasks : notified'[u] => notified[u]
    BY <2>1, <2>6 DEF HandedInv, ReaderInv
  <2>10. ReaderInv'
    BY <1>1, <1>3, <2>1, <2>7, <2>8, <2>9 DEF HandedInv, ReaderInv
  <2> QED
    BY <1>2, <2>10 DEF HandedInv
<1>5. CASE AckDataRead(t)
  <2>1. PICK s \in SlotOf(t) : subscriptions' = [subscriptions EXCEPT ![s].data_read = TRUE]
    BY <1>5 DEF AckDataRead
  <2>2. /\ task[t] = "reading" /\ task' = [task EXCEPT ![t] = "waiting"]
        /\ lastRead' = [lastRead EXCEPT ![t] = Max(got[t])]
        /\ notified' = notified /\ got' = got
    BY <1>5 DEF AckDataRead
  <2>3. tail >= Level /\ Max(got[t]) = Handed + Level /\ Handed + Level \in Int
    <3>1. Handed + 1 \in Int /\ Handed + Level \in Int /\ Handed + 1 <= Handed + Level
      BY <1>3
    <3>2. Max(Handed + 1 .. Handed + Level) = Handed + Level
      BY <3>1, Ends
    <3> QED
      BY <2>2, <3>1, <3>2 DEF HandedInv, ReaderInv, Chunk
  <2>4. /\ \A u : SlotOf(u)' = SlotOf(u)
        /\ s \in Slots /\ subscriptions'[s].data_read = TRUE
        /\ \A r \in Slots : r # s => subscriptions'[r] = subscriptions[r]
    <3>1. s \in Slots
      BY <2>1 DEF SlotOf
    <3> QED
      BY <2>1, <3>1 DEF SlotOf, SlotsInv
  <2>5. ASSUME NEW u \in Tasks, NEW r \in SlotOf(u)'
        PROVE  /\ notified'[u] => tail' >= Level
               /\ subscriptions'[r].data_read => tail' >= Level /\ lastRead'[u] = Handed' + Level
               /\ ~subscriptions'[r].data_read => lastRead'[u] \in {0, Handed'}
    <3>1. r \in SlotOf(u)
      BY <2>4, <2>5
    <3>2. CASE u = t
      <4>1. r = s
        BY <2>1, <2>2, <3>1, <3>2 DEF SlotsInv
      <4>2. lastRead'[t] = Handed + Level
        BY <2>2, <2>3 DEF HandedInv, ReaderInv
      <4> QED
        BY <1>1, <1>3, <2>3, <2>4, <3>2, <4>1, <4>2
    <3>3. CASE u # t
      <4>1. r # s /\ r \in Slots
        BY <2>1, <3>1, <3>3 DEF SlotOf
      <4>2. lastRead'[u] = lastRead[u]
        BY <2>2, <3>3 DEF HandedInv, ReaderInv
      <4> QED
        BY <1>1, <1>3, <2>2, <2>4, <3>1, <4>1, <4>2 DEF HandedInv, ReaderInv
    <3> QED
      BY <3>2, <3>3
  <2>6. \A u \in Tasks : task'[u] = "reading" => tail' >= Level /\ got'[u] = Chunk'
    BY <1>1, <1>3, <2>2 DEF HandedInv, ReaderInv, SlotsInv
  <2>7. lastRead' \in [Tasks -> Int]
    BY <2>2, <2>3 DEF HandedInv, ReaderInv
  <2>8. ReaderInv'
    BY <2>2, <2>5, <2>6, <2>7 DEF HandedInv, ReaderInv
  <2> QED
    BY <1>2, <2>8 DEF HandedInv
<1> QED
  BY <1>4, <1>5 DEF Reader

LEMMA HandedInductive ==
    ASSUME WholeLevels PROVE Spec => []HandedInv
<1>1. Init => HandedInv
  <2> SUFFICES ASSUME Init PROVE HandedInv
    OBVIOUS
  <2>1. QueueInv
    BY DEF Init, QueueInv, IsAllocated
  <2>2. \A t \in Tasks : SlotOf(t) = {}
    BY ManagerAssumption DEF Init, SlotOf, FreeSlot, None
  <2>3. ReaderInv
    BY <2>2 DEF Init, ReaderInv
  <2> QED
    BY <2>1, <2>3 DEF HandedInv
<1>2. SlotsInv /\ HandedInv /\ [Next]_vars => HandedInv'
  <2> SUFFICES ASSUME SlotsInv, HandedInv, [Next]_vars PROVE HandedInv'
    OBVIOUS
  <2>1. CASE UNCHANGED vars
    BY <2>1, NothingHanded DEF vars
  <2>2. CASE Next
    BY <2>2, OwnerHands, RunHands, SubscriberHands, ReaderHands DEF Next
  <2> QED
    BY <2>1, <2>2
<1> QED
  BY <1>1, <1>2, SlotsInductive, PTL DEF Spec

(* With room for a second chunk, and no interrupt within a read, no task   *)
(* that stays subscribed is handed a gap, however late it wakes and        *)
(* whoever else comes and goes.                                            *)
THEOREM ChunksInOrder ==
    ASSUME WholeLevels
    PROVE  (Spec => []NothingSkipped) /\ (LibrariesSpec => []NothingSkipped)
<1>1. SlotsInv /\ HandedInv => NothingSkipped
  <2> SUFFICES ASSUME SlotsInv, HandedInv, NEW t \in Tasks, task[t] = "reading", lastRead[t] # 0
               PROVE  Min(got[t]) = lastRead[t] + 1 \/ Max(got[t]) = lastRead[t]
    BY DEF NothingSkipped
  <2>1. PICK s \in Slots : SlotOf(t) = {s}
    BY DEF SlotsInv
  <2>2. Handed \in Nat /\ Level \in Nat \ {0}
    BY Levels DEF Handed, HandedInv, QueueInv
  <2>3. Min(got[t]) = Handed + 1 /\ Max(got[t]) = Handed + Level
    BY <2>2, Ends DEF HandedInv, ReaderInv, Chunk
  <2> QED
    BY <2>1, <2>3 DEF HandedInv, ReaderInv
<1> QED
  BY <1>1, SlotsInductive, HandedInductive, LibrariesManage, PTL

(* And what a task is handed are consecutive bytes of the sensor, none of  *)
(* them one that was never read in.                                        *)
THEOREM ChunksAreStretches ==
    ASSUME WholeLevels
    PROVE  (Spec => []OneStretch) /\ (LibrariesSpec => []OneStretch)
<1>1. HandedInv => OneStretch
  <2> SUFFICES ASSUME HandedInv, NEW t \in Tasks, task[t] = "reading"
               PROVE  0 \notin got[t] /\ Cardinality(got[t]) = Max(got[t]) - Min(got[t]) + 1
    BY DEF OneStretch
  <2>1. Handed \in Nat /\ Level \in Nat \ {0}
    BY Levels DEF Handed, HandedInv, QueueInv
  <2>2. got[t] = Handed + 1 .. Handed + Level
    BY DEF HandedInv, ReaderInv, Chunk
  <2>3. Min(got[t]) = Handed + 1 /\ Max(got[t]) = Handed + Level
    BY <2>1, <2>2, Ends
  <2>4. Cardinality(got[t]) = Level
    <3>1. Handed + 1 \in Int /\ Handed + Level \in Int
      BY <2>1
    <3>2. Cardinality(Handed + 1 .. Handed + Level) = Handed + Level - (Handed + 1) + 1
      BY <2>1, <3>1, FS_Interval
    <3> QED
      BY <2>1, <2>2, <3>2
  <2> QED
    BY <2>1, <2>2, <2>3, <2>4
<1> QED
  BY <1>1, HandedInductive, LibrariesManage, PTL

-----------------------------------------------------------------------------
(* What HandDetection_proofs shows of algo holds where the libraries are   *)
(* together: its regions stay in the image, its clusters are runs, and it  *)
(* reports the hand of the region.                                         *)
THEOREM HandsInLibraries ==
    LibrariesSpec => [](RegionsInImage /\ ClustersAreRuns /\ HandOfTheRegion)
BY LibrariesDetect, RegionsStayInImage, ClustersAlwaysRuns, ReportedIsHandOfRegion, PTL

-----------------------------------------------------------------------------
(* Short sums.                                                             *)

(* One term of a sum, and the others.                                      *)
LEMMA SumSplit ==
    ASSUME NEW S, IsFiniteSet(S), NEW F \in [S -> Int], NEW x \in S
    PROVE  /\ SumOf([y \in S \ {x} |-> F[y]]) \in Int
           /\ SumOf(F) = F[x] + SumOf([y \in S \ {x} |-> F[y]])
<1> DEFINE R == [y \in S \ {x} |-> F[y]]
<1>1. R \in [S \ {x} -> Int] /\ \A y \in S \ {x} : R[y] = F[y]
  OBVIOUS
<1>2. IsFiniteSet(S \ {x})
  BY FS_Subset
<1> HIDE DEF R
<1>3. PICK g : IsSum(g, F, S) /\ SumOf(F) = g[S]
  BY SumIs
<1>4. PICK h : IsSum(h, R, S \ {x}) /\ SumOf(R) = h[S \ {x}] /\ SumOf(R) \in Int
  BY <1>1, <1>2, SumIs
<1>5. h[S \ {x}] = g[S \ {x}]
  BY <1>1, <1>2, <1>3, <1>4, SumUnique
<1>6. g[S] = F[x] + g[S \ {x}]
  BY <1>3, SumAnyOrder
<1> QED
  BY <1>3, <1>4, <1>5, <1>6 DEF R

LEMMA SumOfNone ==
    ASSUME NEW F, DOMAIN F = {}
    PROVE  SumOf(F) = 0
<1>1. F \in [{} -> Int]
  OBVIOUS
<1>2. IsFiniteSet({})
  BY FS_EmptySet
<1>3. PICK g : IsSum(g, F, {}) /\ SumOf(F) = g[{}]
  BY <1>1, <1>2, SumIs
<1> QED
  BY <1>3, SumStep

(* A sum over some of the first nine numbers, term by term.                *)
LEMMA SumOfNine ==
    ASSUME NEW D \in SUBSET (0 .. 8), NEW F \in [D -> Int],
           NEW T, T = [k \in 0 .. 8 |-> IF k \in D THEN F[k] ELSE 0]
    PROVE  /\ T \in [0 .. 8 -> Int]
           /\ SumOf(F) = T[0] + T[1] + T[2] + T[3] + T[4] + T[5] + T[6] + T[7] + T[8]
<1> DEFINE From(k) == {j \in D : j >= k}
           Part(k) == [j \in From(k) |-> F[j]]
           h == [k \in 0 .. 9 |-> SumOf(Part(k))]
<1>1. \A k \in 0 .. 9 : IsFiniteSet(From(k)) /\ Part(k) \in [From(k) -> Int] /\ From(k) \subseteq D
  <2>1. 0 \in Int /\ 8 \in Int
    OBVIOUS
  <2>2. IsFiniteSet(0 .. 8)
    BY <2>1, FS_Interval, Zenon
  <2>3. \A k \in 0 .. 9 : From(k) \subseteq 0 .. 8
    OBVIOUS
  <2>4. \A k \in 0 .. 9 : Part(k) \in [From(k) -> Int]
    OBVIOUS
  <2> HIDE DEF Part
  <2> QED
    BY <2>2, <2>3, <2>4, FS_Subset
<1>2. T \in [0 .. 8 -> Int]
  OBVIOUS
<1>3. \A j \in D : j \in Int /\ 0 <= j /\ j <= 8
  OBVIOUS
<1>4. From(0) = D /\ From(9) = {}
  <2>1. \A j : j \in From(9) => FALSE
    BY <1>3
  <2>2. \A j : j \in From(0) <=> j \in D
    BY <1>3
  <2> QED
    BY <2>1, <2>2, Zenon
<1>5. ASSUME NEW k \in 0 .. 8 PROVE SumOf(Part(k)) = T[k] + SumOf(Part(k + 1))
  <2>1. CASE k \in D
    <3>1. From(k) \ {k} = From(k + 1) /\ k \in From(k)
      <4>1. ASSUME NEW j \in D PROVE j >= k /\ j # k <=> j >= k + 1
        <5>1. j \in Int
          BY <1>3
        <5> QED
          BY <5>1
      <4>2. \A j : j \in From(k) \ {k} <=> j \in From(k + 1)
        BY <4>1, Zenon
      <4>3. k \in From(k)
        BY <2>1
      <4> HIDE DEF From
      <4> QED
        BY <4>2, <4>3
    <3>2. \A j \in From(k + 1) : Part(k)[j] = F[j]
      BY <3>1
    <3>3. [j \in From(k) \ {k} |-> Part(k)[j]] = Part(k + 1)
      <4> HIDE DEF From
      <4> QED
        BY <3>1, <3>2
    <3>4. Part(k)[k] = T[k]
      BY <2>1, <3>1
    <3>5. IsFiniteSet(From(k)) /\ Part(k) \in [From(k) -> Int]
      <4>1. k \in 0 .. 9
        OBVIOUS
      <4> HIDE DEF From, Part
      <4> QED
        BY <1>1, <4>1
    <3> HIDE DEF From, Part
    <3> QED
      BY <3>1, <3>3, <3>4, <3>5, SumSplit
  <2>2. CASE k \notin D
    <3>1. From(k) = From(k + 1)
      <4>1. \A j : j \in From(k) <=> j \in From(k + 1)
        <5>1. ASSUME NEW j \in D PROVE j >= k <=> j >= k + 1
          <6>1. j \in Int /\ j # k
            BY <1>3, <2>2
          <6> QED
            BY <6>1
        <5> QED
          BY <5>1, Zenon
      <4> HIDE DEF From
      <4> QED
        BY <4>1
    <3>2. Part(k) = Part(k + 1) /\ T[k] = 0
      BY <2>2, <3>1
    <3>3. SumOf(Part(k + 1)) \in Int
      <4>0. k + 1 \in 0 .. 9
        OBVIOUS
      <4> HIDE DEF From, Part
      <4>1. IsFiniteSet(From(k + 1)) /\ Part(k + 1) \in [From(k + 1) -> Int]
        BY <1>1, <4>0
      <4> QED
        BY <4>1, SumIs
    <3> HIDE DEF From, Part
    <3> QED
      BY <3>2, <3>3
  <2> QED
    BY <2>1, <2>2
<1>6. h \in [0 .. 9 -> Int]
  <2> SUFFICES ASSUME NEW k \in 0 .. 9 PROVE SumOf(Part(k)) \in Int
    OBVIOUS
  <2>1. IsFiniteSet(From(k)) /\ Part(k) \in [From(k) -> Int]
    BY <1>1
  <2> HIDE DEF From, Part
  <2> QED
    BY <2>1, SumIs
<1>7. h[9] = 0
  <2>1. DOMAIN Part(9) = {}
    BY <1>4
  <2> HIDE DEF Part
  <2> QED
    BY <2>1, SumOfNone
<1>8. h[0] = SumOf(F)
  <2>1. Part(0) = F
    BY <1>4
  <2>2. h[0] = SumOf(Part(0))
    OBVIOUS
  <2> HIDE DEF h, Part
  <2> QED
    BY <2>1, <2>2
<1>9. ASSUME NEW k \in 0 .. 8 PROVE h[k] = T[k] + h[k + 1]
  <2>1. k \in 0 .. 9 /\ k + 1 \in 0 .. 9
    OBVIOUS
  <2> HIDE DEF From, Part
  <2>2. h[k] = SumOf(Part(k)) /\ h[k + 1] = SumOf(Part(k + 1))
    BY <2>1
  <2> HIDE DEF h
  <2> QED
    BY <1>5, <2>2
<1> HIDE DEF h
<1>10. T[0] \in Int /\ T[1] \in Int /\ T[2] \in Int /\ T[3] \in Int /\ T[4] \in Int
       /\ T[5] \in Int /\ T[6] \in Int /\ T[7] \in Int /\ T[8] \in Int
  BY <1>2
<1>11. /\ h[0] = T[0] + h[1] /\ h[1] = T[1] + h[2] /\ h[2] = T[2] + h[3]
       /\ h[3] = T[3] + h[4] /\ h[4] = T[4] + h[5] /\ h[5] = T[5] + h[6]
       /\ h[6] = T[6] + h[7] /\ h[7] = T[7] + h[8] /\ h[8] = T[8] + 0
  BY <1>7, <1>9
<1>12. h[0] = T[0] + T[1] + T[2] + T[3] + T[4] + T[5] + T[6] + T[7] + T[8]
  <2>1. h[0] \in Int /\ h[1] \in Int /\ h[2] \in Int /\ h[3] \in Int /\ h[4] \in Int
        /\ h[5] \in Int /\ h[6] \in Int /\ h[7] \in Int /\ h[8] \in Int
    BY <1>6
  <2>2. h[5] = T[5] + (T[6] + (T[7] + T[8]))
    BY <1>10, <1>11, <2>1
  <2>3. h[0] = T[0] + (T[1] + (T[2] + (T[3] + (T[4] + h[5]))))
    BY <1>10, <1>11, <2>1
  <2> QED
    BY <1>10, <2>1, <2>2, <2>3
<1> QED
  BY <1>2, <1>8, <1>12

LEMMA SumOfThree ==
    ASSUME NEW F \in [0 .. 2 -> Int]
    PROVE  SumOf(F) = F[0] + F[1] + F[2]
<1> DEFINE T == [k \in 0 .. 8 |-> IF k \in 0 .. 2 THEN F[k] ELSE 0]
<1>1. SumOf(F) = T[0] + T[1] + T[2] + T[3] + T[4] + T[5] + T[6] + T[7] + T[8]
  <2>1. 0 .. 2 \in SUBSET (0 .. 8)
    OBVIOUS
  <2> HIDE DEF T
  <2> QED
    BY <2>1, SumOfNine DEF T
<1>2. /\ T[0] = F[0] /\ T[1] = F[1] /\ T[2] = F[2] /\ T[3] = 0 /\ T[4] = 0
      /\ T[5] = 0 /\ T[6] = 0 /\ T[7] = 0 /\ T[8] = 0
      /\ F[0] \in Int /\ F[1] \in Int /\ F[2] \in Int
  OBVIOUS
<1> HIDE DEF T
<1> QED
  BY <1>1, <1>2

(* A sum of one number, as often as there are places.                      *)
LEMMA SumOfSame ==
    ASSUME NEW S, IsFiniteSet(S), NEW c \in Int, NEW F \in [S -> Int], \A x \in S : F[x] = c
    PROVE  SumOf(F) = c * Cardinality(S)
<1>1. PICK g : IsSum(g, F, S) /\ SumOf(F) = g[S]
  BY SumIs
<1> DEFINE Right(t) == g[t] = c * Cardinality(t)
           Bad == {Cardinality(t) : t \in {u \in SUBSET S : ~Right(u)}}
<1>2. \A t \in SUBSET S : IsFiniteSet(t) /\ Cardinality(t) \in Nat
  BY FS_Subset, FS_CardinalityType
<1>3. SUFFICES ASSUME Bad # {} PROVE FALSE
  BY <1>1
<1>4. PICK n \in Bad : \A m \in Bad : n <= m
  <2>1. Bad \in SUBSET Nat
    BY <1>2
  <2> HIDE DEF Bad
  <2> QED
    BY <1>3, <2>1, LeastNatural
<1>5. PICK t \in SUBSET S : ~Right(t) /\ Cardinality(t) = n
  BY <1>4
<1>6. t # {}
  <2>1. g[{}] = 0 /\ Cardinality({}) = 0
    BY <1>1, SumStep, FS_EmptySet
  <2>2. c * 0 = 0
    OBVIOUS
  <2> QED
    BY <1>5, <2>1, <2>2
<1>7. PICK x \in t : TRUE
  BY <1>6
<1>8. t \ {x} \in SUBSET S /\ Cardinality(t \ {x}) = n - 1 /\ n \in Nat
  BY <1>2, <1>5, FS_RemoveElement
<1>9. g[t \ {x}] = c * (n - 1)
  <2>1. n - 1 \notin Bad
    BY <1>4, <1>8
  <2> QED
    BY <1>8, <2>1
<1>10. g[t] = F[x] + g[t \ {x}]
  BY <1>1, SumAnyOrder
<1>11. g[t] = c + c * (n - 1)
  BY <1>5, <1>9, <1>10
<1>12. c + c * (n - 1) = c * n
  BY <1>8
<1> QED
  BY <1>5, <1>11, <1>12

(* A sum over other places, all with the same sign or with the opposite    *)
(* one.                                                                    *)
LEMMA SumMoved ==
    ASSUME NEW A, IsFiniteSet(A), NEW B, IsFiniteSet(B),
           NEW F \in [B -> Int], NEW G \in [A -> Int], NEW e \in {1, -1},
           NEW way \in [A -> B], \A x, y \in A : way[x] = way[y] => x = y,
           \A y \in B : \E x \in A : way[x] = y,
           \A x \in A : G[x] = e * F[way[x]]
    PROVE  SumOf(G) = e * SumOf(F)
<1>1. PICK g : IsSum(g, F, B) /\ SumOf(F) = g[B]
  BY SumIs
<1>2. PICK h : IsSum(h, G, A) /\ SumOf(G) = h[A]
  BY SumIs
<1> DEFINE Image(t) == {way[x] : x \in t}
           Right(t) == h[t] = e * g[Image(t)]
           Bad == {Cardinality(t) : t \in {u \in SUBSET A : ~Right(u)}}
<1>3. \A t \in SUBSET A : IsFiniteSet(t) /\ Cardinality(t) \in Nat /\ Image(t) \in SUBSET B
  BY FS_Subset, FS_CardinalityType
<1>4. Image(A) = B
  OBVIOUS
<1>5. SUFFICES ASSUME Bad # {} PROVE FALSE
  <2>1. A \in SUBSET A /\ (Right(A) => SumOf(G) = e * SumOf(F))
    BY <1>1, <1>2, <1>4, Zenon
  <2> HIDE DEF Right
  <2> QED
    BY <2>1
<1>6. PICK n \in Bad : \A m \in Bad : n <= m
  <2>1. Bad \in SUBSET Nat
    <3> HIDE DEF Right
    <3> QED
      BY <1>3
  <2> HIDE DEF Bad
  <2> QED
    BY <1>5, <2>1, LeastNatural
<1>7. PICK t \in SUBSET A : ~Right(t) /\ Cardinality(t) = n
  BY <1>6
<1>8. t # {}
  <2>1. g[{}] = 0 /\ h[{}] = 0
    BY <1>1, <1>2, SumStep
  <2>2. Image({}) = {} /\ e * 0 = 0
    OBVIOUS
  <2> QED
    BY <1>7, <2>1, <2>2
<1>9. PICK x \in t : TRUE
  BY <1>8
<1> DEFINE r == t \ {x}
<1>10. r \in SUBSET A /\ Cardinality(r) = n - 1 /\ n \in Nat
  BY <1>3, <1>7, FS_RemoveElement
<1>11. h[r] = e * g[Image(r)]
  <2>1. n - 1 \notin Bad
    <3> HIDE DEF Bad
    <3> QED
      BY <1>6, <1>10
  <2>2. Right(r)
    <3> HIDE DEF Right, r
    <3> QED
      BY <1>10, <2>1
  <2> QED
    BY <2>2
<1>12. Image(r) = Image(t) \ {way[x]} /\ way[x] \in Image(t)
  <2>1. \A y \in t : way[y] = way[x] => y = x
    BY <1>7
  <2> QED
    BY <2>1
<1>13. h[t] = G[x] + h[r]
  BY <1>2, SumAnyOrder
<1>14. g[Image(t)] = F[way[x]] + g[Image(r)]
  <2>1. Image(t) \in SUBSET B
    BY <1>3
  <2> HIDE DEF Image, r
  <2> QED
    BY <1>1, <1>12, <2>1, SumAnyOrder
<1>15. G[x] = e * F[way[x]] /\ F[way[x]] \in Int /\ g[Image(r)] \in Int
  <2>1. x \in A /\ Image(r) \in SUBSET B
    BY <1>3, <1>10
  <2> HIDE DEF Image
  <2>2. g[Image(r)] \in Int
    BY <1>1, <2>1, PartialSums
  <2> QED
    BY <2>1, <2>2
<1>16. \A k, l \in Int : e * k + e * l = e * (k + l)
  OBVIOUS
<1> HIDE DEF Image, r
<1>17. h[t] = e * g[Image(t)]
  BY <1>11, <1>13, <1>14, <1>15, <1>16
<1> QED
  BY <1>7, <1>17

LEMMA CancelledSum ==
    ASSUME NEW A, IsFiniteSet(A), NEW G \in [A -> Int], NEW way \in [A -> A],
           \A x, y \in A : way[x] = way[y] => x = y, \A y \in A : \E x \in A : way[x] = y,
           \A x \in A : G[x] = (-1) * G[way[x]]
    PROVE  SumOf(G) = (-1) * SumOf(G)
<1>1. -1 \in {1, -1}
  OBVIOUS
<1> QED
  BY <1>1, SumMoved

-----------------------------------------------------------------------------
(* Quarters of a turn.                                                     *)

LEMMA FourQuarters ==
    ASSUME NEW k \in Int
    PROVE  /\ k % 4 = 0 => Quarter(k) = <<1, 0>>
           /\ k % 4 = 1 => Quarter(k) = <<0, 1>>
           /\ k % 4 = 2 => Quarter(k) = <<-1, 0>>
           /\ k % 4 = 3 => Quarter(k) = <<0, -1>>
           /\ k % 4 \in {0, 1, 2, 3}
<1>1. k % 4 \in {0, 1, 2, 3}
  OBVIOUS
<1> QED
  BY <1>1 DEF Quarter

(* Equal up to whole turns.                                                *)
LEMMA WholeTurns ==
    ASSUME NEW k \in Int, NEW l \in Int, k % 4 = l % 4
    PROVE  Quarter(k) = Quarter(l)
BY Zenon DEF Quarter

LEMMA TurnedNumber ==
    ASSUME NEW a \in Int, NEW k \in Int
    PROVE  /\ k % 4 = 0 => Scale(a, Quarter(k)) = <<a, 0>>
           /\ k % 4 = 1 => Scale(a, Quarter(k)) = <<0, a>>
           /\ k % 4 = 2 => Scale(a, Quarter(k)) = <<-a, 0>>
           /\ k % 4 = 3 => Scale(a, Quarter(k)) = <<0, -a>>
           /\ k % 4 \in {0, 1, 2, 3}
           /\ Scale(a, Quarter(k)) \in Int \X Int
<1>1. /\ Scale(a, <<1, 0>>) = <<a, 0>> /\ Scale(a, <<0, 1>>) = <<0, a>>
      /\ Scale(a, <<-1, 0>>) = <<-a, 0>> /\ Scale(a, <<0, -1>>) = <<0, -a>>
  BY DEF Scale
<1> QED
  BY <1>1, FourQuarters

(* Turning a number further.                                               *)
LEMMA TurnedFurther ==
    ASSUME NEW a \in Int, NEW x \in Int, NEW y \in Int
    PROVE  Times(Scale(a, Quarter(x)), Quarter(y)) = Scale(a, Quarter(x + y))
<1>1. (x + y) % 4 = ((x % 4) + (y % 4)) % 4
  OBVIOUS
<1> DEFINE u == Scale(a, Quarter(x))
           w == Quarter(y)
<1>2. u \in {<<a, 0>>, <<0, a>>, <<-a, 0>>, <<0, -a>>}
  BY TurnedNumber
<1> DEFINE Far(m) == \/ m = 0 /\ Scale(a, Quarter(x + y)) = <<a, 0>>
                     \/ m = 1 /\ Scale(a, Quarter(x + y)) = <<0, a>>
                     \/ m = 2 /\ Scale(a, Quarter(x + y)) = <<-a, 0>>
                     \/ m = 3 /\ Scale(a, Quarter(x + y)) = <<0, -a>>
<1>3. Far((x + y) % 4)
  <2>1. x + y \in Int
    OBVIOUS
  <2> QED
    BY <2>1, TurnedNumber
<1>4. \/ y % 4 = 0 /\ Times(u, w) = u /\ (x + y) % 4 = x % 4
      \/ y % 4 = 1 /\ Times(u, w) = <<-u[2], u[1]>> /\ (x + y) % 4 = ((x % 4) + 1) % 4
      \/ y % 4 = 2 /\ Times(u, w) = <<-u[1], -u[2]>> /\ (x + y) % 4 = ((x % 4) + 2) % 4
      \/ y % 4 = 3 /\ Times(u, w) = <<u[2], -u[1]>> /\ (x + y) % 4 = ((x % 4) + 3) % 4
  <2>1. \A p \in Int, q \in Int :
           /\ Times(<<p, q>>, <<1, 0>>) = <<p, q>> /\ Times(<<p, q>>, <<0, 1>>) = <<-q, p>>
           /\ Times(<<p, q>>, <<-1, 0>>) = <<-p, -q>> /\ Times(<<p, q>>, <<0, -1>>) = <<q, -p>>
    BY DEF Times
  <2>2. PICK p \in Int, q \in Int : u = <<p, q>>
    BY <1>2
  <2>3. u[1] = p /\ u[2] = q
    BY <2>2
  <2> HIDE DEF u
  <2> QED
    BY <1>1, <2>1, <2>2, <2>3, FourQuarters
<1>5. \/ x % 4 = 0 /\ u = <<a, 0>>
      \/ x % 4 = 1 /\ u = <<0, a>>
      \/ x % 4 = 2 /\ u = <<-a, 0>>
      \/ x % 4 = 3 /\ u = <<0, -a>>
  BY TurnedNumber
<1> HIDE DEF u, w
<1>6. CASE x % 4 = 0
  <2>1. u = <<a, 0>> /\ u[1] = a /\ u[2] = 0
    BY <1>5, <1>6
  <2> QED
    BY <1>3, <1>4, <1>6, <2>1 DEF u, w
<1>7. CASE x % 4 = 1
  <2>1. u = <<0, a>> /\ u[1] = 0 /\ u[2] = a
    BY <1>5, <1>7
  <2> QED
    BY <1>3, <1>4, <1>7, <2>1 DEF u, w
<1>8. CASE x % 4 = 2
  <2>1. u = <<-a, 0>> /\ u[1] = -a /\ u[2] = 0
    BY <1>5, <1>8
  <2> QED
    BY <1>3, <1>4, <1>8, <2>1 DEF u, w
<1>9. CASE x % 4 = 3
  <2>1. u = <<0, -a>> /\ u[1] = 0 /\ u[2] = -a
    BY <1>5, <1>9
  <2> QED
    BY <1>3, <1>4, <1>9, <2>1 DEF u, w
<1> QED
  BY <1>5, <1>6, <1>7, <1>8, <1>9

(* Its magnitude and its phase.                                            *)
LEMMA TurnedPhase ==
    ASSUME NEW a \in Nat \ {0}, NEW k \in Int
    PROVE  /\ Magnitude(Scale(a, Quarter(k))) = a
           /\ HasAngle(Scale(a, Quarter(k)))
           /\ Angle(Scale(a, Quarter(k))) \in -1 .. 2
           /\ Angle(Scale(a, Quarter(k))) % 4 = k % 4
<1>1. /\ Magnitude(<<a, 0>>) = a /\ Magnitude(<<0, a>>) = a
      /\ Magnitude(<<-a, 0>>) = a /\ Magnitude(<<0, -a>>) = a
  BY DEF Magnitude, Size
<1>2. <<a, 0>> # Zero /\ <<0, a>> # Zero /\ <<-a, 0>> # Zero /\ <<0, -a>> # Zero
  BY DEF Zero
<1>3. /\ Angle(<<a, 0>>) = 0 /\ Angle(<<0, a>>) = 1
      /\ Angle(<<-a, 0>>) = 2 /\ Angle(<<0, -a>>) = -1
  BY DEF Angle
<1>4. \A n \in -1 .. 2 : n % 4 = IF n = -1 THEN 3 ELSE n
  OBVIOUS
<1> QED
  BY <1>1, <1>2, <1>3, <1>4, TurnedNumber DEF HasAngle

(* Nothing has no phase.                                                   *)
LEMMA NothingTurned ==
    ASSUME NEW k \in Int
    PROVE  Scale(0, Quarter(k)) = Zero /\ ~HasAngle(Zero) /\ Magnitude(Zero) = 0
BY TurnedNumber DEF HasAngle, Zero, Magnitude, Size

(* The difference of two phases, in quarters.                              *)
LEMMA WrapOfPhases ==
    ASSUME NEW p \in Int, NEW q \in Int, NEW n \in Int, (q - p) % 4 = n % 4
    PROVE  PhaseDifference(p, q, 4) \in Int /\ IsWrapOf(PhaseDifference(p, q, 4), n)
<1> DEFINE d == PhaseDifference(p, q, 4)
<1>1. d \in Int /\ 2 * d <= 4 /\ -4 <= 2 * d /\ \E k \in Int : q - p = d + 4 * k
  <2>1. 4 \in Nat \ {0} /\ d = PhaseDifference(p, q, 4)
    OBVIOUS
  <2> HIDE DEF d
  <2>2. d \in Int /\ 2 * d <= 4 /\ (-4) <= 2 * d
    BY <2>1, AtMostHalfATurn
  <2>3. \E k \in Int : q - p = d + 4 * k
    BY <2>1, AtMostHalfATurn
  <2> QED
    BY <2>2, <2>3
<1>2. PICK k \in Int : q - p = d + 4 * k
  BY <1>1
<1> HIDE DEF d
<1>3. d % 4 = n % 4
  <2>1. (d + 4 * k) % 4 = d % 4
    BY <1>1
  <2> QED
    BY <1>2, <2>1
<1>4. IsWrapOf(d, n)
  BY <1>1, <1>3 DEF IsWrapOf, Size
<1> QED
  BY <1>1, <1>4 DEF d

LEMMA NoTurn ==
    ASSUME NEW p \in -1 .. 2
    PROVE  PhaseDifference(p, p, 4) = 0
<1>1. p - p = 0
  OBVIOUS
<1>2. Rint(0, 4) = 0
  BY DEF Rint
<1> QED
  BY <1>1, <1>2 DEF PhaseDifference

-----------------------------------------------------------------------------
(* The frames of slim_algo.                                                *)

(* Where a sample of a channel, a chirp and a bin is.                      *)
Place(ch, c, b) == ch * len_img + c * f_cfg.n_range_bins + b

LEMMA SlimSizes ==
    /\ f_cfg.n_range_bins \in Nat /\ f_cfg.n_range_bins >= 4
    /\ min_range_bin \in 1 .. f_cfg.n_range_bins - 3
    /\ f_cfg.n_channels = 3
    /\ f_cfg.n_chirps \in Nat /\ f_cfg.n_chirps >= 16 /\ f_cfg.n_chirps = 4 * quarter
    /\ quarter \in Nat /\ quarter >= 4
    /\ len_img = f_cfg.n_chirps * f_cfg.n_range_bins /\ len_img \in Nat \ {0}
    /\ len_hfr = 3 * len_img /\ len_cch = 3 * f_cfg.n_chirps
    /\ Channels = 0 .. 2 /\ Chirps = 0 .. f_cfg.n_chirps - 1
    /\ RangeBins = 0 .. f_cfg.n_range_bins - 1
    /\ IsFiniteSet(Chirps) /\ Cardinality(Chirps) = f_cfg.n_chirps
    /\ 0 \in Chirps /\ 1 \in Chirps
<1>1. /\ f_cfg.n_range_bins \in Nat /\ f_cfg.n_channels = 3
      /\ f_cfg.n_chirps \in Nat /\ f_cfg.n_chirps >= 16 /\ f_cfg.n_chirps % 4 = 0
      /\ min_range_bin \in 1 .. f_cfg.n_range_bins - 3
  BY SlimAssumption DEF SlimAssumption, FrameConfig
<1>2. f_cfg.n_range_bins >= 4
  BY <1>1
<1>3. f_cfg.n_chirps = 4 * quarter /\ quarter \in Nat /\ quarter >= 4
  BY <1>1 DEF quarter
<1>4. /\ len_img = f_cfg.n_chirps * f_cfg.n_range_bins /\ len_img \in Nat \ {0}
      /\ len_hfr = 3 * len_img /\ len_cch = 3 * f_cfg.n_chirps
  <2> DEFINE m == f_cfg.n_chirps
             n == f_cfg.n_range_bins
  <2>1. m \in Nat \ {0} /\ n \in Nat \ {0}
    BY <1>1, <1>2
  <2> HIDE DEF m, n
  <2>2. m * n \in Nat \ {0}
    BY <2>1
  <2> QED
    BY <1>1, <2>2 DEF len_img, len_hfr, len_cch, m, n
<1>5. /\ Channels = 0 .. 2 /\ Chirps = 0 .. f_cfg.n_chirps - 1
      /\ RangeBins = 0 .. f_cfg.n_range_bins - 1
  BY <1>1 DEF Channels, Chirps, RangeBins, Indices
<1>6. IsFiniteSet(Chirps) /\ Cardinality(Chirps) = f_cfg.n_chirps
  <2> DEFINE last == f_cfg.n_chirps - 1
  <2>1. 0 \in Int /\ last \in Int /\ last >= 0 /\ last - 0 + 1 = f_cfg.n_chirps
    BY <1>1
  <2> HIDE DEF last
  <2>2. IsFiniteSet(0 .. last) /\ Cardinality(0 .. last) = last - 0 + 1
    BY <2>1, FS_Interval
  <2> QED
    BY <1>5, <2>1, <2>2 DEF last
<1>7. 0 \in Chirps /\ 1 \in Chirps
  BY <1>1, <1>5
<1> QED
  BY <1>1, <1>2, <1>3, <1>4, <1>5, <1>6, <1>7

-----------------------------------------------------------------------------
(* What turns evenly from chirp to chirp.                                  *)

LEMMA HalfATurn ==
    ASSUME NEW a \in Int, NEW k \in Int, NEW l \in Int, l % 4 = (k + 2) % 4
    PROVE  /\ Scale(a, Quarter(k)) \in Int \X Int
           /\ Scale(a, Quarter(l))[1] = -Scale(a, Quarter(k))[1]
           /\ Scale(a, Quarter(l))[2] = -Scale(a, Quarter(k))[2]
<1> DEFINE u == Scale(a, Quarter(k))
           w == Scale(a, Quarter(l))
<1>1. /\ k % 4 = 0 => u = <<a, 0>> /\ l % 4 = 2
      /\ k % 4 = 1 => u = <<0, a>> /\ l % 4 = 3
      /\ k % 4 = 2 => u = <<-a, 0>> /\ l % 4 = 0
      /\ k % 4 = 3 => u = <<0, -a>> /\ l % 4 = 1
      /\ k % 4 \in {0, 1, 2, 3} /\ u \in Int \X Int
  <2>1. /\ k % 4 = 0 => l % 4 = 2
        /\ k % 4 = 1 => l % 4 = 3
        /\ k % 4 = 2 => l % 4 = 0
        /\ k % 4 = 3 => l % 4 = 1
    OBVIOUS
  <2> QED
    BY <2>1, TurnedNumber
<1>2. /\ l % 4 = 0 => w = <<a, 0>>
      /\ l % 4 = 1 => w = <<0, a>>
      /\ l % 4 = 2 => w = <<-a, 0>>
      /\ l % 4 = 3 => w = <<0, -a>>
  BY TurnedNumber
<1> HIDE DEF u, w
<1>3. u \in Int \X Int /\ w[1] = -u[1] /\ w[2] = -u[2]
  BY <1>1, <1>2
<1> QED
  BY <1>3 DEF u, w

(* Steps of chirps around the frame.                                       *)
LEMMA AroundChirps ==
    ASSUME NEW h \in {1, 2}
    PROVE  \E way \in [Chirps -> Chirps] :
                /\ \A i, j \in Chirps : way[i] = way[j] => i = j
                /\ \A i \in Chirps : \E j \in Chirps : way[j] = i
                /\ \A j \in Chirps : way[j] = j + h \/ way[j] = j + h - f_cfg.n_chirps
<1> DEFINE m == f_cfg.n_chirps
           way == [j \in Chirps |-> (j + h) % m]
<1>1. m \in Nat /\ m >= 16 /\ Chirps = 0 .. m - 1
  BY SlimSizes
<1> HIDE DEF m
<1>2. \A j \in 0 .. m - 1 : (j + h) % m = IF j + h < m THEN j + h ELSE j + h - m
  <2> SUFFICES ASSUME NEW j \in 0 .. m - 1
               PROVE  (j + h) % m = IF j + h < m THEN j + h ELSE j + h - m
    OBVIOUS
  <2>1. m \in Nat \ {0}
    BY <1>1
  <2>2. CASE j + h < m
    <3>1. j + h \in 0 .. m - 1 /\ m * 0 + (j + h) = j + h /\ 0 \in Int
      BY <1>1, <2>2
    <3>2. (m * 0 + (j + h)) % m = j + h
      BY <2>1, <3>1, QuotientOf
    <3> QED
      BY <2>2, <3>1, <3>2
  <2>3. CASE ~(j + h < m)
    <3> DEFINE r == j + h - m
    <3>1. r \in 0 .. m - 1 /\ m * 1 + r = j + h /\ 1 \in Int
      BY <1>1, <2>3
    <3> HIDE DEF r
    <3>2. (m * 1 + r) % m = r
      BY <2>1, <3>1, QuotientOf
    <3> QED
      BY <2>3, <3>1, <3>2 DEF r
  <2> QED
    BY <2>2, <2>3
<1>3. \A j \in 0 .. m - 1 : way[j] = IF j + h < m THEN j + h ELSE j + h - m
  BY <1>1, <1>2
<1>4. way \in [Chirps -> Chirps]
  <2>1. \A j \in 0 .. m - 1 : way[j] \in 0 .. m - 1
    BY <1>1, <1>3
  <2>2. way = [j \in Chirps |-> way[j]]
    OBVIOUS
  <2> HIDE DEF way
  <2> QED
    BY <1>1, <2>1, <2>2
<1> HIDE DEF way
<1>5. \A i, j \in 0 .. m - 1 : way[i] = way[j] => i = j
  BY <1>1, <1>3
<1>6. ASSUME NEW i \in 0 .. m - 1 PROVE \E j \in 0 .. m - 1 : way[j] = i
  <2> DEFINE j == IF i >= h THEN i - h ELSE i - h + m
  <2>1. j \in 0 .. m - 1 /\ (IF j + h < m THEN j + h ELSE j + h - m) = i
    BY <1>1
  <2> HIDE DEF j
  <2> QED
    BY <1>3, <2>1
<1>7. \A j \in 0 .. m - 1 : way[j] = j + h \/ way[j] = j + h - m
  BY <1>3
<1> QED
  BY <1>1, <1>4, <1>5, <1>6, <1>7 DEF m

TurnsEvenly(X, a, v, d) == \A j \in Chirps : X[j] = Scale(a, Quarter(v * j + d))

(* All chirps of a number that turns by the same angle from one to the     *)
(* next: they cancel unless the angle is a whole turn.                     *)
LEMMA EvenTurns ==
    ASSUME NEW a \in Int, NEW v \in Int, NEW d \in Int,
           NEW X, TurnsEvenly(X, a, v, d)
    PROVE  /\ \A j \in Chirps : X[j] \in Int \X Int
           /\ v % 4 = 0 => \A j \in Chirps : X[j] = Scale(a, Quarter(d))
           /\ Total(X, Chirps) = IF v % 4 = 0 THEN Scale(f_cfg.n_chirps * a, Quarter(d)) ELSE Zero
<1> DEFINE m == f_cfg.n_chirps
<1>1. /\ m \in Nat /\ m >= 16 /\ m % 4 = 0 /\ Chirps = 0 .. m - 1
      /\ IsFiniteSet(Chirps) /\ Cardinality(Chirps) = m
  BY SlimSizes
<1> HIDE DEF m
<1>2. \A j \in Chirps : j \in Int /\ v * j + d \in Int /\ X[j] = Scale(a, Quarter(v * j + d))
  BY <1>1 DEF TurnsEvenly
<1>3. \A j \in Chirps : X[j] \in Int \X Int
  <2> SUFFICES ASSUME NEW j \in Chirps PROVE X[j] \in Int \X Int
    OBVIOUS
  <2> DEFINE k == v * j + d
  <2>1. k \in Int /\ X[j] = Scale(a, Quarter(k))
    BY <1>2
  <2> HIDE DEF k
  <2>2. Scale(a, Quarter(k)) \in Int \X Int
    BY <2>1, TurnedNumber
  <2> QED
    BY <2>1, <2>2, Zenon
<1> DEFINE F(i) == [j \in Chirps |-> X[j][i]]
<1>4. \A i \in {1, 2} : F(i) \in [Chirps -> Int]
  BY <1>3
<1>5. Total(X, Chirps) = <<SumOf(F(1)), SumOf(F(2))>>
  BY DEF Total
<1>6. CASE v % 4 = 0
  <2>1. ASSUME NEW j \in Chirps PROVE X[j] = Scale(a, Quarter(d))
    <3> DEFINE k == v * j + d
    <3>1. k \in Int /\ k % 4 = d % 4
      <4>1. PICK q \in Int : v = 4 * q
        BY <1>6
      <4>2. q * j \in Int /\ v * j + d = 4 * (q * j) + d
        BY <1>2, <4>1
      <4>3. \A n \in Int : (4 * n + d) % 4 = d % 4
        OBVIOUS
      <4> QED
        BY <1>2, <4>2, <4>3
    <3>2. X[j] = Scale(a, Quarter(k))
      BY <1>2
    <3> HIDE DEF k
    <3> QED
      BY <3>1, <3>2, WholeTurns
  <2> DEFINE w == Scale(a, Quarter(d))
  <2>2. w \in Int \X Int
    BY TurnedNumber
  <2>3. \A i \in {1, 2} : SumOf(F(i)) = w[i] * m
    <3> SUFFICES ASSUME NEW i \in {1, 2} PROVE SumOf(F(i)) = w[i] * m
      OBVIOUS
    <3> DEFINE G == F(i)
               c == w[i]
    <3>1. G \in [Chirps -> Int] /\ c \in Int /\ \A j \in Chirps : G[j] = c
      <4>1. w[i] \in Int
        BY <2>2
      <4> HIDE DEF w
      <4> QED
        BY <1>4, <2>1, <4>1 DEF w
    <3> HIDE DEF G, c
    <3>2. SumOf(G) = c * m
      BY <1>1, <3>1, SumOfSame
    <3> QED
      BY <3>2 DEF G, c
  <2>4. Scale(m * a, Quarter(d)) = <<w[1] * m, w[2] * m>>
    <3>1. Quarter(d) \in {<<1, 0>>, <<0, 1>>, <<-1, 0>>, <<0, -1>>}
      BY FourQuarters
    <3>2. /\ (m * a) * 1 = (a * 1) * m /\ (m * a) * 0 = (a * 0) * m
          /\ (m * a) * (-1) = (a * (-1)) * m
      BY <1>1
    <3> DEFINE z == Quarter(d)
    <3> HIDE DEF z
    <3>3. z[1] \in {0, 1, -1} /\ z[2] \in {0, 1, -1}
      BY <3>1 DEF z
    <3>4. (m * a) * z[1] = (a * z[1]) * m /\ (m * a) * z[2] = (a * z[2]) * m
      BY <3>2, <3>3
    <3> QED
      BY <3>4 DEF Scale, z
  <2>5. Total(X, Chirps) = Scale(m * a, Quarter(d))
    <3> HIDE DEF F, w
    <3> QED
      BY <1>5, <2>3, <2>4
  <2> QED
    BY <1>3, <1>6, <2>1, <2>5 DEF m
<1>7. CASE v % 4 # 0
  <2> DEFINE h == IF v % 4 = 2 THEN 1 ELSE 2
  <2>1. h \in {1, 2} /\ (v * h) % 4 = 2
    <3>1. v % 4 \in {1, 2, 3}
      BY <1>7
    <3>2. CASE v % 4 = 2
      BY <3>2
    <3>3. CASE v % 4 # 2
      BY <3>1, <3>3
    <3> QED
      BY <3>2, <3>3
  <2> HIDE DEF h
  <2>2. PICK way \in [Chirps -> Chirps] :
            /\ \A i, j \in Chirps : way[i] = way[j] => i = j
            /\ \A i \in Chirps : \E j \in Chirps : way[j] = i
            /\ \A j \in Chirps : way[j] = j + h \/ way[j] = j + h - m
    <3>1. h \in {1, 2}
      BY <2>1
    <3> QED
      BY <3>1, AroundChirps DEF m
  <2>3. ASSUME NEW j \in Chirps PROVE (v * way[j] + d) % 4 = ((v * j + d) + 2) % 4
    <3>1. PICK q \in Int : m = 4 * q
      BY <1>1
    <3>2. PICK p \in Int : v * h = 4 * p + 2
      <4>1. v * h \in Int
        BY <2>1
      <4> QED
        BY <2>1, <4>1
    <3>3. h \in Int /\ j \in Int /\ way[j] \in Int
      BY <1>1, <2>1, <2>2
    <3>4. \A n \in Int, k \in Int : (k + 4 * n) % 4 = k % 4
      OBVIOUS
    <3> DEFINE k == (v * j + d) + 2
    <3>5. k \in Int
      BY <3>3
    <3>6. CASE way[j] = j + h
      <4>1. v * way[j] = v * j + v * h
        BY <3>3, <3>6
      <4>2. v * way[j] + d = k + 4 * p
        BY <3>2, <3>3, <4>1
      <4> HIDE DEF k
      <4>3. (k + 4 * p) % 4 = k % 4
        BY <3>4, <3>5
      <4> QED
        BY <4>2, <4>3 DEF k
    <3>7. CASE way[j] = j + h - m
      <4>1. v * way[j] = v * j + v * h - v * m
        BY <1>1, <3>3, <3>7
      <4>2. v * m = 4 * (v * q) /\ v * q \in Int
        BY <3>1
      <4> DEFINE n == p - v * q
      <4>3. v * way[j] + d = k + 4 * n /\ n \in Int
        <5> DEFINE x == v * way[j]
                   y == v * j
                   t == v * q
        <5>1. x \in Int /\ y \in Int /\ t \in Int /\ x = y + (4 * p + 2) - 4 * t
          BY <3>2, <3>3, <4>1, <4>2
        <5> HIDE DEF x, y, t
        <5>2. x + d = ((y + d) + 2) + 4 * (p - t) /\ p - t \in Int
          BY <5>1
        <5> QED
          BY <5>2 DEF x, y, t
      <4> HIDE DEF k, n
      <4>4. (k + 4 * n) % 4 = k % 4
        BY <3>4, <3>5, <4>3
      <4> QED
        BY <4>3, <4>4 DEF k
    <3> QED
      BY <2>2, <3>6, <3>7
  <2>4. ASSUME NEW j \in Chirps, NEW i \in {1, 2} PROVE X[j][i] = (-1) * X[way[j]][i]
    <3> DEFINE k == v * j + d
               l == v * way[j] + d
    <3>1. way[j] \in Chirps
      BY <2>2
    <3>2. k \in Int /\ l \in Int /\ l % 4 = (k + 2) % 4
      BY <1>2, <2>3, <3>1
    <3>3. X[j] = Scale(a, Quarter(k)) /\ X[way[j]] = Scale(a, Quarter(l))
      BY <1>2, <3>1
    <3> HIDE DEF k, l
    <3>4. /\ X[j] \in Int \X Int
          /\ X[way[j]][1] = -X[j][1] /\ X[way[j]][2] = -X[j][2]
      BY <3>2, <3>3, HalfATurn
    <3>5. X[j][1] \in Int /\ X[j][2] \in Int
      BY <3>4
    <3>6. \A n \in Int : n = (-1) * (-n)
      OBVIOUS
    <3> QED
      BY <3>4, <3>5, <3>6
  <2>5. \A i \in {1, 2} : SumOf(F(i)) = 0
    <3> SUFFICES ASSUME NEW i \in {1, 2} PROVE SumOf(F(i)) = 0
      OBVIOUS
    <3> DEFINE G == F(i)
    <3>1. G \in [Chirps -> Int] /\ \A j \in Chirps : G[j] = (-1) * G[way[j]]
      BY <1>4, <2>2, <2>4
    <3> HIDE DEF G
    <3>2. SumOf(G) = (-1) * SumOf(G)
      <4>1. /\ G \in [Chirps -> Int] /\ way \in [Chirps -> Chirps] /\ IsFiniteSet(Chirps)
            /\ \A x, y \in Chirps : way[x] = way[y] => x = y
            /\ \A y \in Chirps : \E x \in Chirps : way[x] = y
            /\ \A x \in Chirps : G[x] = (-1) * G[way[x]]
        BY <1>1, <2>2, <3>1, Zenon
      <4> QED
        BY <4>1, CancelledSum
    <3>3. SumOf(G) \in Int
      BY <1>1, <3>1, SumIs
    <3> QED
      BY <3>2, <3>3 DEF G
  <2>6. Total(X, Chirps) = Zero
    <3> HIDE DEF F
    <3> QED
      BY <1>5, <2>5 DEF Zero
  <2> QED
    BY <1>3, <1>7, <2>6
<1> QED
  BY <1>6, <1>7

LEMMA PlaceInFrame ==
    ASSUME NEW ch \in Channels, NEW c \in Chirps, NEW b \in RangeBins
    PROVE  /\ Place(ch, c, b) \in Indices(len_hfr)
           /\ Place(ch, c, b) \div len_img = ch
           /\ (Place(ch, c, b) % len_img) \div f_cfg.n_range_bins = c
           /\ Place(ch, c, b) % f_cfg.n_range_bins = b
<1> DEFINE m == f_cfg.n_chirps
           n == f_cfg.n_range_bins
           e == c * n + b
           a == ch * m + c
<1>1. /\ m \in Nat \ {0} /\ n \in Nat \ {0} /\ len_img = m * n /\ len_hfr = 3 * len_img
      /\ len_img \in Nat \ {0}
      /\ ch \in Indices(3) /\ c \in Indices(m) /\ b \in Indices(n)
      /\ ch \in Int /\ c \in Int /\ b \in Int
  BY SlimSizes DEF Indices
<1> HIDE DEF n, m
<1>2. e \in Indices(len_img) /\ e \div n = c /\ e % n = b
  BY <1>1, PairOfIndex
<1>3. Place(ch, c, b) = ch * len_img + e
  <2>1. ch * len_img \in Int /\ c * n \in Int
    BY <1>1
  <2>2. Place(ch, c, b) = ch * len_img + c * n + b
    BY DEF Place, n
  <2> QED
    BY <1>1, <2>1, <2>2
<1>4. /\ ch * len_img + e \in Indices(len_hfr)
      /\ (ch * len_img + e) \div len_img = ch /\ (ch * len_img + e) % len_img = e
  <2> HIDE DEF e
  <2>1. 3 \in Nat
    OBVIOUS
  <2>2. ch \in Indices(3) /\ e \in Indices(len_img) /\ len_img \in Nat \ {0} /\ len_hfr = 3 * len_img
    BY <1>1, <1>2
  <2> HIDE DEF m, n
  <2>3. /\ ch * len_img + e \in Indices(3 * len_img)
        /\ (ch * len_img + e) \div len_img = ch /\ (ch * len_img + e) % len_img = e
    BY <2>1, <2>2, PairOfIndex
  <2> QED
    BY <2>2, <2>3
<1>5. (ch * len_img + e) % n = b
  <2>1. ch * len_img + e = a * n + b
    BY <1>1
  <2>2. a \in Indices(3 * m)
    BY <1>1, PairOfIndex
  <2> HIDE DEF a
  <2>3. (a * n + b) % n = b
    BY <1>1, <2>2, PairOfIndex
  <2> QED
    BY <2>1, <2>3
<1> HIDE DEF e
<1> QED
  BY <1>2, <1>3, <1>4, <1>5 DEF n

(* A range image has the echo of a sample at its place.                    *)
LEMMA ImageAt ==
    ASSUME NEW s, NEW ch \in Channels, NEW c \in Chirps, NEW b \in RangeBins, b # 0
    PROVE  RangeImage(s)[Place(ch, c, b)] = Echo(s, ch, c, b)
<1> DEFINE p == Place(ch, c, b)
<1>1. /\ p \in Indices(len_hfr) /\ p \div len_img = ch
      /\ (p % len_img) \div f_cfg.n_range_bins = c /\ p % f_cfg.n_range_bins = b
  BY PlaceInFrame
<1> HIDE DEF p
<1>2. RangeImage(s)[p] = LET bin == p % f_cfg.n_range_bins
                             x   == Echo(s, p \div len_img, (p % len_img) \div f_cfg.n_range_bins, bin)
                         IN  IF bin = 0 THEN <<x[1], 0>> ELSE x
  BY <1>1, Zenon DEF RangeImage
<1> QED
  BY <1>1, <1>2 DEF p

-----------------------------------------------------------------------------
(* What moves in a bin, how much of the echo a channel gets of it, and how *)
(* it turns.                                                               *)
Mover(s, b) == {t \in s.targets : t.bin = b /\ t.velocity % 4 # 0}

Strength(s, ch, b) ==
    IF Mover(s, b) = {} \/ ch \in s.silent THEN 0
    ELSE (CHOOSE t \in Mover(s, b) : TRUE).size

Turn(s, b) == IF Mover(s, b) = {} THEN 0 ELSE (CHOOSE t \in Mover(s, b) : TRUE).velocity

LEMMA SceneTypes ==
    ASSUME NEW s \in Scenes
    PROVE  /\ \A t \in s.targets : /\ t.bin \in RangeBins /\ t.size \in Nat \ {0}
                                   /\ t.velocity \in Int
           /\ \A t, u \in s.targets : t.bin = u.bin => t = u
           /\ \A ch \in Channels : s.direction[ch] \in Int
<1>1. s \in [targets : SUBSET Target, direction : [Channels -> Int], silent : SUBSET Channels]
  BY SlimAssumption DEF SlimAssumption
<1>2. \A t, u \in s.targets : t.bin = u.bin => t = u
  BY SlimAssumption DEF SlimAssumption
<1> QED
  BY <1>1, <1>2 DEF Target

LEMMA OneMover ==
    ASSUME NEW s \in Scenes, NEW t \in s.targets, t.velocity % 4 # 0
    PROVE  /\ Mover(s, t.bin) = {t}
           /\ Turn(s, t.bin) = t.velocity
           /\ \A ch \in Channels \ s.silent : Strength(s, ch, t.bin) = t.size
<1>1. Mover(s, t.bin) = {t}
  BY SceneTypes DEF Mover
<1> QED
  BY <1>1 DEF Turn, Strength

(* The echoes of a bin are those of one target that turns from chirp to    *)
(* chirp, or nothing.                                                      *)
LEMMA EchoesOfBin ==
    ASSUME NEW s \in Scenes, NEW ch \in Channels, NEW b \in RangeBins
    PROVE  \E z \in Nat, v \in Int :
                /\ \A c \in Chirps : Echo(s, ch, c, b) = Scale(z, Quarter(v * c + s.direction[ch]))
                /\ v % 4 = 0 => Strength(s, ch, b) = 0
                /\ v % 4 # 0 => Strength(s, ch, b) = z /\ Turn(s, b) = v
<1> DEFINE there == {t \in s.targets : t.bin = b}
<1>1. s.direction[ch] \in Int /\ \A c \in Chirps : c \in Int
  BY SceneTypes, SlimSizes
<1>2. CASE there = {} \/ ch \in s.silent
  <2>1. Strength(s, ch, b) = 0
    <3>1. there = {} => Mover(s, b) = {}
      BY DEF Mover
    <3> QED
      BY <1>2, <3>1 DEF Strength
  <2>2. \A c \in Chirps : Echo(s, ch, c, b) = Zero
    BY <1>2 DEF Echo
  <2>3. \A c \in Chirps : Scale(0, Quarter(0 * c + s.direction[ch])) = Zero
    <3>1. \A c \in Chirps : 0 * c + s.direction[ch] \in Int
      BY <1>1
    <3> QED
      BY <3>1, NothingTurned
  <2>4. 0 \in Nat /\ 0 \in Int /\ 0 % 4 = 0
    OBVIOUS
  <2> QED
    BY <2>1, <2>2, <2>3, <2>4
<1>3. CASE there # {} /\ ch \notin s.silent
  <2> DEFINE t == CHOOSE t \in there : TRUE
  <2>1. t \in s.targets /\ t.bin = b
    BY <1>3
  <2>2. t.size \in Nat /\ t.velocity \in Int
    BY <2>1, SceneTypes
  <2>3. \A c \in Chirps : Echo(s, ch, c, b) = Scale(t.size, Quarter(t.velocity * c + s.direction[ch]))
    BY <1>3 DEF Echo
  <2> HIDE DEF t
  <2>4. ASSUME t.velocity % 4 = 0 PROVE Strength(s, ch, b) = 0
    <3>1. Mover(s, b) = {}
      <4>1. \A u \in s.targets : u.bin = b => u = t
        BY <2>1, SceneTypes
      <4> QED
        BY <2>4, <4>1 DEF Mover
    <3> QED
      BY <3>1 DEF Strength
  <2>5. ASSUME t.velocity % 4 # 0 PROVE Strength(s, ch, b) = t.size /\ Turn(s, b) = t.velocity
    BY <1>3, <2>1, <2>5, OneMover
  <2> QED
    BY <2>2, <2>3, <2>4, <2>5
<1> QED
  BY <1>2, <1>3

(* The line that a sample's mean is taken over: its bin in every chirp.    *)
LEMMA LineOfSample ==
    ASSUME NEW ch \in Channels, NEW c \in Chirps, NEW b \in RangeBins
    PROVE  /\ (CHOOSE l \in MeanLines(1, f_cfg.n_channels, f_cfg.n_chirps, f_cfg.n_range_bins) :
                Place(ch, c, b) \in l)
            = {Place(ch, j, b) : j \in Chirps}
           /\ {Place(ch, j, b) : j \in Chirps}
                \in MeanLines(1, f_cfg.n_channels, f_cfg.n_chirps, f_cfg.n_range_bins)
<1> DEFINE m == f_cfg.n_chirps
           n == f_cfg.n_range_bins
           lines == MeanLines(1, 3, m, n)
           line == {Place(ch, j, b) : j \in Chirps}
           p == Place(ch, c, b)
<1>1. /\ m \in Nat \ {0} /\ n \in Nat \ {0} /\ ch \in 0 .. 2 /\ b \in 0 .. n - 1
      /\ Chirps = 0 .. m - 1 /\ len_img = m * n /\ len_hfr = 3 * len_img
  BY SlimSizes
<1>2. line \in lines
  <2>1. lines = {Line(h * m * n + col, m, n) : h \in Indices(3), col \in Indices(n)}
    BY DEF MeanLines
  <2>2. line = Line(ch * m * n + b, m, n)
    <3>1. \A j \in Chirps : Place(ch, j, b) = ch * m * n + b + j * n
      <4> SUFFICES ASSUME NEW j \in Chirps PROVE Place(ch, j, b) = ch * m * n + b + j * n
        OBVIOUS
      <4>1. Place(ch, j, b) = ch * len_img + j * n + b
        BY DEF Place
      <4>2. j \in Int /\ ch \in Int /\ b \in Int /\ m \in Int /\ n \in Int
        BY <1>1
      <4> HIDE DEF m, n
      <4>3. ch * (m * n) = ch * m * n /\ ch * m * n \in Int /\ j * n \in Int
        BY <4>2
      <4> QED
        BY <1>1, <4>1, <4>2, <4>3
    <3>2. Chirps = Indices(m)
      BY DEF Chirps
    <3> HIDE DEF m, n
    <3> QED
      BY <3>1, <3>2 DEF Line
  <2>3. ch \in Indices(3) /\ b \in Indices(n)
    BY <1>1 DEF Indices
  <2> HIDE DEF lines, line, n, m
  <2> QED
    BY <2>1, <2>2, <2>3
<1>3. p \in line
  OBVIOUS
<1>4. \E l \in lines : p \in l /\ \A other \in lines : p \in other => other = l
  <2>1. p \in Indices(3 * m * n)
    <3>1. p \in Indices(len_hfr)
      BY PlaceInFrame
    <3> HIDE DEF m, n
    <3>2. len_hfr = 3 * m * n
      BY <1>1
    <3> QED
      BY <3>1, <3>2
  <2>2. 3 \in Nat \ {0} /\ 1 \in {0, 1, 2}
    OBVIOUS
  <2> HIDE DEF n, m, p
  <2> QED
    BY <1>1, <2>1, <2>2, OneMeanPerSample
<1>5. \A other \in lines : p \in other => other = line
  <2> HIDE DEF lines, line, p
  <2> QED
    BY <1>2, <1>3, <1>4
<1>6. (CHOOSE l \in lines : p \in l) = line
  <2> HIDE DEF lines, line, p
  <2> QED
    BY <1>2, <1>3, <1>5
<1> QED
  BY <1>2, <1>6, SlimSizes

(* The sum over such a line is one over the chirps.                        *)
LEMMA TotalOfLine ==
    ASSUME NEW x, NEW ch \in Channels, NEW b \in RangeBins, NEW X,
           \A j \in Chirps : X[j] \in Int \X Int /\ x[Place(ch, j, b)] = X[j]
    PROVE  Total(x, {Place(ch, j, b) : j \in Chirps}) = Total(X, Chirps)
<1> DEFINE line == {Place(ch, j, b) : j \in Chirps}
           way == [k \in line |-> (k % len_img) \div f_cfg.n_range_bins]
           F(i) == [j \in Chirps |-> X[j][i]]
           G(i) == [k \in line |-> x[k][i]]
<1>1. \A j \in Chirps : Place(ch, j, b) \in line /\ way[Place(ch, j, b)] = j
  BY PlaceInFrame
<1>2. \A k \in line : \E j \in Chirps : k = Place(ch, j, b)
  OBVIOUS
<1>3. IsFiniteSet(line)
  <2> DEFINE f == [j \in Chirps |-> Place(ch, j, b)]
  <2>1. line = {f[j] : j \in Chirps}
    OBVIOUS
  <2>2. f \in Surjection(Chirps, line)
    BY <1>1, <1>2 DEF Surjection
  <2> HIDE DEF f, line
  <2>3. IsFiniteSet(Chirps)
    BY SlimSizes
  <2> QED
    BY <2>2, <2>3, FS_Surjection
<1>4. way = [k \in line |-> way[k]]
  OBVIOUS
<1> HIDE DEF line, way
<1>5. way \in [line -> Chirps]
  BY <1>1, <1>2, <1>4
<1>6. \A k, l \in line : way[k] = way[l] => k = l
  BY <1>1, <1>2
<1>7. \A j \in Chirps : \E k \in line : way[k] = j
  BY <1>1
<1>8. ASSUME NEW i \in {1, 2} PROVE SumOf(G(i)) = SumOf(F(i))
  <2> DEFINE f == F(i)
             g == G(i)
  <2>1. f \in [Chirps -> Int]
    OBVIOUS
  <2>2. \A k \in line : g[k] = f[way[k]]
    BY <1>1, <1>2
  <2>3. g = [k \in line |-> g[k]]
    OBVIOUS
  <2> HIDE DEF f, g
  <2>4. g \in [line -> Int]
    BY <1>5, <2>1, <2>2, <2>3
  <2>5. \A k \in line : g[k] = 1 * f[way[k]]
    BY <1>5, <2>1, <2>2
  <2>6. IsFiniteSet(Chirps) /\ 1 \in {1, -1}
    BY SlimSizes
  <2>7. SumOf(g) = 1 * SumOf(f)
    BY <1>3, <1>5, <1>6, <1>7, <2>1, <2>4, <2>5, <2>6, SumMoved
  <2>8. SumOf(f) \in Int
    BY <2>1, <2>6, SumIs
  <2> QED
    BY <2>7, <2>8 DEF f, g
<1>9. Total(x, line) = <<SumOf(G(1)), SumOf(G(2))>> /\ Total(X, Chirps) = <<SumOf(F(1)), SumOf(F(2))>>
  BY DEF Total
<1> HIDE DEF F, G
<1> QED
  BY <1>8, <1>9 DEF line

LEMMA StrengthIsNatural ==
    ASSUME NEW s \in Scenes, NEW ch \in Channels, NEW b
    PROVE  Strength(s, ch, b) \in Nat /\ Turn(s, b) \in Int
<1>1. Mover(s, b) # {} => (CHOOSE t \in Mover(s, b) : TRUE) \in s.targets
  BY DEF Mover
<1> QED
  BY <1>1, SceneTypes DEF Turn, Strength

LEMMA ScaledTwice ==
    ASSUME NEW m \in Int, NEW z \in Int, NEW k \in Int
    PROVE  Scale(m, Scale(z, Quarter(k))) = Scale(m * z, Quarter(k))
<1> DEFINE w == Quarter(k)
<1>1. w \in {<<1, 0>>, <<0, 1>>, <<-1, 0>>, <<0, -1>>}
  BY FourQuarters
<1> HIDE DEF w
<1>2. w[1] \in Int /\ w[2] \in Int
  BY <1>1
<1>3. \A i \in Int : m * (z * i) = (m * z) * i
  OBVIOUS
<1>4. m * (z * w[1]) = (m * z) * w[1] /\ m * (z * w[2]) = (m * z) * w[2]
  BY <1>2, <1>3
<1>5. Scale(m, Scale(z, w)) = <<m * (z * w[1]), m * (z * w[2])>>
  BY DEF Scale
<1>6. Scale(m * z, w) = <<(m * z) * w[1], (m * z) * w[2]>>
  BY DEF Scale
<1> QED
  BY <1>4, <1>5, <1>6 DEF w

(* What is left of a sample without its mean is what moves.                *)
LEMMA MovingSample ==
    ASSUME NEW s \in Scenes, NEW ch \in Channels, NEW c \in Chirps, NEW b \in RangeBins, b # 0
    PROVE  MeanRemoved(RangeImage(s))[Place(ch, c, b)]
            = Scale(f_cfg.n_chirps * Strength(s, ch, b),
                    Quarter(Turn(s, b) * c + s.direction[ch]))
<1> DEFINE x == RangeImage(s)
           m == f_cfg.n_chirps
           p == Place(ch, c, b)
           line == {Place(ch, j, b) : j \in Chirps}
           d == s.direction[ch]
<1>1. PICK z \in Nat, v \in Int :
            /\ \A j \in Chirps : Echo(s, ch, j, b) = Scale(z, Quarter(v * j + d))
            /\ v % 4 = 0 => Strength(s, ch, b) = 0
            /\ v % 4 # 0 => Strength(s, ch, b) = z /\ Turn(s, b) = v
  BY EchoesOfBin
<1> DEFINE X == [j \in Chirps |-> Scale(z, Quarter(v * j + d))]
<1>2. m \in Nat /\ c \in Int /\ d \in Int
  BY SceneTypes, SlimSizes
<1>3. \A j \in Chirps : x[Place(ch, j, b)] = X[j]
  <2> SUFFICES ASSUME NEW j \in Chirps PROVE x[Place(ch, j, b)] = X[j]
    OBVIOUS
  <2>1. x[Place(ch, j, b)] = Echo(s, ch, j, b)
    BY ImageAt
  <2> QED
    BY <1>1, <2>1
<1>4. /\ \A j \in Chirps : X[j] \in Int \X Int
      /\ v % 4 = 0 => X[c] = Scale(z, Quarter(d))
      /\ Total(X, Chirps) = IF v % 4 = 0 THEN Scale(m * z, Quarter(d)) ELSE Zero
  <2>1. z \in Int /\ TurnsEvenly(X, z, v, d)
    BY DEF TurnsEvenly
  <2> HIDE DEF X, d
  <2> QED
    BY <1>2, <2>1, EvenTurns
<1>5. Total(x, line) = Total(X, Chirps)
  <2> HIDE DEF x, X
  <2> QED
    BY <1>3, <1>4, TotalOfLine
<1>6. MeanRemoved(x)[p] = Plus(Scale(m, x[p]), Scale(-1, Total(x, line)))
  <2>1. p \in DOMAIN x
    <3>1. p \in Indices(len_hfr)
      BY PlaceInFrame
    <3> QED
      BY <3>1 DEF RangeImage
  <2> DEFINE lines == MeanLines(1, f_cfg.n_channels, f_cfg.n_chirps, f_cfg.n_range_bins)
             LineOf(i) == CHOOSE l \in lines : i \in l
             totals == [l \in lines |-> Total(x, l)]
  <2>2. LineOf(p) = line /\ line \in lines
    BY LineOfSample
  <2>3. MeanRemoved(x) = [i \in DOMAIN x |-> Plus(Scale(m, x[i]), Scale(-1, totals[LineOf(i)]))]
    BY Zenon DEF MeanRemoved
  <2>4. totals[line] = Total(x, line)
    BY <2>2, Zenon
  <2> HIDE DEF x, p, line, lines, totals, LineOf, m
  <2> QED
    BY <2>1, <2>2, <2>3, <2>4
<1>7. x[p] = X[c]
  BY <1>3
<1>8. Scale(m, Scale(z, Quarter(d))) = Scale(m * z, Quarter(d))
  <2>1. m \in Int /\ z \in Int /\ d \in Int
    BY <1>2
  <2> HIDE DEF m, d
  <2> QED
    BY <2>1, ScaledTwice, Zenon
<1> HIDE DEF x, X, line, p
<1>9. CASE v % 4 = 0
  <2>1. Strength(s, ch, b) = 0
    BY <1>1, <1>9
  <2>2. Scale(m * 0, Quarter(Turn(s, b) * c + d)) = Zero
    <3>1. Turn(s, b) * c + d \in Int
      BY <1>2, StrengthIsNatural
    <3>2. m * 0 = 0
      BY <1>2
    <3> QED
      BY <3>1, <3>2, NothingTurned
  <2>3. MeanRemoved(x)[p] = Zero
    <3> DEFINE w == Scale(m * z, Quarter(d))
    <3>1. MeanRemoved(x)[p] = Plus(w, Scale(-1, w))
      BY <1>4, <1>5, <1>6, <1>7, <1>8, <1>9
    <3>2. w \in Int \X Int
      <4>1. m * z \in Int
        BY <1>2
      <4> QED
        BY <1>2, <4>1, TurnedNumber
    <3> HIDE DEF w
    <3> QED
      BY <3>1, <3>2 DEF Plus, Scale, Zero
  <2> QED
    BY <2>1, <2>2, <2>3 DEF x, p
<1>10. CASE v % 4 # 0
  <2>1. Strength(s, ch, b) = z /\ Turn(s, b) = v
    BY <1>1, <1>10
  <2>2. MeanRemoved(x)[p] = Plus(Scale(m, X[c]), Scale(-1, Zero))
    BY <1>4, <1>5, <1>6, <1>7, <1>10
  <2>3. Scale(m, X[c]) = Scale(m * z, Quarter(v * c + d))
    <3>1. v * c + d \in Int
      BY <1>2
    <3>2. X[c] = Scale(z, Quarter(v * c + d))
      BY DEF X
    <3>3. m \in Int /\ z \in Int
      BY <1>2
    <3> HIDE DEF m
    <3>4. \A k \in Int : Scale(m, Scale(z, Quarter(k))) = Scale(m * z, Quarter(k))
      BY <3>3, ScaledTwice
    <3> QED
      BY <3>1, <3>2, <3>4
  <2> DEFINE w == Scale(m * z, Quarter(v * c + d))
  <2>4. w \in Int \X Int
    <3>1. m * z \in Int /\ v * c + d \in Int
      BY <1>2
    <3> QED
      BY <3>1, TurnedNumber
  <2>5. MeanRemoved(x)[p] = w
    <3> HIDE DEF w
    <3> QED
      BY <2>2, <2>3, <2>4 DEF Plus, Scale, Zero, w
  <2> QED
    BY <2>1, <2>5 DEF x, p
<1> QED
  BY <1>9, <1>10

LEMMA SizeOfInterval ==
    ASSUME NEW a \in Int, NEW b \in Int, a <= b
    PROVE  IsFiniteSet(a .. b) /\ Cardinality(a .. b) = b - a + 1
<1>1. IsFiniteSet(a .. b) /\ Cardinality(a .. b) = IF a > b THEN 0 ELSE b - a + 1
  BY FS_Interval
<1> QED
  BY <1>1

(* How strong what moves in a bin is, in every chirp, ...                  *)
LEMMA MovingMagnitude ==
    ASSUME NEW s \in Scenes, NEW ch \in Channels, NEW c \in Chirps, NEW b \in RangeBins, b # 0
    PROVE  Magnitude(MeanRemoved(RangeImage(s))[Place(ch, c, b)])
            = f_cfg.n_chirps * Strength(s, ch, b)
<1> DEFINE z == Strength(s, ch, b)
           m == f_cfg.n_chirps
           k == Turn(s, b) * c + s.direction[ch]
<1>1. MeanRemoved(RangeImage(s))[Place(ch, c, b)] = Scale(m * z, Quarter(k))
  BY MovingSample
<1>2. z \in Nat /\ k \in Int /\ m \in Nat \ {0}
  <2>1. z \in Nat /\ Turn(s, b) \in Int
    BY StrengthIsNatural
  <2>2. c \in Int /\ s.direction[ch] \in Int /\ m \in Nat \ {0}
    BY SceneTypes, SlimSizes
  <2> QED
    BY <2>1, <2>2
<1> HIDE DEF z, k, m
<1> DEFINE y == m * z
<1>3. y \in Nat /\ (z = 0 => y = 0) /\ (z # 0 => y # 0)
  BY <1>2
<1> HIDE DEF y
<1>4. Magnitude(Scale(y, Quarter(k))) = y
  <2>1. CASE y = 0
    BY <1>2, <2>1, NothingTurned
  <2>2. CASE y # 0
    <3>1. y \in Nat \ {0}
      BY <1>3, <2>2
    <3> QED
      BY <1>2, <3>1, TurnedPhase
  <2> QED
    BY <2>1, <2>2
<1> QED
  BY <1>1, <1>4 DEF y, z, m

(* ... and with no channel silent the range profile of these strengths.    *)
LEMMA ProfileOfMovers ==
    ASSUME NEW s \in Scenes, s.silent = {}, NEW first \in {0, 1}, NEW behind,
           NEW i \in Indices(f_cfg.n_range_bins - min_range_bin)
    PROVE  RangeProfile(MeanRemoved(RangeImage(s)), first, behind)[i]
            = (len_cch * (f_cfg.n_chirps - first)) * Strength(s, 0, i + min_range_bin)
<1> DEFINE m == f_cfg.n_chirps
           n == f_cfg.n_range_bins
           x == MeanRemoved(RangeImage(s))
           abs == [p \in DOMAIN x |-> Magnitude(x[p])]
           mean == MeanOverChannels(abs, f_cfg)
           b == i + min_range_bin
           z == Strength(s, 0, b)
<1>1. /\ b \in RangeBins /\ b # 0 /\ i \in RangeBins /\ n \in Nat \ {0} /\ b \in 0 .. n - 1
      /\ len_img = m * n /\ Channels = 0 .. 2 /\ Chirps = 0 .. m - 1 /\ i \in Int
      /\ min_range_bin \in Int /\ m \in Nat /\ m >= 16 /\ len_cch = 3 * m
  BY SlimSizes DEF Indices
<1>2. z \in Nat /\ \A ch \in Channels : Strength(s, ch, b) = z
  <2>1. \A ch \in Channels : Strength(s, ch, b) = z
    BY DEF Strength
  <2>2. 0 \in Channels
    BY <1>1
  <2> QED
    BY <2>1, <2>2, StrengthIsNatural
<1> HIDE DEF z
<1>3. \A ch \in Channels, c \in Chirps : abs[Place(ch, c, b)] = m * z
  <2> SUFFICES ASSUME NEW ch \in Channels, NEW c \in Chirps PROVE abs[Place(ch, c, b)] = m * z
    OBVIOUS
  <2>1. DOMAIN x = Indices(len_hfr)
    BY DEF MeanRemoved, RangeImage
  <2>2. Place(ch, c, b) \in DOMAIN x
    BY <1>1, <2>1, PlaceInFrame
  <2>3. Magnitude(x[Place(ch, c, b)]) = m * z
    BY <1>1, <1>2, MovingMagnitude
  <2> HIDE DEF x
  <2> QED
    BY <2>2, <2>3
<1> HIDE DEF abs, m
<1> DEFINE y == m * z
<1>4. y \in Nat
  BY <1>1, <1>2
<1> HIDE DEF y
<1>5. \A c \in Chirps : mean[c * n + b] = 3 * y
  <2> SUFFICES ASSUME NEW c \in Chirps PROVE mean[c * n + b] = 3 * y
    OBVIOUS
  <2> DEFINE e == c * n + b
             F == [ch \in 0 .. 2 |-> abs[ch * len_img + e]]
  <2>1. e \in Indices(len_img)
    <3>1. c \in Indices(m) /\ b \in Indices(n)
      BY <1>1 DEF Indices
    <3> HIDE DEF n, b
    <3>2. e \in Indices(m * n)
      BY <1>1, <3>1, PairOfIndex
    <3> QED
      BY <1>1, <3>2
  <2>2. Indices(f_cfg.n_channels) = 0 .. 2 /\ len_img = f_cfg.n_chirps * f_cfg.n_range_bins
    BY SlimSizes DEF Indices, len_img
  <2>3. mean[e] = SumOf(F)
    <3>1. mean = [j \in Indices(len_img) |-> SumOf([ch \in 0 .. 2 |-> abs[ch * len_img + j]])]
      BY <2>2 DEF MeanOverChannels
    <3> HIDE DEF mean, e
    <3> QED
      BY <2>1, <3>1
  <2>4. \A ch \in 0 .. 2 : F[ch] = y
    <3> SUFFICES ASSUME NEW ch \in 0 .. 2 PROVE abs[ch * len_img + e] = y
      OBVIOUS
    <3>1. ch * len_img + e = Place(ch, c, b)
      <4>1. ch * len_img \in Int /\ c * n \in Int /\ b \in Int
        BY <1>1
      <4>2. Place(ch, c, b) = ch * len_img + c * n + b
        BY DEF Place
      <4> HIDE DEF n, b
      <4> QED
        BY <4>1, <4>2
    <3> QED
      BY <1>1, <1>3, <3>1 DEF y
  <2>5. F \in [0 .. 2 -> Int]
    <3>1. F = [ch \in 0 .. 2 |-> F[ch]]
      OBVIOUS
    <3> HIDE DEF F
    <3> QED
      BY <1>4, <2>4, <3>1
  <2> HIDE DEF F, mean, e
  <2>6. SumOf(F) = F[0] + F[1] + F[2]
    BY <2>5, SumOfThree
  <2>7. F[0] = y /\ F[1] = y /\ F[2] = y
    BY <2>4
  <2> QED
    BY <1>4, <2>3, <2>6, <2>7 DEF e
<1> HIDE DEF mean
<1> DEFINE S == first .. m - 1
           G == [c \in S |-> mean[c * n + i + min_range_bin]]
<1>6. IsFiniteSet(S) /\ Cardinality(S) = m - first
  <2> DEFINE last == m - 1
  <2>1. first \in Int /\ last \in Int /\ first <= last /\ last - first + 1 = m - first
    BY <1>1
  <2> HIDE DEF last
  <2>2. IsFiniteSet(first .. last) /\ Cardinality(first .. last) = last - first + 1
    BY <2>1, SizeOfInterval
  <2> QED
    BY <2>1, <2>2 DEF last
<1>7. \A c \in S : G[c] = 3 * y
  <2> SUFFICES ASSUME NEW c \in S PROVE mean[c * n + i + min_range_bin] = 3 * y
    OBVIOUS
  <2>1. c \in Chirps /\ c \in Int
    BY <1>1
  <2>2. c * n \in Int
    BY <1>1, <2>1
  <2>3. c * n + i + min_range_bin = c * n + b
    BY <1>1, <2>2
  <2> QED
    BY <1>5, <2>1, <2>3
<1>8. G \in [S -> Int]
  <2>1. 3 * y \in Int
    BY <1>4
  <2>2. G = [c \in S |-> G[c]]
    OBVIOUS
  <2> HIDE DEF G, S
  <2> QED
    BY <1>7, <2>1, <2>2
<1>9. RangeProfile(x, first, behind)[i] = SumOf(G)
  <2>1. RangeProfile(x, first, behind)
        = [j \in RangeBins |->
            IF j + min_range_bin \in RangeBins
            THEN SumOf([c \in S |-> mean[c * n + j + min_range_bin]])
            ELSE behind[j]]
    BY DEF RangeProfile, mean, abs, m
  <2> HIDE DEF x, S
  <2> QED
    BY <1>1, <2>1
<1> HIDE DEF G, S
<1>10. SumOf(G) = (3 * y) * (m - first)
  <2> DEFINE c == 3 * y
  <2>1. c \in Int /\ \A j \in S : G[j] = c
    BY <1>4, <1>7
  <2> HIDE DEF c
  <2>2. SumOf(G) = c * Cardinality(S)
    BY <1>6, <1>8, <2>1, SumOfSame
  <2> QED
    BY <1>6, <2>2 DEF c
<1>11. (3 * y) * (m - first) = (len_cch * (m - first)) * z
  <2> DEFINE k == m - first
  <2>1. k \in Int /\ m \in Int /\ z \in Int
    BY <1>1, <1>2
  <2> HIDE DEF k
  <2>2. (3 * (m * z)) * k = ((3 * m) * k) * z
    BY <2>1
  <2> QED
    BY <1>1, <2>2 DEF k, y
<1> QED
  BY <1>9, <1>10, <1>11 DEF z, m

-----------------------------------------------------------------------------
(* filter_range_profile.                                                   *)

(* A profile, with nothing on either side of it.                           *)
Padded(profile, len) == [j \in Int |-> IF j \in Indices(len) THEN profile[j] ELSE 0]

LEMMA SmoothedIs ==
    ASSUME NEW len \in Nat, NEW profile, \A j \in Indices(len) : profile[j] \in Nat,
           NEW i \in Int, NEW q, q = Padded(profile, len)
    PROVE  /\ q \in [Int -> Nat]
           /\ Smoothed(profile, len, i)
                = q[i + 4] + 44 * q[i + 3] + 540 * q[i + 2] + 2420 * q[i + 1] + 3989 * q[i]
                    + 2420 * q[i - 1] + 540 * q[i - 2] + 44 * q[i - 3] + q[i - 4]
<1> DEFINE D == {j \in 0 .. 8 : i + 4 - j \in Indices(len)}
           F == [k \in D |-> Weights[k + 1] * profile[i + 4 - k]]
           T == [k \in 0 .. 8 |-> IF k \in D THEN F[k] ELSE 0]
<1>1. q \in [Int -> Nat]
  BY DEF Padded
<1>2. \A k \in 0 .. 8 : /\ Weights[k + 1] \in Nat
                        /\ Weights[k + 1] = IF k \in {0, 8} THEN 1 ELSE IF k \in {1, 7} THEN 44
                                ELSE IF k \in {2, 6} THEN 540 ELSE IF k \in {3, 5} THEN 2420 ELSE 3989
  BY DEF Weights
<1>3. \A k \in 0 .. 8 : T[k] = Weights[k + 1] * q[i + 4 - k]
  <2> SUFFICES ASSUME NEW k \in 0 .. 8 PROVE T[k] = Weights[k + 1] * q[i + 4 - k]
    OBVIOUS
  <2> DEFINE j == i + 4 - k
             w == Weights[k + 1]
  <2>1. j \in Int /\ w \in Nat /\ (k \in D <=> j \in Indices(len))
    BY <1>2
  <2>2. T[k] = IF k \in D THEN w * profile[j] ELSE 0
    OBVIOUS
  <2>3. q[j] = IF j \in Indices(len) THEN profile[j] ELSE 0
    BY <2>1 DEF Padded
  <2> HIDE DEF T, D, F, j, w
  <2>4. T[k] = w * q[j]
    BY <2>1, <2>2, <2>3
  <2> QED
    BY <2>4 DEF j, w
<1>4. F \in [D -> Int]
  <2>1. \A k \in D : Weights[k + 1] \in Nat /\ profile[i + 4 - k] \in Nat
    BY <1>2
  <2>2. \A k \in D : Weights[k + 1] * profile[i + 4 - k] \in Int
    BY <2>1
  <2> QED
    BY <2>2
<1>5. Smoothed(profile, len, i) = SumOf(F)
  BY DEF Smoothed
<1>6. D \in SUBSET (0 .. 8) /\ T = [k \in 0 .. 8 |-> IF k \in D THEN F[k] ELSE 0]
  OBVIOUS
<1> HIDE DEF T, F, D
<1>7. SumOf(F) = T[0] + T[1] + T[2] + T[3] + T[4] + T[5] + T[6] + T[7] + T[8]
  BY <1>4, <1>6, SumOfNine
<1>8. /\ T[0] = Weights[1] * q[i + 4] /\ T[1] = Weights[2] * q[i + 3] /\ T[2] = Weights[3] * q[i + 2]
      /\ T[3] = Weights[4] * q[i + 1] /\ T[4] = Weights[5] * q[i] /\ T[5] = Weights[6] * q[i - 1]
      /\ T[6] = Weights[7] * q[i - 2] /\ T[7] = Weights[8] * q[i - 3] /\ T[8] = Weights[9] * q[i - 4]
  <2>1. /\ i + 4 - 0 = i + 4 /\ i + 4 - 1 = i + 3 /\ i + 4 - 2 = i + 2 /\ i + 4 - 3 = i + 1
        /\ i + 4 - 4 = i /\ i + 4 - 5 = i - 1 /\ i + 4 - 6 = i - 2 /\ i + 4 - 7 = i - 3
        /\ i + 4 - 8 = i - 4
        /\ 0 + 1 = 1 /\ 1 + 1 = 2 /\ 2 + 1 = 3 /\ 3 + 1 = 4 /\ 4 + 1 = 5 /\ 5 + 1 = 6
        /\ 6 + 1 = 7 /\ 7 + 1 = 8 /\ 8 + 1 = 9
    OBVIOUS
  <2>2. /\ 0 \in 0 .. 8 /\ 1 \in 0 .. 8 /\ 2 \in 0 .. 8 /\ 3 \in 0 .. 8 /\ 4 \in 0 .. 8
        /\ 5 \in 0 .. 8 /\ 6 \in 0 .. 8 /\ 7 \in 0 .. 8 /\ 8 \in 0 .. 8
    OBVIOUS
  <2> QED
    BY <1>3, <2>1, <2>2, Zenon
<1>9. /\ Weights[1] = 1 /\ Weights[2] = 44 /\ Weights[3] = 540 /\ Weights[4] = 2420
      /\ Weights[5] = 3989 /\ Weights[6] = 2420 /\ Weights[7] = 540 /\ Weights[8] = 44
      /\ Weights[9] = 1
  BY DEF Weights
<1>10. /\ q[i + 4] \in Nat /\ q[i + 3] \in Nat /\ q[i + 2] \in Nat /\ q[i + 1] \in Nat /\ q[i] \in Nat
       /\ q[i - 1] \in Nat /\ q[i - 2] \in Nat /\ q[i - 3] \in Nat /\ q[i - 4] \in Nat
  BY <1>1
<1>11. Smoothed(profile, len, i)
         = q[i + 4] + 44 * q[i + 3] + 540 * q[i + 2] + 2420 * q[i + 1] + 3989 * q[i]
             + 2420 * q[i - 1] + 540 * q[i - 2] + 44 * q[i - 3] + q[i - 4]
  BY <1>5, <1>7, <1>8, <1>9, <1>10
<1> QED
  BY <1>1, <1>11

LEMMA LeastOf ==
    ASSUME NEW S \in SUBSET Nat, S # {}
    PROVE  Min(S) \in S /\ \A y \in S : Min(S) <= y
<1>1. \E x \in S : \A y \in S : x <= y
  BY LeastNatural
<1> QED
  BY <1>1 DEF Min

LEMMA LargerOf ==
    ASSUME NEW a \in Nat, NEW b \in Nat
    PROVE  Max({a, b}) \in {a, b} /\ a <= Max({a, b}) /\ b <= Max({a, b})
<1>1. \E x \in {a, b} : \A y \in {a, b} : y <= x
  BY SMT
<1> QED
  BY <1>1 DEF Max

(* What is found is in the profile.                                        *)
LEMMA FilterInProfile ==
    ASSUME NEW len \in Nat, NEW profile, NEW peak \in Indices(len), NEW least
    PROVE  FilterRangeProfile(profile, len, peak, least) \in Indices(len)
<1> DEFINE floor == Max({1000 * profile[peak], least})
           Kept(i) == LET v == Smoothed(profile, len, i) IN IF v < floor THEN 0 ELSE v
           maxima == {i \in 1 .. len - 2 : Kept(i - 1) < Kept(i) /\ Kept(i + 1) < Kept(i)}
<1>1. FilterRangeProfile(profile, len, peak, least) = IF maxima = {} THEN peak ELSE Min(maxima)
  BY DEF FilterRangeProfile
<1>2. maxima \in SUBSET (1 .. len - 2)
  OBVIOUS
<1> HIDE DEF maxima
<1>3. CASE maxima # {}
  <2>1. maxima \in SUBSET Nat
    BY <1>2
  <2>2. Min(maxima) \in maxima
    BY <1>3, <2>1, LeastOf
  <2>3. Min(maxima) \in Indices(len)
    <3>1. \A y \in 1 .. len - 2 : y \in Indices(len)
      BY DEF Indices
    <3> QED
      BY <1>2, <2>2, <3>1
  <2> QED
    BY <1>1, <1>3, <2>3
<1> QED
  BY <1>1, <1>3

(* The nearest of several peaks that are apart is found, or the only one   *)
(* wherever it is.                                                         *)
LEMMA NearestPeakIsFound ==
    ASSUME NEW len \in Nat, len >= 3, NEW profile, \A j \in Indices(len) : profile[j] \in Nat,
           NEW a \in Indices(len), profile[a] > 0,
           \A j \in Indices(len) : j < a => profile[j] = 0,
           \A i, j \in Indices(len) : i # j /\ profile[i] # 0 /\ profile[j] # 0 =>
                Size(i - j) >= 3 /\ profile[i] <= 2 * profile[j],
           (\E j \in Indices(len) : j # a /\ profile[j] # 0) => a \in 1 .. len - 2,
           NEW peak \in ArgMaxima(profile, len),
           NEW least \in Nat, 3989 * profile[a] >= least
    PROVE  FilterRangeProfile(profile, len, peak, least) = a
<1> DEFINE floor == Max({1000 * profile[peak], least})
           S(i) == Smoothed(profile, len, i)
           Kept(i) == LET v == S(i) IN IF v < floor THEN 0 ELSE v
           maxima == {i \in 1 .. len - 2 : Kept(i - 1) < Kept(i) /\ Kept(i + 1) < Kept(i)}
           q == Padded(profile, len)
           p == profile[a]
           M == profile[peak]
<1>1. FilterRangeProfile(profile, len, peak, least) = IF maxima = {} THEN peak ELSE Min(maxima)
  BY DEF FilterRangeProfile
<1>2. a \in 0 .. len - 1 /\ Indices(len) = 0 .. len - 1 /\ p \in Nat /\ p >= 1
  BY DEF Indices
<1>3. q \in [Int -> Nat] /\ q[a] = p
      /\ \A j \in Int : q[j] = IF j \in Indices(len) THEN profile[j] ELSE 0
  <2>1. \A j \in Int : q[j] = IF j \in Indices(len) THEN profile[j] ELSE 0
    BY DEF Padded
  <2>2. \A j \in Int : q[j] \in Nat
    BY <2>1
  <2>3. q = [j \in Int |-> q[j]]
    BY DEF Padded
  <2> HIDE DEF q
  <2> QED
    BY <1>2, <2>1, <2>2, <2>3
<1>4. \A i \in Int : S(i) = q[i + 4] + 44 * q[i + 3] + 540 * q[i + 2] + 2420 * q[i + 1] + 3989 * q[i]
                    + 2420 * q[i - 1] + 540 * q[i - 2] + 44 * q[i - 3] + q[i - 4]
  <2> SUFFICES ASSUME NEW i \in Int
               PROVE  S(i) = q[i + 4] + 44 * q[i + 3] + 540 * q[i + 2] + 2420 * q[i + 1] + 3989 * q[i]
                    + 2420 * q[i - 1] + 540 * q[i - 2] + 44 * q[i - 3] + q[i - 4]
    OBVIOUS
  <2> QED
    BY SmoothedIs
<1>5. \A i \in Int : S(i) \in Nat
  <2> SUFFICES ASSUME NEW i \in Int PROVE S(i) \in Nat
    OBVIOUS
  <2> HIDE DEF q, S
  <2>1. /\ q[i + 4] \in Nat /\ q[i + 3] \in Nat /\ q[i + 2] \in Nat /\ q[i + 1] \in Nat /\ q[i] \in Nat
        /\ q[i - 1] \in Nat /\ q[i - 2] \in Nat /\ q[i - 3] \in Nat /\ q[i - 4] \in Nat
    BY <1>3
  <2>2. S(i) = q[i + 4] + 44 * q[i + 3] + 540 * q[i + 2] + 2420 * q[i + 1] + 3989 * q[i]
                    + 2420 * q[i - 1] + 540 * q[i - 2] + 44 * q[i - 3] + q[i - 4]
    BY <1>4
  <2>3. /\ 44 * q[i + 3] \in Nat /\ 540 * q[i + 2] \in Nat /\ 2420 * q[i + 1] \in Nat
        /\ 3989 * q[i] \in Nat /\ 2420 * q[i - 1] \in Nat /\ 540 * q[i - 2] \in Nat
        /\ 44 * q[i - 3] \in Nat
    BY <2>1
  <2> QED
    BY <2>1, <2>2, <2>3
<1>6. peak \in Indices(len) /\ M \in Nat /\ p <= M /\ M <= 2 * p
  <2>1. peak \in Indices(len) /\ p <= M
    BY DEF ArgMaxima
  <2>2. M \in Nat
    BY <2>1
  <2>3. M <= 2 * p
    <3>1. CASE peak = a
      BY <1>2, <3>1
    <3>2. CASE peak # a
      <4>1. M # 0 /\ p # 0
        BY <1>2, <2>1, <2>2
      <4> QED
        BY <2>1, <3>2, <4>1
    <3> QED
      BY <3>1, <3>2
  <2> QED
    BY <2>1, <2>2, <2>3
<1>7. floor \in Nat /\ floor <= 3989 * p
  <2> DEFINE f == 1000 * M
             h == 3989 * p
  <2>1. f \in Nat /\ h \in Nat /\ f <= h /\ least <= h
    BY <1>2, <1>6
  <2> HIDE DEF f, h, p, M
  <2>2. Max({f, least}) \in {f, least}
    BY <2>1, LargerOf
  <2> QED
    BY <2>1, <2>2 DEF f, h, M
<1>8. \A j \in Int : /\ j < a => q[j] = 0
                     /\ j # a /\ q[j] # 0 => (j - a >= 3 /\ q[j] <= 2 * p)
  <2> SUFFICES ASSUME NEW j \in Int
               PROVE  /\ j < a => q[j] = 0
                      /\ j # a /\ q[j] # 0 => (j - a >= 3 /\ q[j] <= 2 * p)
    OBVIOUS
  <2> HIDE DEF q, p
  <2>1. ASSUME j < a PROVE q[j] = 0
    BY <1>3, <2>1
  <2>2. ASSUME j # a, q[j] # 0 PROVE j - a >= 3 /\ q[j] <= 2 * p
    <3>1. j \in Indices(len) /\ profile[j] = q[j]
      BY <1>3, <2>2
    <3>2. profile[a] # 0
      BY <1>2 DEF p
    <3>3. Size(j - a) >= 3 /\ q[j] <= 2 * p
      BY <2>2, <3>1, <3>2 DEF p
    <3>4. j >= a
      BY <1>2, <2>1, <2>2
    <3> QED
      BY <1>2, <3>3, <3>4 DEF Size
  <2> QED
    BY <2>1, <2>2
<1>9. \A i, j \in Int : i # j /\ q[i] # 0 /\ q[j] # 0 => Size(i - j) >= 3
  <2> HIDE DEF q
  <2> QED
    BY <1>3
<1> HIDE DEF S, q, p, M, floor
<1>10. \A i, j \in Int : S(i) <= S(j) => Kept(i) <= Kept(j)
  <2>1. floor \in Nat
    BY <1>7
  <2> QED
    BY <1>5, <2>1
<1>11. \A i \in Int : Kept(i) \in Nat
  BY <1>5
<1>12. ASSUME NEW i \in Int, i < a PROVE Kept(i) <= Kept(i + 1)
  <2>1. q[i] = 0 /\ q[i - 1] = 0 /\ q[i - 2] = 0 /\ q[i - 3] = 0 /\ q[i - 4] = 0
    <3>1. i < a /\ i - 1 < a /\ i - 2 < a /\ i - 3 < a /\ i - 4 < a
      BY <1>2, <1>12
    <3> QED
      BY <1>8, <3>1
  <2>2. /\ q[i + 1] \in Nat /\ q[i + 2] \in Nat /\ q[i + 3] \in Nat /\ q[i + 4] \in Nat
        /\ q[i + 5] \in Nat
    BY <1>3
  <2>3. S(i) = q[i + 4] + 44 * q[i + 3] + 540 * q[i + 2] + 2420 * q[i + 1]
    BY <1>4, <2>1, <2>2
  <2>4. S(i + 1) = q[i + 5] + 44 * q[i + 4] + 540 * q[i + 3] + 2420 * q[i + 2] + 3989 * q[i + 1]
    <3>1. /\ (i + 1) + 4 = i + 5 /\ (i + 1) + 3 = i + 4 /\ (i + 1) + 2 = i + 3 /\ (i + 1) + 1 = i + 2
          /\ (i + 1) - 1 = i /\ (i + 1) - 2 = i - 1 /\ (i + 1) - 3 = i - 2 /\ (i + 1) - 4 = i - 3
          /\ i + 1 \in Int
      OBVIOUS
    <3>2. S(i + 1) = q[i + 5] + 44 * q[i + 4] + 540 * q[i + 3] + 2420 * q[i + 2] + 3989 * q[i + 1]
                    + 2420 * q[i] + 540 * q[i - 1] + 44 * q[i - 2] + q[i - 3]
      BY <1>4, <3>1
    <3> QED
      BY <2>1, <2>2, <3>2
  <2>5. S(i) <= S(i + 1)
    BY <2>2, <2>3, <2>4
  <2> HIDE DEF Kept
  <2> QED
    BY <1>10, <2>5
<1>13. \A i \in maxima : i \in 1 .. len - 2 /\ i >= a
  <2> SUFFICES ASSUME NEW i \in maxima, i < a PROVE FALSE
    BY <1>2
  <2>1. i \in Int /\ Kept(i + 1) < Kept(i)
    OBVIOUS
  <2> HIDE DEF Kept, maxima
  <2> QED
    BY <1>11, <1>12, <2>1
<1>14. CASE a \in 1 .. len - 2
  <2>1. /\ q[a] = p /\ q[a - 1] = 0 /\ q[a - 2] = 0 /\ q[a - 3] = 0 /\ q[a - 4] = 0 /\ q[a - 5] = 0
        /\ q[a + 1] = 0 /\ q[a + 2] = 0
    <3>1. a - 1 < a /\ a - 2 < a /\ a - 3 < a /\ a - 4 < a /\ a - 5 < a
      BY <1>2
    <3>2. (a + 1) - a < 3 /\ a + 1 # a /\ (a + 2) - a < 3 /\ a + 2 # a
      BY <1>2
    <3>3. a \in Int
      BY <1>2
    <3>4. q[a + 1] = 0 /\ q[a + 2] = 0
      BY <1>8, <3>2, <3>3
    <3> QED
      BY <1>3, <1>8, <3>1, <3>3, <3>4
  <2>2. /\ q[a + 3] \in Nat /\ q[a + 4] \in Nat /\ q[a + 5] \in Nat
        /\ q[a + 3] <= 2 * p /\ q[a + 4] <= 2 * p /\ q[a + 5] <= 2 * p
        /\ q[a + 3] # 0 => q[a + 4] = 0 /\ q[a + 5] = 0
        /\ q[a + 4] # 0 => q[a + 5] = 0
    <3>1. /\ a + 3 \in Int /\ a + 4 \in Int /\ a + 5 \in Int /\ a + 3 # a /\ a + 4 # a /\ a + 5 # a
          /\ a + 3 # a + 4 /\ a + 3 # a + 5 /\ a + 4 # a + 5
      BY <1>2
    <3>2. /\ ~(Size((a + 3) - (a + 4)) >= 3) /\ ~(Size((a + 3) - (a + 5)) >= 3)
          /\ ~(Size((a + 4) - (a + 5)) >= 3)
      BY <1>2 DEF Size
    <3>3. q[a + 3] \in Nat /\ q[a + 4] \in Nat /\ q[a + 5] \in Nat
      BY <1>3, <3>1
    <3>4. q[a + 3] <= 2 * p /\ q[a + 4] <= 2 * p /\ q[a + 5] <= 2 * p
      BY <1>2, <1>8, <3>1, <3>3
    <3>5. /\ q[a + 3] # 0 => q[a + 4] = 0 /\ q[a + 5] = 0
          /\ q[a + 4] # 0 => q[a + 5] = 0
      BY <1>9, <3>1, <3>2
    <3> QED
      BY <3>3, <3>4, <3>5
  <2>3. S(a) = q[a + 4] + 44 * q[a + 3] + 3989 * p
    <3>1. a \in Int
      BY <1>2
    <3>2. S(a) = q[a + 4] + 44 * q[a + 3] + 540 * q[a + 2] + 2420 * q[a + 1] + 3989 * q[a]
                    + 2420 * q[a - 1] + 540 * q[a - 2] + 44 * q[a - 3] + q[a - 4]
      BY <1>4, <3>1
    <3> QED
      BY <1>2, <2>1, <2>2, <3>2
  <2>4. S(a - 1) = q[a + 3] + 2420 * p
    <3>1. /\ (a - 1) + 4 = a + 3 /\ (a - 1) + 3 = a + 2 /\ (a - 1) + 2 = a + 1 /\ (a - 1) + 1 = a
          /\ (a - 1) - 1 = a - 2 /\ (a - 1) - 2 = a - 3 /\ (a - 1) - 3 = a - 4 /\ (a - 1) - 4 = a - 5
          /\ a - 1 \in Int
      BY <1>2
    <3>2. S(a - 1) = q[a + 3] + 44 * q[a + 2] + 540 * q[a + 1] + 2420 * q[a] + 3989 * q[a - 1]
                    + 2420 * q[a - 2] + 540 * q[a - 3] + 44 * q[a - 4] + q[a - 5]
      BY <1>4, <3>1
    <3> QED
      BY <1>2, <2>1, <2>2, <3>2
  <2>5. S(a + 1) = q[a + 5] + 44 * q[a + 4] + 540 * q[a + 3] + 2420 * p
    <3>1. /\ (a + 1) + 4 = a + 5 /\ (a + 1) + 3 = a + 4 /\ (a + 1) + 2 = a + 3 /\ (a + 1) + 1 = a + 2
          /\ (a + 1) - 1 = a /\ (a + 1) - 2 = a - 1 /\ (a + 1) - 3 = a - 2 /\ (a + 1) - 4 = a - 3
          /\ a + 1 \in Int
      BY <1>2
    <3>2. S(a + 1) = q[a + 5] + 44 * q[a + 4] + 540 * q[a + 3] + 2420 * q[a + 2] + 3989 * q[a + 1]
                    + 2420 * q[a] + 540 * q[a - 1] + 44 * q[a - 2] + q[a - 3]
      BY <1>4, <3>1
    <3>3. q[a + 5] \in Int /\ 44 * q[a + 4] \in Int /\ 540 * q[a + 3] \in Int /\ p \in Int
      BY <1>2, <2>2
    <3> QED
      BY <2>1, <3>2, <3>3
  <2>6. S(a) >= floor /\ S(a) > S(a - 1) /\ S(a) > S(a + 1) /\ S(a) > 0 /\ floor \in Nat
    <3>1. p \in Nat /\ p >= 1 /\ floor \in Nat /\ floor <= 3989 * p
      BY <1>2, <1>7
    <3>2. S(a) >= 3989 * p
      BY <2>2, <2>3, <3>1
    <3>3. S(a - 1) <= 2422 * p
      BY <2>2, <2>4, <3>1
    <3>4. S(a + 1) <= 3500 * p
      <4>1. 540 * q[a + 3] + 44 * q[a + 4] + q[a + 5] <= 1080 * p
        <5>1. q[a + 3] \in Nat /\ q[a + 4] \in Nat /\ q[a + 5] \in Nat
          BY <2>2
        <5>2. CASE q[a + 3] # 0
          BY <2>2, <3>1, <5>1, <5>2
        <5>3. CASE q[a + 3] = 0 /\ q[a + 4] # 0
          BY <2>2, <3>1, <5>1, <5>3
        <5>4. CASE q[a + 3] = 0 /\ q[a + 4] = 0
          <6>1. q[a + 5] <= 2 * p
            BY <2>2
          <6> QED
            BY <3>1, <5>1, <5>4, <6>1
        <5> QED
          BY <5>2, <5>3, <5>4
      <4>2. q[a + 3] \in Int /\ q[a + 4] \in Int /\ q[a + 5] \in Int
        BY <2>2
      <4> QED
        BY <2>5, <3>1, <4>1, <4>2
    <3>5. S(a) \in Nat /\ S(a - 1) \in Nat /\ S(a + 1) \in Nat
      <4>1. a \in Int /\ a - 1 \in Int /\ a + 1 \in Int
        BY <1>2
      <4> QED
        BY <1>5, <4>1
    <3> QED
      BY <3>1, <3>2, <3>3, <3>4, <3>5
  <2>7. Kept(a - 1) < Kept(a) /\ Kept(a + 1) < Kept(a)
    <3>1. S(a) \in Nat /\ S(a - 1) \in Nat /\ S(a + 1) \in Nat
      <4>1. a \in Int /\ a - 1 \in Int /\ a + 1 \in Int
        BY <1>2
      <4> QED
        BY <1>5, <4>1
    <3> QED
      BY <2>6, <3>1
  <2>8. a \in maxima
    BY <1>14, <2>7
  <2>9. Min(maxima) = a
    <3>1. maxima \in SUBSET Nat /\ maxima # {}
      <4>1. 1 .. len - 2 \subseteq Nat
        OBVIOUS
      <4> HIDE DEF maxima
      <4> QED
        BY <1>13, <2>8, <4>1
    <3> HIDE DEF maxima
    <3>2. Min(maxima) \in maxima /\ Min(maxima) <= a
      BY <2>8, <3>1, LeastOf
    <3> QED
      BY <1>2, <1>13, <3>2
  <2> HIDE DEF maxima
  <2> QED
    BY <1>1, <2>8, <2>9
<1>15. CASE a \notin 1 .. len - 2
  <2>1. \A j \in Int : j # a => q[j] = 0
    BY <1>3, <1>15
  <2>2. peak = a
    <3>1. q[peak] = M /\ peak \in Int
      BY <1>2, <1>3, <1>6 DEF M
    <3> QED
      BY <1>2, <1>6, <2>1, <3>1
  <2>3. maxima = {}
    <3> SUFFICES ASSUME NEW i \in maxima PROVE FALSE
      OBVIOUS
    <3>1. i \in 1 .. len - 2 /\ i >= a /\ Kept(i - 1) < Kept(i)
      BY <1>13
    <3>2. a = 0
      BY <1>2, <1>15, <3>1
    <3>3. S(i) <= S(i - 1)
      <4> DEFINE T(j) == q[j + 4] + 44 * q[j + 3] + 540 * q[j + 2] + 2420 * q[j + 1] + 3989 * q[j]
                    + 2420 * q[j - 1] + 540 * q[j - 2] + 44 * q[j - 3] + q[j - 4]
      <4>1. /\ q[i] = 0 /\ q[i + 1] = 0 /\ q[i + 2] = 0 /\ q[i + 3] = 0 /\ q[i + 4] = 0
        BY <2>1, <3>1, <3>2
      <4>2. S(i) = 2420 * q[i - 1] + 540 * q[i - 2] + 44 * q[i - 3] + q[i - 4]
        <5>1. /\ q[i - 1] \in Nat /\ q[i - 2] \in Nat /\ q[i - 3] \in Nat /\ q[i - 4] \in Nat
              /\ i \in Int
          BY <1>3, <3>1
        <5> QED
          BY <1>4, <4>1, <5>1
      <4>3. S(i - 1) = 3989 * q[i - 1] + 2420 * q[i - 2] + 540 * q[i - 3] + 44 * q[i - 4] + q[i - 5]
        <5>1. /\ (i - 1) + 4 = i + 3 /\ (i - 1) + 3 = i + 2 /\ (i - 1) + 2 = i + 1 /\ (i - 1) + 1 = i
              /\ (i - 1) - 1 = i - 2 /\ (i - 1) - 2 = i - 3 /\ (i - 1) - 3 = i - 4
              /\ (i - 1) - 4 = i - 5 /\ i - 1 \in Int
          BY <3>1
        <5>2. S(i - 1) = q[i + 3] + 44 * q[i + 2] + 540 * q[i + 1] + 2420 * q[i] + 3989 * q[i - 1]
                    + 2420 * q[i - 2] + 540 * q[i - 3] + 44 * q[i - 4] + q[i - 5]
          BY <1>4, <5>1
        <5>3. /\ q[i - 1] \in Nat /\ q[i - 2] \in Nat /\ q[i - 3] \in Nat /\ q[i - 4] \in Nat
              /\ q[i - 5] \in Nat
          BY <1>3, <3>1
        <5> QED
          BY <4>1, <5>2, <5>3
      <4>4. /\ q[i - 1] \in Nat /\ q[i - 2] \in Nat /\ q[i - 3] \in Nat /\ q[i - 4] \in Nat
            /\ q[i - 5] \in Nat
        BY <1>3, <3>1
      <4> QED
        BY <4>2, <4>3, <4>4
    <3>4. i \in Int /\ i - 1 \in Int
      BY <3>1
    <3> HIDE DEF Kept, maxima
    <3> QED
      BY <1>10, <1>11, <3>1, <3>3, <3>4
  <2> QED
    BY <1>1, <2>2, <2>3
<1> QED
  BY <1>14, <1>15

LEMMA WeightedAtMost ==
    ASSUME NEW M \in Nat, NEW a \in 0 .. M, NEW b \in 0 .. M, NEW c \in 0 .. M, NEW d \in 0 .. M,
           NEW e \in 0 .. M, NEW f \in 0 .. M, NEW g \in 0 .. M, NEW h \in 0 .. M, NEW i \in 0 .. M,
           NEW w,
           w = a + 44 * b + 540 * c + 2420 * d + 3989 * e + 2420 * f + 540 * g + 44 * h + i
    PROVE  w \in Int /\ w <= 9999 * M
BY SMT

(* Where nothing reaches the floor the peak is the answer.                 *)
LEMMA PeakIsFound ==
    ASSUME NEW len \in Nat, NEW profile, \A j \in Indices(len) : profile[j] \in Nat,
           NEW peak \in ArgMaxima(profile, len),
           NEW least \in Nat, 9999 * profile[peak] < least
    PROVE  FilterRangeProfile(profile, len, peak, least) = peak
<1> DEFINE M == profile[peak]
           floor == Max({1000 * M, least})
           S(i) == Smoothed(profile, len, i)
           Kept(i) == LET v == S(i) IN IF v < floor THEN 0 ELSE v
           maxima == {i \in 1 .. len - 2 : Kept(i - 1) < Kept(i) /\ Kept(i + 1) < Kept(i)}
           q == Padded(profile, len)
<1>1. FilterRangeProfile(profile, len, peak, least) = IF maxima = {} THEN peak ELSE Min(maxima)
  BY DEF FilterRangeProfile
<1>2. peak \in Indices(len) /\ M \in Nat /\ \A j \in Indices(len) : profile[j] <= M
  <2>1. peak \in Indices(len) /\ \A j \in Indices(len) : profile[j] <= M
    BY DEF ArgMaxima
  <2> QED
    BY <2>1
<1>3. least <= floor
  <2> DEFINE f == 1000 * M
  <2>1. f \in Nat
    BY <1>2
  <2> HIDE DEF f
  <2> QED
    BY <2>1, LargerOf DEF f
<1>4. \A j \in Int : q[j] \in Nat /\ q[j] <= M
  <2> SUFFICES ASSUME NEW j \in Int PROVE q[j] \in Nat /\ q[j] <= M
    OBVIOUS
  <2>1. q[j] = IF j \in Indices(len) THEN profile[j] ELSE 0
    BY DEF Padded
  <2> HIDE DEF q, M
  <2> QED
    BY <1>2, <2>1
<1>5. ASSUME NEW i \in Int PROVE S(i) \in Int /\ S(i) < least
  <2> DEFINE a == q[i + 4]
             b == q[i + 3]
             c == q[i + 2]
             d == q[i + 1]
             e == q[i]
             f == q[i - 1]
             g == q[i - 2]
             h == q[i - 3]
             o == q[i - 4]
             w == S(i)
  <2>1. w = a + 44 * b + 540 * c + 2420 * d + 3989 * e + 2420 * f + 540 * g + 44 * h + o
    BY SmoothedIs
  <2> HIDE DEF q, S, M
  <2>2. \A k \in Int : q[k] \in 0 .. M
    BY <1>2, <1>4
  <2>3. /\ a \in 0 .. M /\ b \in 0 .. M /\ c \in 0 .. M /\ d \in 0 .. M /\ e \in 0 .. M
        /\ f \in 0 .. M /\ g \in 0 .. M /\ h \in 0 .. M /\ o \in 0 .. M
    BY <2>2
  <2>4. 9999 * M < least
    BY DEF M
  <2> HIDE DEF a, b, c, d, e, f, g, h, o, w
  <2>5. w \in Int /\ w <= 9999 * M
    BY <1>2, <2>1, <2>3, WeightedAtMost
  <2>6. w \in Int /\ w < least
    BY <1>2, <2>4, <2>5
  <2> QED
    BY <2>6 DEF w
<1> HIDE DEF S, M, floor
<1>6. floor \in Int
  <2>1. 1000 * M \in Nat
    BY <1>2
  <2>2. Max({1000 * M, least}) \in {1000 * M, least}
    BY <2>1, LargerOf
  <2> QED
    BY <2>1, <2>2 DEF floor
<1>7. \A i \in Int : Kept(i) = 0
  BY <1>3, <1>5, <1>6
<1>8. maxima = {}
  <2> HIDE DEF Kept
  <2> QED
    BY <1>7
<1> QED
  BY <1>1, <1>8

(* The nearest target that moves.                                          *)
LEMMA NearestIs ==
    ASSUME NEW s \in Scenes, Moving(s) # {}
    PROVE  Nearest(s) \in Moving(s) /\ \A u \in Moving(s) : Nearest(s).bin <= u.bin
<1> DEFINE bins == {t.bin : t \in Moving(s)}
<1>1. \A t \in Moving(s) : t.bin \in Nat
  BY SceneTypes, SlimSizes DEF Moving
<1>2. bins \in SUBSET Nat /\ bins # {}
  BY <1>1
<1>3. PICK b \in bins : \A y \in bins : b <= y
  <2> HIDE DEF bins
  <2> QED
    BY <1>2, LeastNatural
<1>4. \E t \in Moving(s) : \A u \in Moving(s) : t.bin <= u.bin
  BY <1>3
<1> QED
  BY <1>4 DEF Nearest

(* Of several that are apart none is in a border bin.                      *)
LEMMA SeveralInside ==
    ASSUME NEW s \in Scenes, Apart(s), NEW t \in Moving(s), NEW u \in Moving(s), t # u
    PROVE  t.bin \in min_range_bin + 1 .. f_cfg.n_range_bins - 2
<1> DEFINE S == Moving(s)
           f == [x \in S |-> x.bin]
<1>1. IsFiniteSet(RangeBins)
  <2>1. RangeBins = 0 .. f_cfg.n_range_bins - 1 /\ f_cfg.n_range_bins - 1 \in Int /\ 0 \in Int
    BY SlimSizes
  <2> QED
    BY <2>1, FS_Interval
<1>2. \A x \in S : x.bin \in RangeBins
  BY SceneTypes DEF Moving
<1>3. \A x, y \in S : x.bin = y.bin => x = y
  BY SceneTypes DEF Moving
<1>4. f \in Injection(S, RangeBins)
  BY <1>2, <1>3 DEF Injection, IsInjective
<1>5. IsFiniteSet(S)
  <2> HIDE DEF f, S
  <2> QED
    BY <1>1, <1>4, FS_Injection
<1>6. Cardinality({t, u}) = 2
  <2>1. IsFiniteSet({t}) /\ Cardinality({t}) = 1
    BY FS_Singleton
  <2>2. {t, u} = {t} \cup {u} /\ u \notin {t}
    OBVIOUS
  <2>3. Cardinality({t} \cup {u}) = 1 + 1
    BY <2>1, <2>2, FS_AddElement
  <2> QED
    BY <2>2, <2>3
<1>7. Cardinality(S) > 1
  <2>1. {t, u} \in SUBSET S
    OBVIOUS
  <2> HIDE DEF S
  <2>2. Cardinality({t, u}) <= Cardinality(S) /\ Cardinality(S) \in Nat
    BY <1>5, <2>1, FS_Subset, FS_CardinalityType
  <2> QED
    BY <1>6, <2>2
<1> QED
  BY <1>7 DEF Apart

(* Where the range profile is strong, something moves.                     *)
LEMMA StrongWhereMoving ==
    ASSUME NEW s \in Scenes, s.silent = {}, NEW b \in RangeBins, b >= min_range_bin
    PROVE  /\ Strength(s, 0, b) # 0 => \E t \in Moving(s) : t.bin = b /\ Strength(s, 0, b) = t.size
           /\ \A t \in Moving(s) : t.bin = b => Strength(s, 0, b) = t.size /\ Turn(s, b) = t.velocity
           /\ Strength(s, 0, b) \in Nat
<1>0. 0 \in Channels
  BY SlimSizes
<1>1. ASSUME NEW t \in s.targets, t.velocity % 4 # 0, t.bin = b
      PROVE  Strength(s, 0, b) = t.size /\ Turn(s, b) = t.velocity
  BY <1>0, <1>1, OneMover
<1>2. ASSUME Strength(s, 0, b) # 0
      PROVE  \E t \in Moving(s) : t.bin = b /\ Strength(s, 0, b) = t.size
  <2>1. PICK t \in Mover(s, b) : TRUE
    BY <1>2 DEF Strength
  <2>2. t \in s.targets /\ t.velocity % 4 # 0 /\ t.bin = b
    BY <2>1 DEF Mover
  <2>3. t \in Moving(s)
    BY <2>2 DEF Moving
  <2> QED
    BY <1>1, <2>2, <2>3
<1>3. Strength(s, 0, b) \in Nat
  BY <1>0, StrengthIsNatural
<1>4. \A t \in Moving(s) : t.bin = b => Strength(s, 0, b) = t.size /\ Turn(s, b) = t.velocity
  BY <1>1 DEF Moving
<1> QED
  BY <1>2, <1>3, <1>4

(* A range profile of what moves.                                          *)
LEMMA MoversInProfile ==
    ASSUME NEW s \in Scenes, s.silent = {}, NEW k \in Nat \ {0}, NEW profile,
           \A i \in Indices(f_cfg.n_range_bins - min_range_bin) :
                profile[i] = k * Strength(s, 0, i + min_range_bin),
           NEW len, len = f_cfg.n_range_bins - min_range_bin,
           NEW m, m = min_range_bin
    PROVE  /\ len \in Nat /\ len >= 3 /\ m \in Nat /\ len + m = f_cfg.n_range_bins
           /\ Indices(len) = 0 .. len - 1
           /\ \A i \in Indices(len) : profile[i] \in Nat
           /\ \A i \in Indices(len) : profile[i] # 0 =>
                \E t \in Moving(s) : t.bin = i + m /\ profile[i] = k * t.size
           /\ \A t \in Moving(s) : /\ t.size \in Nat \ {0} /\ t.bin \in Int
                                   /\ t.bin - m \in Indices(len)
                                   /\ profile[t.bin - m] = k * t.size /\ k * t.size > 0
<1> DEFINE n == f_cfg.n_range_bins
<1>1. /\ n \in Nat /\ m \in Nat /\ len \in Nat /\ len >= 3 /\ len = n - m
      /\ Indices(len) = 0 .. len - 1 /\ RangeBins = 0 .. n - 1
  BY SlimSizes DEF Indices
<1> HIDE DEF n
<1>2. \A i \in Indices(len) : i \in Int /\ i + m \in RangeBins /\ i + m >= min_range_bin
  BY <1>1
<1>3. ASSUME NEW i \in Indices(len)
      PROVE  /\ profile[i] \in Nat
             /\ profile[i] # 0 => \E t \in Moving(s) : t.bin = i + m /\ profile[i] = k * t.size
  <2> DEFINE z == Strength(s, 0, i + m)
  <2>1. profile[i] = k * z
    OBVIOUS
  <2>2. z \in Nat /\ (z # 0 => \E t \in Moving(s) : t.bin = i + m /\ z = t.size)
    BY <1>2, StrongWhereMoving
  <2> HIDE DEF z
  <2>3. k * z \in Nat /\ (k * z # 0 => z # 0)
    BY <2>2
  <2> QED
    BY <2>1, <2>2, <2>3
<1>4. ASSUME NEW t \in Moving(s)
      PROVE  /\ t.size \in Nat \ {0} /\ t.bin \in Int /\ t.bin - m \in Indices(len)
             /\ profile[t.bin - m] = k * t.size /\ k * t.size > 0
  <2> DEFINE b == t.bin
             z == t.size
  <2>1. b \in RangeBins /\ b >= min_range_bin /\ z \in Nat \ {0}
    BY SceneTypes DEF Moving
  <2>2. Strength(s, 0, b) = z
    BY <2>1, StrongWhereMoving
  <2> HIDE DEF b, z
  <2>3. b \in Int /\ b - m \in Indices(len) /\ (b - m) + m = b
    BY <1>1, <2>1
  <2>4. k * z > 0
    BY <2>1
  <2>5. profile[b - m] = k * z
    BY <2>2, <2>3
  <2> QED
    BY <2>1, <2>3, <2>4, <2>5 DEF b, z
<1>5. len + m = f_cfg.n_range_bins
  BY <1>1 DEF n
<1> QED
  BY <1>1, <1>3, <1>4, <1>5

(* The range that slim_algo and super_slim_algo find.                      *)
LEMMA RangeOfNearest ==
    ASSUME NEW s \in Scenes, s.silent = {}, Moving(s) # {}, Apart(s),
           NEW k \in Nat \ {0}, NEW profile,
           \A i \in Indices(f_cfg.n_range_bins - min_range_bin) :
                profile[i] = k * Strength(s, 0, i + min_range_bin),
           NEW peak \in ArgMaxima(profile, f_cfg.n_range_bins - min_range_bin),
           NEW least \in Nat, 3989 * (k * Nearest(s).size) >= least
    PROVE  min_range_bin
                + FilterRangeProfile(profile, f_cfg.n_range_bins - min_range_bin, peak, least)
            = Nearest(s).bin
<1> DEFINE m == min_range_bin
           len == f_cfg.n_range_bins - m
           hand == Nearest(s)
           a == hand.bin - m
<1>1. /\ len \in Nat /\ len >= 3 /\ m \in Nat /\ len + m = f_cfg.n_range_bins
      /\ Indices(len) = 0 .. len - 1
      /\ \A i \in Indices(len) : profile[i] \in Nat
      /\ \A i \in Indices(len) : profile[i] # 0 =>
            \E t \in Moving(s) : t.bin = i + m /\ profile[i] = k * t.size
      /\ \A t \in Moving(s) : /\ t.size \in Nat \ {0} /\ t.bin \in Int
                              /\ t.bin - m \in Indices(len)
                              /\ profile[t.bin - m] = k * t.size /\ k * t.size > 0
  BY MoversInProfile
<1>2. hand \in Moving(s) /\ \A u \in Moving(s) : hand.bin <= u.bin
  BY NearestIs
<1>3. 3989 * (k * hand.size) >= least /\ peak \in ArgMaxima(profile, len)
  OBVIOUS
<1> HIDE DEF hand, len, m
<1>4. a \in Indices(len) /\ profile[a] > 0 /\ profile[a] = k * hand.size /\ a \in Int
  BY <1>1, <1>2
<1>5. \A j \in Indices(len) : j < a => profile[j] = 0
  <2> SUFFICES ASSUME NEW j \in Indices(len), j < a, profile[j] # 0 PROVE FALSE
    OBVIOUS
  <2>1. PICK t \in Moving(s) : t.bin = j + m
    BY <1>1
  <2>2. hand.bin <= j + m /\ hand.bin \in Int
    BY <1>1, <1>2, <2>1
  <2> QED
    BY <1>1, <2>2
<1>6. ASSUME NEW i \in Indices(len), NEW j \in Indices(len), i # j, profile[i] # 0, profile[j] # 0
      PROVE  /\ Size(i - j) >= 3 /\ profile[i] <= 2 * profile[j]
             /\ i \in 1 .. len - 2
  <2>1. PICK t \in Moving(s) : t.bin = i + m /\ profile[i] = k * t.size
    BY <1>1, <1>6
  <2>2. PICK u \in Moving(s) : u.bin = j + m /\ profile[j] = k * u.size
    BY <1>1, <1>6
  <2>3. i \in Int /\ j \in Int
    BY <1>1
  <2>4. t # u
    BY <1>1, <1>6, <2>1, <2>2, <2>3
  <2>5. Size(t.bin - u.bin) >= 3 /\ t.size <= 2 * u.size
    BY <2>4 DEF Apart
  <2>6. t.bin - u.bin = i - j
    BY <1>1, <2>1, <2>2, <2>3
  <2>7. profile[i] <= 2 * profile[j]
    <3> DEFINE y == t.size
               x == u.size
    <3>1. y \in Nat /\ x \in Nat /\ y <= 2 * x /\ profile[i] = k * y /\ profile[j] = k * x
      BY <1>1, <2>1, <2>2, <2>5
    <3> HIDE DEF y, x
    <3>2. k * (2 * x - y) >= 0
      BY <3>1
    <3>3. k * y <= 2 * (k * x)
      BY <3>1, <3>2
    <3> QED
      BY <3>1, <3>3
  <2>8. t.bin \in m + 1 .. f_cfg.n_range_bins - 2
    BY <2>4, SeveralInside DEF m
  <2>9. i \in 1 .. len - 2
    BY <1>1, <2>1, <2>3, <2>8
  <2> QED
    BY <2>5, <2>6, <2>7, <2>9
<1> HIDE DEF a
<1>7. (\E j \in Indices(len) : j # a /\ profile[j] # 0) => a \in 1 .. len - 2
  BY <1>1, <1>4, <1>6
<1>8. FilterRangeProfile(profile, len, peak, least) = a
  <2>1. 3989 * profile[a] >= least
    BY <1>3, <1>4
  <2>2. /\ len \in Nat /\ len >= 3 /\ \A j \in Indices(len) : profile[j] \in Nat
        /\ a \in Indices(len) /\ profile[a] > 0
        /\ \A j \in Indices(len) : j < a => profile[j] = 0
        /\ (\E j \in Indices(len) : j # a /\ profile[j] # 0) => a \in 1 .. len - 2
        /\ peak \in ArgMaxima(profile, len) /\ least \in Nat
    BY <1>1, <1>3, <1>4, <1>5, <1>7
  <2>3. \A i, j \in Indices(len) : i # j /\ profile[i] # 0 /\ profile[j] # 0 =>
            Size(i - j) >= 3 /\ profile[i] <= 2 * profile[j]
    BY <1>6
  <2> QED
    BY <2>1, <2>2, <2>3, NearestPeakIsFound
<1>9. m + a = hand.bin
  BY <1>1, <1>2 DEF a
<1> QED
  BY <1>8, <1>9 DEF len, m, hand

(* Or the strongest, where all are faint.                                  *)
LEMMA RangeOfStrongest ==
    ASSUME NEW s \in Scenes, s.silent = {}, Moving(s) # {},
           NEW k \in Nat \ {0}, NEW profile,
           \A i \in Indices(f_cfg.n_range_bins - min_range_bin) :
                profile[i] = k * Strength(s, 0, i + min_range_bin),
           NEW peak \in ArgMaxima(profile, f_cfg.n_range_bins - min_range_bin),
           NEW least \in Nat, \A t \in Moving(s) : 9999 * (k * t.size) < least
    PROVE  \E t \in Strongest(s) :
                min_range_bin
                    + FilterRangeProfile(profile, f_cfg.n_range_bins - min_range_bin, peak, least)
                = t.bin
<1> DEFINE m == min_range_bin
           len == f_cfg.n_range_bins - m
<1>1. /\ len \in Nat /\ len >= 3 /\ m \in Nat /\ len + m = f_cfg.n_range_bins
      /\ Indices(len) = 0 .. len - 1
      /\ \A i \in Indices(len) : profile[i] \in Nat
      /\ \A i \in Indices(len) : profile[i] # 0 =>
            \E t \in Moving(s) : t.bin = i + m /\ profile[i] = k * t.size
      /\ \A t \in Moving(s) : /\ t.size \in Nat \ {0} /\ t.bin \in Int
                              /\ t.bin - m \in Indices(len)
                              /\ profile[t.bin - m] = k * t.size /\ k * t.size > 0
  BY MoversInProfile
<1>2. peak \in ArgMaxima(profile, len)
  OBVIOUS
<1> HIDE DEF len, m
<1>3. peak \in Indices(len) /\ \A i \in Indices(len) : profile[i] <= profile[peak]
  BY <1>2 DEF ArgMaxima
<1>4. profile[peak] # 0
  <2>1. PICK t \in Moving(s) : TRUE
    OBVIOUS
  <2>2. t.bin - m \in Indices(len) /\ profile[t.bin - m] > 0
    BY <1>1, <2>1
  <2>3. profile[t.bin - m] <= profile[peak] /\ profile[t.bin - m] \in Nat /\ profile[peak] \in Nat
    BY <1>1, <1>3, <2>2
  <2> QED
    BY <2>2, <2>3
<1>5. PICK t \in Moving(s) : t.bin = peak + m /\ profile[peak] = k * t.size
  BY <1>1, <1>3, <1>4
<1>6. \A u \in Moving(s) : u.size <= t.size
  <2> SUFFICES ASSUME NEW u \in Moving(s) PROVE u.size <= t.size
    OBVIOUS
  <2>1. k * u.size <= k * t.size
    <3>1. u.bin - m \in Indices(len) /\ profile[u.bin - m] = k * u.size
      BY <1>1
    <3> QED
      BY <1>3, <1>5, <3>1
  <2> DEFINE x == u.size
             y == t.size
  <2>2. x \in Nat /\ y \in Nat /\ k * x <= k * y
    BY <1>1, <2>1
  <2> HIDE DEF x, y
  <2>3. x <= y
    <3> SUFFICES ASSUME x >= y + 1 PROVE FALSE
      BY <2>2
    <3>1. k * (x - y - 1) >= 0
      BY <2>2
    <3>2. k * (x - y - 1) = k * x - k * y - k
      BY <2>2
    <3>3. k * x \in Int /\ k * y \in Int
      BY <2>2
    <3> QED
      BY <2>2, <3>1, <3>2, <3>3
  <2> QED
    BY <2>3 DEF x, y
<1>7. FilterRangeProfile(profile, len, peak, least) = peak
  <2>1. 9999 * profile[peak] < least
    BY <1>5
  <2>2. len \in Nat /\ \A j \in Indices(len) : profile[j] \in Nat
    BY <1>1
  <2> QED
    BY <1>2, <2>1, <2>2, PeakIsFound
<1>8. t \in Strongest(s)
  BY <1>6 DEF Strongest
<1>9. m + FilterRangeProfile(profile, len, peak, least) = t.bin
  BY <1>1, <1>3, <1>5, <1>7
<1> QED
  BY <1>8, <1>9 DEF len, m

-----------------------------------------------------------------------------
(* The Doppler transform of what turns evenly has one line.                *)
LEMMA OneDopplerLine ==
    ASSUME NEW a \in Nat, NEW v \in Int, NEW d \in Int, NEW m \in 0 .. 3,
           NEW Y, TurnsEvenly(Y, a, v, d),
           NEW k \in Chirps, k % quarter = 0, k \div quarter = m
    PROVE  DopplerFft(Y)[k]
                = IF (v - m) % 4 = 0 THEN Scale(f_cfg.n_chirps * a, Quarter(d)) ELSE Zero
<1> DEFINE h == quarter
           w == v - m
           R == [j \in Chirps |-> Times(Y[j], Quarter(-(j * m)))]
<1>1. /\ h \in Nat \ {0} /\ Chirps = 0 .. f_cfg.n_chirps - 1 /\ f_cfg.n_chirps = 4 * h
      /\ \A j \in Chirps : j \in Int
  BY SlimSizes
<1>2. w \in Int /\ a \in Int
  OBVIOUS
<1> HIDE DEF h
<1>3. k % h = 0 /\ k \div h = m
  BY DEF h
<1>4. TurnsEvenly(R, a, w, d)
  <2> SUFFICES ASSUME NEW j \in Chirps PROVE R[j] = Scale(a, Quarter(w * j + d))
    BY DEF TurnsEvenly
  <2> DEFINE x == v * j + d
             y == -(j * m)
  <2>1. x \in Int /\ y \in Int /\ a \in Int /\ x + y = w * j + d
    BY <1>1
  <2>2. R[j] = Times(Scale(a, Quarter(x)), Quarter(y))
    BY DEF TurnsEvenly
  <2> HIDE DEF x, y, w, R
  <2>3. Times(Scale(a, Quarter(x)), Quarter(y)) = Scale(a, Quarter(x + y))
    BY <2>1, TurnedFurther
  <2> QED
    BY <2>1, <2>2, <2>3
<1>5. DopplerFft(Y)[k] = Total(R, Chirps)
  BY <1>3 DEF DopplerFft, h
<1> HIDE DEF R, w
<1>6. Total(R, Chirps) = IF w % 4 = 0 THEN Scale(f_cfg.n_chirps * a, Quarter(d)) ELSE Zero
  BY <1>2, <1>4, EvenTurns
<1> QED
  BY <1>3, <1>5, <1>6 DEF w

(* Where fftshift_cf64 puts it.                                            *)
LEMMA ShiftedLine ==
    ASSUME NEW v \in Int, NEW k \in Chirps, NEW in
    PROVE  \E p \in Chirps :
                /\ FftShift(in, f_cfg.n_chirps)[k] = in[p]
                /\ \/ \E m \in 0 .. 3 : /\ p = m * quarter
                                        /\ (v - m) % 4 = 0 <=> k = quarter * ((v + 2) % 4)
                   \/ p % quarter # 0 /\ k # quarter * ((v + 2) % 4)
<1> DEFINE h == quarter
           t == (v + 2) % 4
           p == IF k < 2 * h THEN k + 2 * h ELSE k - 2 * h
           q == k \div h
           r == k % h
           m == IF q < 2 THEN q + 2 ELSE q - 2
<1>1. h \in Nat \ {0} /\ f_cfg.n_chirps = 4 * h /\ Chirps = 0 .. 4 * h - 1 /\ k \in Int
  BY SlimSizes
<1> HIDE DEF h
<1>2. /\ q \in 0 .. 3 /\ r \in 0 .. h - 1 /\ k = q * h + r
  <2>1. 4 \in Nat /\ k \in Indices(4 * h)
    BY <1>1 DEF Indices
  <2>2. q \in Indices(4) /\ r \in Indices(h) /\ k = q * h + r
    BY <1>1, <2>1, IndexOfPair
  <2> QED
    BY <2>2 DEF Indices
<1> HIDE DEF q, r
<1>3. p \in Chirps /\ FftShift(in, f_cfg.n_chirps)[k] = in[p]
  <2>1. f_cfg.n_chirps \div 2 = 2 * h /\ k \in Indices(f_cfg.n_chirps)
    BY <1>1 DEF Indices
  <2>2. FftShift(in, f_cfg.n_chirps)[k] = in[p]
    BY <2>1 DEF FftShift
  <2> QED
    BY <1>1, <2>2
<1>4. m \in 0 .. 3 /\ p = m * h + r
  <2>1. \/ q = 0 /\ k = r
        \/ q = 1 /\ k = h + r
        \/ q = 2 /\ k = 2 * h + r
        \/ q = 3 /\ k = 3 * h + r
    BY <1>1, <1>2
  <2> QED
    BY <1>1, <1>2, <2>1
<1>5. (v - m) % 4 = 0 <=> q = t
  <2>1. \/ q = 0 /\ m = 2
        \/ q = 1 /\ m = 3
        \/ q = 2 /\ m = 0
        \/ q = 3 /\ m = 1
    BY <1>2
  <2> HIDE DEF m
  <2>2. CASE q = 0
    BY <2>1, <2>2
  <2>3. CASE q = 1
    BY <2>1, <2>3
  <2>4. CASE q = 2
    BY <2>1, <2>4
  <2>5. CASE q = 3
    BY <2>1, <2>5
  <2> QED
    BY <1>2, <2>2, <2>3, <2>4, <2>5
<1>6. t \in 0 .. 3
  OBVIOUS
<1>7. p % h = r
  <2>1. m \in Indices(4) /\ r \in Indices(h) /\ 4 \in Nat
    BY <1>2, <1>4 DEF Indices
  <2>2. (m * h + r) % h = r
    BY <1>1, <2>1, PairOfIndex
  <2> QED
    BY <1>4, <2>2
<1> HIDE DEF p, m, t
<1>8. CASE r = 0
  <2>1. p = m * h
    BY <1>1, <1>4, <1>8
  <2>2. k = h * t <=> q = t
    <3>1. \/ q = 0 /\ k = 0
          \/ q = 1 /\ k = h
          \/ q = 2 /\ k = 2 * h
          \/ q = 3 /\ k = 3 * h
      BY <1>1, <1>2, <1>8
    <3>2. \/ t = 0 /\ h * t = 0
          \/ t = 1 /\ h * t = h
          \/ t = 2 /\ h * t = 2 * h
          \/ t = 3 /\ h * t = 3 * h
      BY <1>1, <1>6
    <3> QED
      BY <1>1, <3>1, <3>2
  <2> QED
    BY <1>3, <1>4, <1>5, <2>1, <2>2 DEF h, t
<1>9. CASE r # 0
  <2>1. k # h * t
    <3>1. \/ q = 0 /\ k = r
          \/ q = 1 /\ k = h + r
          \/ q = 2 /\ k = 2 * h + r
          \/ q = 3 /\ k = 3 * h + r
      BY <1>1, <1>2
    <3>2. \/ t = 0 /\ h * t = 0
          \/ t = 1 /\ h * t = h
          \/ t = 2 /\ h * t = 2 * h
          \/ t = 3 /\ h * t = 3 * h
      BY <1>1, <1>6
    <3> QED
      BY <1>1, <1>2, <1>9, <3>1, <3>2
  <2>2. p % h # 0
    BY <1>7, <1>9
  <2> QED
    BY <1>3, <2>1, <2>2 DEF h, t
<1> QED
  BY <1>8, <1>9

LEMMA LineInSpectrum ==
    ASSUME NEW a \in Nat, NEW v \in Int, NEW d \in Int,
           NEW Y, TurnsEvenly(Y, a, v, d), NEW k \in Chirps
    PROVE  FftShift(DopplerFft(Y), f_cfg.n_chirps)[k]
            = IF k = quarter * ((v + 2) % 4) THEN Scale(f_cfg.n_chirps * a, Quarter(d)) ELSE Zero
<1> DEFINE in == DopplerFft(Y)
           found == Scale(f_cfg.n_chirps * a, Quarter(d))
<1>1. \A m \in 0 .. 3 : in[m * quarter] = IF (v - m) % 4 = 0 THEN found ELSE Zero
  <2> SUFFICES ASSUME NEW m \in 0 .. 3
               PROVE  in[m * quarter] = IF (v - m) % 4 = 0 THEN found ELSE Zero
    OBVIOUS
  <2> DEFINE h == quarter
             l == m * h
  <2>1. h \in Nat \ {0} /\ Chirps = 0 .. 4 * h - 1
    BY SlimSizes
  <2> HIDE DEF h
  <2>2. l \in Chirps /\ l % h = 0 /\ l \div h = m
    <3>1. 4 \in Nat /\ m \in Indices(4) /\ 0 \in Indices(h)
      BY <2>1 DEF Indices
    <3>2. m * h + 0 \in Indices(4 * h) /\ (m * h + 0) \div h = m /\ (m * h + 0) % h = 0
      BY <2>1, <3>1, PairOfIndex
    <3>3. m * h + 0 = l
      BY <2>1
    <3> QED
      BY <2>1, <3>2, <3>3 DEF Indices
  <2> HIDE DEF l
  <2>3. l \in Chirps /\ l % quarter = 0 /\ l \div quarter = m
    BY <2>2 DEF h
  <2>4. DopplerFft(Y)[l] = IF (v - m) % 4 = 0 THEN Scale(f_cfg.n_chirps * a, Quarter(d)) ELSE Zero
    BY <2>3, OneDopplerLine
  <2> QED
    BY <2>4 DEF l, h
<1>2. \A p \in Chirps : p % quarter # 0 => in[p] = Zero
  BY DEF DopplerFft
<1> HIDE DEF in, found
<1>3. PICK p \in Chirps :
            /\ FftShift(in, f_cfg.n_chirps)[k] = in[p]
            /\ \/ \E m \in 0 .. 3 : /\ p = m * quarter
                                    /\ (v - m) % 4 = 0 <=> k = quarter * ((v + 2) % 4)
               \/ p % quarter # 0 /\ k # quarter * ((v + 2) % 4)
  BY ShiftedLine
<1>4. in[p] = IF k = quarter * ((v + 2) % 4) THEN found ELSE Zero
  BY <1>1, <1>2, <1>3
<1> QED
  BY <1>3, <1>4 DEF in, found

(* The Doppler spectrum of a bin.                                          *)
LEMMA DopplerOfBin ==
    ASSUME NEW s \in Scenes, NEW b \in RangeBins, b # 0, NEW ch \in Channels, NEW k \in Chirps
    PROVE  SingleRangeBinDoppler(MeanRemoved(RangeImage(s)), b)[ch * f_cfg.n_chirps + k]
            = IF k = quarter * ((Turn(s, b) + 2) % 4)
              THEN Scale(f_cfg.n_chirps * (f_cfg.n_chirps * Strength(s, ch, b)),
                         Quarter(s.direction[ch]))
              ELSE Zero
<1> DEFINE x == MeanRemoved(RangeImage(s))
           n == f_cfg.n_range_bins
           m == f_cfg.n_chirps
           slice == Slice3dCol(x, b, f_cfg.n_channels, m, n)
           Y(c) == [j \in Chirps |-> slice[c * m + j]]
           Of(c) == FftShift(DopplerFft(Y(c)), m)
           z == Strength(s, ch, b)
           v == Turn(s, b)
           d == s.direction[ch]
<1>1. /\ Chirps = 0 .. m - 1 /\ n \in Nat \ {0} /\ RangeBins = 0 .. n - 1 /\ m \in Nat \ {0}
      /\ f_cfg.n_channels = 3 /\ Channels = 0 .. 2 /\ len_cch = 3 * m /\ len_img = m * n
  BY SlimSizes
<1>2. z \in Nat /\ v \in Int /\ d \in Int
  BY SceneTypes, StrengthIsNatural
<1>3. SingleRangeBinDoppler(x, b) = [i \in Indices(len_cch) |-> Of(i \div m)[i % m]]
  BY Zenon DEF SingleRangeBinDoppler
<1>4. ch * m + k \in Indices(len_cch) /\ (ch * m + k) \div m = ch /\ (ch * m + k) % m = k
  <2> HIDE DEF m
  <2>1. 3 \in Nat /\ m \in Nat \ {0} /\ ch \in Indices(3) /\ k \in Indices(m)
    BY <1>1 DEF Indices
  <2> QED
    BY <1>1, <2>1, PairOfIndex
<1>5. SingleRangeBinDoppler(x, b)[ch * m + k] = Of(ch)[k]
  <2> HIDE DEF Of, x, m
  <2> QED
    BY <1>3, <1>4
<1>6. \A j \in Chirps : Y(ch)[j] = Scale(m * z, Quarter(v * j + d))
  <2> SUFFICES ASSUME NEW j \in Chirps PROVE slice[ch * m + j] = Scale(m * z, Quarter(v * j + d))
    OBVIOUS
  <2>1. slice[ch * m + j] = x[ch * m * n + j * n + b]
    <3> DEFINE n_ch == f_cfg.n_channels
    <3>1. /\ n_ch \in Nat \ {0} /\ m \in Nat \ {0} /\ n \in Nat \ {0} /\ ch \in Indices(n_ch)
          /\ j \in Indices(m) /\ b \in Indices(n)
      BY <1>1 DEF Indices
    <3> HIDE DEF n, x, n_ch, m
    <3>2. Slice3dCol(x, b, n_ch, m, n)[ch * m + j] = x[ch * m * n + j * n + b]
      BY <3>1, ColumnOfEveryChannel
    <3> QED
      BY <3>2 DEF n_ch
  <2>2. ch * m * n + j * n + b = Place(ch, j, b)
    <3>1. ch * m * n = ch * len_img
      <4>1. ch \in Int
        BY <1>1
      <4> HIDE DEF m, n
      <4> QED
        BY <1>1, <4>1
    <3> QED
      BY <3>1 DEF Place
  <2>3. x[Place(ch, j, b)] = Scale(m * z, Quarter(v * j + d))
    BY MovingSample
  <2> HIDE DEF x, n, slice, m
  <2> QED
    BY <2>1, <2>2, <2>3
<1> DEFINE a == m * z
<1>7. a \in Nat
  <2> HIDE DEF m, z
  <2> QED
    BY <1>1, <1>2
<1>8. Of(ch)[k] = IF k = quarter * ((v + 2) % 4) THEN Scale(m * a, Quarter(d)) ELSE Zero
  <2> DEFINE Z == Y(ch)
  <2>1. TurnsEvenly(Z, a, v, d)
    BY <1>6 DEF TurnsEvenly
  <2> HIDE DEF Z, a, v, d
  <2>2. FftShift(DopplerFft(Z), f_cfg.n_chirps)[k]
          = IF k = quarter * ((v + 2) % 4) THEN Scale(f_cfg.n_chirps * a, Quarter(d)) ELSE Zero
    BY <1>2, <1>7, <2>1, LineInSpectrum
  <2> QED
    BY <2>2 DEF Z
<1> HIDE DEF Of, x
<1> QED
  BY <1>5, <1>8 DEF x

(* Its profile, with no channel silent.                                    *)
LEMMA DopplerProfileOfBin ==
    ASSUME NEW s \in Scenes, s.silent = {}, NEW b \in RangeBins, b # 0, NEW k \in Chirps
    PROVE  DopplerProfile(SingleRangeBinDoppler(MeanRemoved(RangeImage(s)), b))[k]
            = IF k = quarter * ((Turn(s, b) + 2) % 4)
              THEN len_cch * f_cfg.n_chirps * Strength(s, 0, b) ELSE 0
<1> DEFINE x == SingleRangeBinDoppler(MeanRemoved(RangeImage(s)), b)
           z == Strength(s, 0, b)
           n == f_cfg.n_chirps
           a == n * (n * z)
           line == quarter * ((Turn(s, b) + 2) % 4)
           m == IF k = line THEN a ELSE 0
           F == [ch \in Channels |-> Magnitude(x[ch * f_cfg.n_chirps + k])]
<1>1. Channels = 0 .. 2 /\ n \in Nat \ {0} /\ len_cch = 3 * n
  BY SlimSizes
<1>2. z \in Nat /\ \A ch \in Channels : Strength(s, ch, b) = z
  <2>1. \A ch \in Channels : Strength(s, ch, b) = z
    BY DEF Strength
  <2> QED
    BY <1>1, <2>1, StrengthIsNatural
<1>3. ASSUME NEW ch \in Channels
      PROVE  x[ch * f_cfg.n_chirps + k] = IF k = line THEN Scale(a, Quarter(s.direction[ch])) ELSE Zero
  BY <1>2, DopplerOfBin
<1> HIDE DEF n, z, line
<1>4. a \in Nat
  BY <1>1, <1>2
<1>5. len_cch * n * z = 3 * a
  BY <1>1, <1>2
<1> HIDE DEF x, a
<1>6. ASSUME NEW ch \in Channels PROVE Magnitude(x[ch * f_cfg.n_chirps + k]) = m
  <2>1. Magnitude(Zero) = 0
    BY NothingTurned
  <2>2. Magnitude(Scale(a, Quarter(s.direction[ch]))) = a
    <3>1. s.direction[ch] \in Int
      BY SceneTypes
    <3>2. CASE a = 0
      BY <3>1, <3>2, NothingTurned
    <3>3. CASE a # 0
      <4>1. a \in Nat \ {0}
        BY <1>4, <3>3
      <4> QED
        BY <3>1, <4>1, TurnedPhase
    <3> QED
      BY <3>2, <3>3
  <2> QED
    BY <1>3, <2>1, <2>2
<1>7. DopplerProfile(x)[k] = SumOf(F)
  BY DEF DopplerProfile
<1>8. m \in Int
  BY <1>4
<1> HIDE DEF m
<1>9. F \in [0 .. 2 -> Int] /\ F[0] = m /\ F[1] = m /\ F[2] = m
  BY <1>1, <1>6, <1>8
<1> HIDE DEF F
<1>10. SumOf(F) = F[0] + F[1] + F[2]
  BY <1>9, SumOfThree
<1>11. SumOf(F) = 3 * m
  BY <1>8, <1>9, <1>10
<1>12. 3 * m = IF k = line THEN 3 * a ELSE 0
  BY <1>4 DEF m
<1> QED
  BY <1>5, <1>7, <1>11, <1>12 DEF x, z, n, line

-----------------------------------------------------------------------------
(* What the two algorithms make of the phases.                             *)

LEMMA WrapOfAngles ==
    ASSUME NEW p \in -1 .. 2, NEW q \in -1 .. 2, NEW a \in Int, NEW b \in Int, NEW n \in Int,
           p % 4 = a % 4, q % 4 = b % 4, n = b - a
    PROVE  PhaseDifference(p, q, 4) \in Int /\ IsWrapOf(PhaseDifference(p, q, 4), n)
<1>1. p \in Int /\ q \in Int /\ (q - p) % 4 = n % 4
  <2>1. (q - p) % 4 = ((q % 4) - (p % 4)) % 4
    OBVIOUS
  <2>2. (b - a) % 4 = ((b % 4) - (a % 4)) % 4
    OBVIOUS
  <2> QED
    BY <2>1, <2>2
<1> QED
  BY <1>1, WrapOfPhases

LEMMA SameWrap ==
    ASSUME NEW n \in Int, n % 4 # 2, NEW c \in Int, NEW d \in Int, IsWrapOf(c, n), IsWrapOf(d, n)
    PROVE  c = d /\ c \in -1 .. 1
<1>1. c % 4 = d % 4 /\ c % 4 # 2 /\ -2 <= c /\ c <= 2 /\ -2 <= d /\ d <= 2
  BY DEF IsWrapOf, Size
<1>2. \A x \in -2 .. 2 : x % 4 = IF x < 0 THEN 4 + x ELSE x
  OBVIOUS
<1>3. c \in -2 .. 2 /\ d \in -2 .. 2
  BY <1>1
<1> QED
  BY <1>1, <1>2, <1>3

LEMMA MeanOfThree ==
    ASSUME NEW n \in Int, NEW F \in [0 .. 2 -> Int], \A i \in 0 .. 2 : IsWrapOf(F[i], n)
    PROVE  IsMeanOf(SumOf(F), 3, n)
<1> SUFFICES ASSUME n % 4 # 2
             PROVE  \E d \in -1 .. 1 : SumOf(F) = 3 * d /\ IsWrapOf(d, n)
  BY DEF IsMeanOf
<1>1. F[0] \in Int /\ F[1] \in Int /\ F[2] \in Int /\ IsWrapOf(F[0], n) /\ IsWrapOf(F[1], n) /\ IsWrapOf(F[2], n)
  OBVIOUS
<1>2. F[0] = F[1] /\ F[0] = F[2] /\ F[0] \in -1 .. 1
  BY <1>1, SameWrap
<1>3. SumOf(F) = F[0] + F[1] + F[2]
  BY SumOfThree
<1>4. SumOf(F) = 3 * F[0]
  <2>1. \A x \in Int : x + x + x = 3 * x
    OBVIOUS
  <2>2. SumOf(F) = F[0] + F[0] + F[0]
    BY <1>2, <1>3
  <2> QED
    BY <1>1, <2>1, <2>2
<1> QED
  BY <1>1, <1>2, <1>4

LEMMA MeanOfChirps ==
    ASSUME NEW n \in Int, NEW F \in [Chirps -> Int], \A i \in Chirps : IsWrapOf(F[i], n)
    PROVE  IsMeanOf(SumOf(F), f_cfg.n_chirps, n)
<1> SUFFICES ASSUME n % 4 # 2
             PROVE  \E d \in -1 .. 1 : SumOf(F) = f_cfg.n_chirps * d /\ IsWrapOf(d, n)
  BY DEF IsMeanOf
<1> DEFINE c == F[0]
           m == f_cfg.n_chirps
<1>1. IsFiniteSet(Chirps) /\ Cardinality(Chirps) = m /\ m \in Nat /\ 0 \in Chirps
  BY SlimSizes
<1>2. c \in Int /\ IsWrapOf(c, n) /\ \A i \in Chirps : F[i] \in Int /\ IsWrapOf(F[i], n)
  BY <1>1
<1> HIDE DEF c
<1>3. c \in -1 .. 1 /\ \A i \in Chirps : F[i] = c
  BY <1>2, SameWrap
<1>4. SumOf(F) = c * Cardinality(Chirps)
  BY <1>1, <1>2, <1>3, SumOfSame
<1> HIDE DEF m
<1>5. c * m = m * c
  BY <1>1, <1>2
<1>6. SumOf(F) = m * c
  BY <1>1, <1>4, <1>5
<1> QED
  BY <1>2, <1>3, <1>6 DEF m

(* A target that moves is all that moves in its bin.                       *)
LEMMA HandInBin ==
    ASSUME NEW s \in Scenes, s.silent = {}, NEW hand \in Moving(s)
    PROVE  /\ hand.bin \in RangeBins /\ hand.bin # 0
           /\ hand.size \in Nat \ {0} /\ hand.velocity \in Int /\ hand.velocity % 4 # 0
           /\ Turn(s, hand.bin) = hand.velocity
           /\ \A ch \in Channels : Strength(s, ch, hand.bin) = hand.size
<1>1. hand \in s.targets /\ hand.velocity % 4 # 0 /\ hand.bin >= min_range_bin
  BY DEF Moving
<1>2. /\ hand.bin \in RangeBins /\ hand.size \in Nat \ {0} /\ hand.velocity \in Int
  BY <1>1, SceneTypes
<1>3. hand.bin # 0
  BY <1>1, SlimSizes
<1>4. /\ Turn(s, hand.bin) = hand.velocity
      /\ \A ch \in Channels \ s.silent : Strength(s, ch, hand.bin) = hand.size
  BY <1>1, OneMover
<1> QED
  BY <1>1, <1>2, <1>3, <1>4

(* What FeaturesOfNearestHand says of the features of a scene.             *)
HandsFeatures(alg, hand, s, f) ==
    /\ f.range_bin = hand.bin
    /\ alg = "slim" =>
        /\ f.doppler = quarter * ((hand.velocity + 2) % 4)
        /\ IsWrapOf(f.azimuth, s.direction[0] - s.direction[2])
        /\ IsWrapOf(f.elevation, s.direction[1] - s.direction[2])
        /\ f.value = len_cch * f_cfg.n_chirps * hand.size
    /\ alg = "super_slim" =>
        /\ IsMeanOf(f.doppler, 3, -hand.velocity)
        /\ IsMeanOf(f.azimuth, f_cfg.n_chirps, s.direction[0] - s.direction[2])
        /\ IsMeanOf(f.elevation, f_cfg.n_chirps, s.direction[1] - s.direction[2])

(* The scenes that it says something of, and of which target.              *)
Near(s) == Moving(s) # {} /\ s.silent = {} /\ Apart(s) /\ Loud(Nearest(s))
Far(s)  == Moving(s) # {} /\ s.silent = {} /\ \A t \in Moving(s) : Faint(t)

Pointed(s, b) ==
    /\ Near(s) => b = Nearest(s).bin
    /\ Far(s) => \E t \in Strongest(s) : b = t.bin

FeaturesOf(alg, s, success, f) ==
    /\ Moving(s) = {} /\ success => alg = "super_slim" /\ f.doppler = 0
    /\ Near(s) => success /\ HandsFeatures(alg, Nearest(s), s, f)
    /\ Far(s) => success /\ \E t \in Strongest(s) : HandsFeatures(alg, t, s, f)

(* slim_algo: with a phase in every channel something moves, ...           *)
LEMMA PhaseOfMover ==
    ASSUME NEW s \in Scenes, NEW b \in RangeBins, b >= min_range_bin, NEW k \in Chirps,
           \A ch \in Channels :
                HasAngle(SingleRangeBinDoppler(MeanRemoved(RangeImage(s)), b)[ch * f_cfg.n_chirps + k])
    PROVE  Moving(s) # {}
<1>1. 0 \in Channels /\ b # 0
  BY SlimSizes
<1> DEFINE y == SingleRangeBinDoppler(MeanRemoved(RangeImage(s)), b)[0 * f_cfg.n_chirps + k]
           d == s.direction[0]
<1>2. HasAngle(y)
  BY <1>1
<1> DEFINE n == f_cfg.n_chirps
<1>3. y = IF k = quarter * ((Turn(s, b) + 2) % 4)
          THEN Scale(n * (n * Strength(s, 0, b)), Quarter(d)) ELSE Zero
  BY <1>1, DopplerOfBin
<1>4. d \in Int /\ n \in Nat
  BY <1>1, SceneTypes, SlimSizes
<1> HIDE DEF y, d, n
<1>5. Strength(s, 0, b) # 0
  <2> SUFFICES ASSUME Strength(s, 0, b) = 0 PROVE y = Zero
    BY <1>2 DEF HasAngle
  <2>1. n * (n * Strength(s, 0, b)) = 0
    BY <1>4
  <2>2. Scale(0, Quarter(d)) = Zero
    BY <1>4, NothingTurned
  <2> QED
    BY <1>3, <2>1, <2>2
<1>6. PICK t \in s.targets : t.bin = b /\ t.velocity % 4 # 0
  BY <1>5 DEF Strength, Mover
<1>7. t \in Moving(s)
  BY <1>6 DEF Moving
<1> QED
  BY <1>7

(* ... and in the Doppler line of a hand every channel has one.            *)
LEMMA LineOfHand ==
    ASSUME NEW s \in Scenes, s.silent = {}, NEW hand \in Moving(s), NEW b, b = hand.bin,
           NEW y, y = SingleRangeBinDoppler(MeanRemoved(RangeImage(s)), b),
           NEW k \in ArgMaxima(DopplerProfile(y), f_cfg.n_chirps)
    PROVE  /\ k = quarter * ((hand.velocity + 2) % 4)
           /\ DopplerProfile(y)[k] = len_cch * f_cfg.n_chirps * hand.size
           /\ \A ch \in Channels : /\ HasAngle(y[ch * f_cfg.n_chirps + k])
                                   /\ Angle(y[ch * f_cfg.n_chirps + k]) \in -1 .. 2
                                   /\ Angle(y[ch * f_cfg.n_chirps + k]) % 4 = s.direction[ch] % 4
<1> DEFINE z == hand.size
           v == hand.velocity
           n == f_cfg.n_chirps
           line == quarter * ((v + 2) % 4)
           value == len_cch * n * z
           D == DopplerProfile(y)
<1>1. /\ b \in RangeBins /\ b # 0 /\ z \in Nat \ {0} /\ v \in Int /\ Turn(s, b) = v
      /\ \A ch \in Channels : Strength(s, ch, b) = z
  BY HandInBin
<1>2. /\ Chirps = 0 .. n - 1 /\ Indices(n) = Chirps /\ 0 \in Channels
      /\ n \in Nat \ {0} /\ len_cch = 3 * n
  BY SlimSizes DEF Indices
<1>3. line \in Chirps
  <2> DEFINE h == quarter
             q == (v + 2) % 4
  <2>1. h \in Nat \ {0} /\ Chirps = 0 .. 4 * h - 1
    BY SlimSizes
  <2>2. q \in 0 .. 3
    BY <1>1
  <2> HIDE DEF h, q
  <2>3. h * q \in 0 .. 4 * h - 1
    <3>1. h * 0 = 0 /\ h * 1 = h /\ h * 2 = 2 * h /\ h * 3 = 3 * h
      BY <2>1
    <3> QED
      BY <2>1, <2>2, <3>1
  <2> QED
    BY <2>1, <2>3 DEF h, q
<1>4. \A j \in Chirps : D[j] = IF j = line THEN value ELSE 0
  BY <1>1, <1>2, DopplerProfileOfBin
<1>5. ASSUME NEW ch \in Channels, NEW j \in Chirps, j = line
      PROVE  y[ch * n + j] = Scale(n * (n * z), Quarter(s.direction[ch]))
  BY <1>1, <1>5, DopplerOfBin
<1>6. k \in Chirps /\ D[line] <= D[k]
  BY <1>2, <1>3 DEF ArgMaxima
<1> HIDE DEF D, z, v, n, line
<1>7. n * z \in Nat \ {0}
  BY <1>1, <1>2
<1>8. value \in Nat \ {0} /\ n * (n * z) \in Nat \ {0}
  <2> DEFINE x == n * z
  <2>1. x \in Nat \ {0}
    BY <1>7
  <2>2. value = 3 * (n * x)
    BY <1>1, <1>2
  <2> HIDE DEF x, value
  <2>3. n * x \in Nat \ {0}
    BY <1>2, <2>1
  <2> DEFINE w == n * x
  <2>4. w \in Nat \ {0} /\ value = 3 * w
    BY <2>2, <2>3
  <2> HIDE DEF w
  <2>5. value \in Nat \ {0}
    BY <2>4
  <2> QED
    BY <2>3, <2>5 DEF x
<1> HIDE DEF value
<1>9. k = line
  BY <1>3, <1>4, <1>6, <1>8
<1>10. D[k] = value
  BY <1>4, <1>6, <1>9
<1>11. ASSUME NEW ch \in Channels
       PROVE  /\ HasAngle(y[ch * n + k])
              /\ Angle(y[ch * n + k]) \in -1 .. 2
              /\ Angle(y[ch * n + k]) % 4 = s.direction[ch] % 4
  <2> DEFINE d == s.direction[ch]
             at == y[ch * n + k]
             a == n * (n * z)
  <2>1. at = Scale(a, Quarter(d))
    BY <1>5, <1>6, <1>9
  <2>2. a \in Nat \ {0} /\ d \in Int
    BY <1>8, SceneTypes
  <2> HIDE DEF at, d, a
  <2>3. HasAngle(at) /\ Angle(at) \in -1 .. 2 /\ Angle(at) % 4 = d % 4
    BY <2>1, <2>2, TurnedPhase
  <2> QED
    BY <2>3 DEF at, d
<1> QED
  BY <1>9, <1>10, <1>11 DEF D, line, value, z, v, n

LEMMA SlimHand ==
    ASSUME NEW s \in Scenes, s.silent = {}, NEW hand \in Moving(s), NEW b, b = hand.bin,
           NEW y, y = SingleRangeBinDoppler(MeanRemoved(RangeImage(s)), b),
           NEW k \in ArgMaxima(DopplerProfile(y), f_cfg.n_chirps),
           NEW success,
           success <=> \A ch \in Channels : HasAngle(y[ch * f_cfg.n_chirps + k]),
           NEW f,
           success => f = [range_bin |-> b, doppler |-> k,
                           azimuth   |-> PhaseMonopulse(Angle(y[2 * f_cfg.n_chirps + k]),
                                                        Angle(y[0 * f_cfg.n_chirps + k])),
                           elevation |-> PhaseMonopulse(Angle(y[2 * f_cfg.n_chirps + k]),
                                                        Angle(y[1 * f_cfg.n_chirps + k])),
                           value     |-> DopplerProfile(y)[k]]
    PROVE  success /\ HandsFeatures("slim", hand, s, f)
<1> DEFINE p(ch) == Angle(y[ch * f_cfg.n_chirps + k])
           d(ch) == s.direction[ch]
<1>1. /\ k = quarter * ((hand.velocity + 2) % 4)
      /\ DopplerProfile(y)[k] = len_cch * f_cfg.n_chirps * hand.size
      /\ \A ch \in Channels : HasAngle(y[ch * f_cfg.n_chirps + k])
      /\ \A ch \in Channels : p(ch) \in -1 .. 2 /\ p(ch) % 4 = d(ch) % 4
  BY LineOfHand
<1>2. success
  BY <1>1
<1>3. 0 \in Channels /\ 1 \in Channels /\ 2 \in Channels
  BY SlimSizes
<1>4. d(0) \in Int /\ d(1) \in Int /\ d(2) \in Int
  BY <1>3, SceneTypes
<1>5. /\ f.range_bin = b /\ f.doppler = k /\ f.value = DopplerProfile(y)[k]
      /\ f.azimuth = PhaseMonopulse(p(2), p(0)) /\ f.elevation = PhaseMonopulse(p(2), p(1))
  BY <1>2
<1>6. /\ p(0) \in -1 .. 2 /\ p(0) % 4 = d(0) % 4 /\ p(1) \in -1 .. 2 /\ p(1) % 4 = d(1) % 4
      /\ p(2) \in -1 .. 2 /\ p(2) % 4 = d(2) % 4
  BY <1>1, <1>3
<1>7. d(0) - d(2) \in Int /\ d(1) - d(2) \in Int
  BY <1>4
<1> HIDE DEF p, d
<1>8. IsWrapOf(PhaseDifference(p(2), p(0), 4), d(0) - d(2))
  BY <1>4, <1>6, <1>7, WrapOfAngles
<1>9. IsWrapOf(PhaseDifference(p(2), p(1), 4), d(1) - d(2))
  BY <1>4, <1>6, <1>7, WrapOfAngles
<1>10. "super_slim" # "slim"
  OBVIOUS
<1> QED
  BY <1>1, <1>2, <1>5, <1>8, <1>9, <1>10 DEF HandsFeatures, PhaseMonopulse, d

LEMMA SlimFeatures ==
    ASSUME NEW s \in Scenes, NEW b \in RangeBins, b >= min_range_bin, Pointed(s, b),
           NEW y, y = SingleRangeBinDoppler(MeanRemoved(RangeImage(s)), b),
           NEW k \in ArgMaxima(DopplerProfile(y), f_cfg.n_chirps),
           NEW success,
           success <=> \A ch \in Channels : HasAngle(y[ch * f_cfg.n_chirps + k]),
           NEW f,
           success => f = [range_bin |-> b, doppler |-> k,
                           azimuth   |-> PhaseMonopulse(Angle(y[2 * f_cfg.n_chirps + k]),
                                                        Angle(y[0 * f_cfg.n_chirps + k])),
                           elevation |-> PhaseMonopulse(Angle(y[2 * f_cfg.n_chirps + k]),
                                                        Angle(y[1 * f_cfg.n_chirps + k])),
                           value     |-> DopplerProfile(y)[k]]
    PROVE  FeaturesOf("slim", s, success, f)
<1>1. k \in Chirps
  BY DEF ArgMaxima, Chirps
<1>2. ASSUME success PROVE Moving(s) # {}
  BY <1>1, <1>2, PhaseOfMover
<1>3. ASSUME s.silent = {}, NEW hand \in Moving(s), b = hand.bin
      PROVE  success /\ HandsFeatures("slim", hand, s, f)
  BY <1>3, SlimHand
<1>4. ASSUME Near(s) PROVE success /\ HandsFeatures("slim", Nearest(s), s, f)
  <2>1. s.silent = {} /\ Nearest(s) \in Moving(s) /\ b = Nearest(s).bin
    BY <1>4, NearestIs DEF Near, Pointed
  <2> QED
    BY <1>3, <2>1
<1>5. ASSUME Far(s) PROVE success /\ \E t \in Strongest(s) : HandsFeatures("slim", t, s, f)
  <2>1. PICK t \in Strongest(s) : b = t.bin
    BY <1>5 DEF Pointed
  <2>2. s.silent = {} /\ t \in Moving(s)
    BY <1>5 DEF Far, Strongest
  <2> QED
    BY <1>3, <2>1, <2>2
<1> QED
  BY <1>2, <1>4, <1>5 DEF FeaturesOf

(* super_slim_algo: what stands still does not turn from the first chirp   *)
(* to the second, ...                                                      *)
LEMMA StandsStill ==
    ASSUME NEW s \in Scenes, Moving(s) = {}, NEW b \in RangeBins, b >= min_range_bin,
           NEW x, x = RangeImage(s), NEW ch \in Channels,
           HasAngle(x[Place(ch, 0, b)])
    PROVE  PhaseDifference(Angle(x[Place(ch, 1, b)]), Angle(x[Place(ch, 0, b)]), 4) = 0
<1> DEFINE d == s.direction[ch]
<1>1. b # 0 /\ 0 \in Chirps /\ 1 \in Chirps /\ d \in Int
  BY SceneTypes, SlimSizes
<1>2. PICK z \in Nat, v \in Int :
            /\ \A c \in Chirps : Echo(s, ch, c, b) = Scale(z, Quarter(v * c + d))
            /\ v % 4 = 0 => Strength(s, ch, b) = 0
            /\ v % 4 # 0 => Strength(s, ch, b) = z /\ Turn(s, b) = v
  BY EchoesOfBin
<1> HIDE DEF d
<1>3. \A c \in Chirps : x[Place(ch, c, b)] = Scale(z, Quarter(v * c + d))
  BY <1>1, <1>2, ImageAt
<1>4. v * 0 + d = d /\ v * 1 + d = v + d /\ v + d \in Int
  BY <1>1
<1>5. x[Place(ch, 0, b)] = Scale(z, Quarter(d)) /\ x[Place(ch, 1, b)] = Scale(z, Quarter(v + d))
  BY <1>1, <1>3, <1>4
<1>6. z # 0
  <2> SUFFICES ASSUME z = 0 PROVE FALSE
    OBVIOUS
  <2> QED
    BY <1>1, <1>5, NothingTurned
<1>7. v % 4 = 0
  <2> SUFFICES ASSUME v % 4 # 0 PROVE FALSE
    OBVIOUS
  <2>1. Strength(s, ch, b) # 0
    BY <1>2, <1>6
  <2>2. PICK t \in s.targets : t.bin = b /\ t.velocity % 4 # 0
    BY <2>1 DEF Strength, Mover
  <2>3. t \in Moving(s)
    BY <2>2 DEF Moving
  <2> QED
    BY <2>3
<1>8. (v + d) % 4 = d % 4
  BY <1>1, <1>7
<1>9. Quarter(v + d) = Quarter(d)
  BY <1>1, <1>4, <1>8, WholeTurns
<1>10. Angle(Scale(z, Quarter(d))) \in -1 .. 2
  BY <1>1, <1>6, TurnedPhase
<1> QED
  BY <1>5, <1>9, <1>10, NoTurn

(* ... and a hand turns by its velocity in every channel and reaches them  *)
(* with the phases of its direction in every chirp.                        *)
LEMMA TurnsOfHand ==
    ASSUME NEW s \in Scenes, s.silent = {}, NEW hand \in Moving(s), NEW b, b = hand.bin,
           NEW x, x = RangeImage(s), NEW ch \in Channels, NEW c \in Chirps
    PROVE  LET at == x[Place(ch, c, b)]
           IN  /\ HasAngle(at)
               /\ Angle(at) \in -1 .. 2
               /\ Angle(at) % 4 = (hand.velocity * c + s.direction[ch]) % 4
<1> DEFINE d == s.direction[ch]
           w == hand.velocity
           at == x[Place(ch, c, b)]
<1>1. /\ b \in RangeBins /\ b # 0 /\ d \in Int /\ c \in Int /\ w \in Int /\ w % 4 # 0
      /\ hand.size \in Nat \ {0} /\ Strength(s, ch, b) = hand.size /\ Turn(s, b) = w
  BY HandInBin, SceneTypes, SlimSizes
<1>2. PICK z \in Nat, v \in Int :
            /\ \A j \in Chirps : Echo(s, ch, j, b) = Scale(z, Quarter(v * j + d))
            /\ v % 4 = 0 => Strength(s, ch, b) = 0
            /\ v % 4 # 0 => Strength(s, ch, b) = z /\ Turn(s, b) = v
  BY <1>1, EchoesOfBin
<1>3. z \in Nat \ {0} /\ v = w
  BY <1>1, <1>2
<1>4. at = Scale(z, Quarter(w * c + d))
  BY <1>1, <1>2, <1>3, ImageAt
<1> DEFINE k == w * c + d
<1>5. k \in Int /\ at = Scale(z, Quarter(k))
  BY <1>1, <1>4
<1> HIDE DEF at, k
<1>6. HasAngle(at) /\ Angle(at) \in -1 .. 2 /\ Angle(at) % 4 = k % 4
  BY <1>3, <1>5, TurnedPhase
<1> QED
  BY <1>6 DEF at, k, w, d

LEMMA SuperSlimHand ==
    ASSUME NEW s \in Scenes, s.silent = {}, NEW hand \in Moving(s), NEW b, b = hand.bin,
           NEW x, x = RangeImage(s), NEW success,
           success <=> \A ch \in Channels, c \in Chirps : HasAngle(x[Place(ch, c, b)]),
           NEW f,
           success =>
            /\ f.range_bin = b
            /\ f.doppler = SumOf([ch \in Channels |->
                    PhaseDifference(Angle(x[Place(ch, 1, b)]), Angle(x[Place(ch, 0, b)]), 4)])
            /\ f.azimuth = SumOf([c \in Chirps |->
                    PhaseMonopulse(Angle(x[Place(2, c, b)]), Angle(x[Place(0, c, b)]))])
            /\ f.elevation = SumOf([c \in Chirps |->
                    PhaseMonopulse(Angle(x[Place(2, c, b)]), Angle(x[Place(1, c, b)]))])
    PROVE  success /\ HandsFeatures("super_slim", hand, s, f)
<1> DEFINE p(ch, c) == Angle(x[Place(ch, c, b)])
           d(ch) == s.direction[ch]
           w == hand.velocity
           Turns == [ch \in Channels |-> PhaseDifference(p(ch, 1), p(ch, 0), 4)]
           Between(ch) == [c \in Chirps |-> PhaseDifference(p(2, c), p(ch, c), 4)]
<1>1. /\ Channels = 0 .. 2 /\ 0 \in Channels /\ 1 \in Channels /\ 2 \in Channels
      /\ 0 \in Chirps /\ 1 \in Chirps /\ \A c \in Chirps : c \in Int
  BY SlimSizes
<1>2. \A ch \in Channels, c \in Chirps :
            /\ HasAngle(x[Place(ch, c, b)])
            /\ p(ch, c) \in -1 .. 2 /\ p(ch, c) % 4 = (w * c + d(ch)) % 4
  BY TurnsOfHand
<1>3. success
  BY <1>2
<1>4. /\ f.range_bin = b /\ f.doppler = SumOf(Turns)
      /\ f.azimuth = SumOf(Between(0)) /\ f.elevation = SumOf(Between(1))
  BY <1>3 DEF PhaseMonopulse
<1>5. w \in Int /\ \A ch \in Channels : d(ch) \in Int
  BY HandInBin, SceneTypes
<1> HIDE DEF p, d, w
<1>6. Turns \in [0 .. 2 -> Int] /\ \A ch \in 0 .. 2 : IsWrapOf(Turns[ch], -w)
  <2> SUFFICES ASSUME NEW ch \in Channels
               PROVE  /\ PhaseDifference(p(ch, 1), p(ch, 0), 4) \in Int
                      /\ IsWrapOf(PhaseDifference(p(ch, 1), p(ch, 0), 4), -w)
    BY <1>1
  <2> DEFINE a0 == w * 0 + d(ch)
             a1 == w * 1 + d(ch)
  <2>1. a0 \in Int /\ a1 \in Int /\ -w = a0 - a1 /\ -w \in Int
    BY <1>5
  <2>2. p(ch, 1) \in -1 .. 2 /\ p(ch, 1) % 4 = a1 % 4 /\ p(ch, 0) \in -1 .. 2 /\ p(ch, 0) % 4 = a0 % 4
    BY <1>1, <1>2
  <2> HIDE DEF a0, a1
  <2> QED
    BY <2>1, <2>2, WrapOfAngles
<1>7. ASSUME NEW ch \in Channels
      PROVE  Between(ch) \in [Chirps -> Int] /\ \A c \in Chirps : IsWrapOf(Between(ch)[c], d(ch) - d(2))
  <2> SUFFICES ASSUME NEW c \in Chirps
               PROVE  /\ PhaseDifference(p(2, c), p(ch, c), 4) \in Int
                      /\ IsWrapOf(PhaseDifference(p(2, c), p(ch, c), 4), d(ch) - d(2))
    BY <1>1
  <2> DEFINE a0 == w * c + d(ch)
             a2 == w * c + d(2)
             n == d(ch) - d(2)
  <2>1. a0 \in Int /\ a2 \in Int /\ n = a0 - a2 /\ n \in Int
    <3>1. w * c \in Int /\ d(ch) \in Int /\ d(2) \in Int
      BY <1>1, <1>5
    <3> QED
      BY <3>1
  <2>2. p(2, c) \in -1 .. 2 /\ p(2, c) % 4 = a2 % 4 /\ p(ch, c) \in -1 .. 2 /\ p(ch, c) % 4 = a0 % 4
    BY <1>1, <1>2
  <2> HIDE DEF a0, a2, n
  <2>3. PhaseDifference(p(2, c), p(ch, c), 4) \in Int /\ IsWrapOf(PhaseDifference(p(2, c), p(ch, c), 4), n)
    BY <2>1, <2>2, WrapOfAngles
  <2> QED
    BY <2>3 DEF n
<1> HIDE DEF Turns, Between
<1>8. IsMeanOf(SumOf(Turns), 3, -w)
  <2>1. -w \in Int
    BY <1>5
  <2> QED
    BY <1>6, <2>1, MeanOfThree
<1>9. ASSUME NEW ch \in {0, 1} PROVE IsMeanOf(SumOf(Between(ch)), f_cfg.n_chirps, d(ch) - d(2))
  <2> DEFINE n == d(ch) - d(2)
             F == Between(ch)
  <2>1. n \in Int /\ F \in [Chirps -> Int] /\ \A c \in Chirps : IsWrapOf(F[c], n)
    BY <1>1, <1>5, <1>7
  <2> HIDE DEF n, F
  <2>2. IsMeanOf(SumOf(F), f_cfg.n_chirps, n)
    BY <2>1, MeanOfChirps
  <2> QED
    BY <2>2 DEF n, F
<1>10. "super_slim" # "slim"
  OBVIOUS
<1> QED
  BY <1>3, <1>4, <1>8, <1>9, <1>10 DEF HandsFeatures, w, d

LEMMA SuperSlimFeatures ==
    ASSUME NEW s \in Scenes, NEW b \in RangeBins, b >= min_range_bin, Pointed(s, b),
           NEW x, x = RangeImage(s), NEW success,
           success <=> \A ch \in Channels, c \in Chirps : HasAngle(x[Place(ch, c, b)]),
           NEW f,
           success =>
            /\ f.range_bin = b
            /\ f.doppler = SumOf([ch \in Channels |->
                    PhaseDifference(Angle(x[Place(ch, 1, b)]), Angle(x[Place(ch, 0, b)]), 4)])
            /\ f.azimuth = SumOf([c \in Chirps |->
                    PhaseMonopulse(Angle(x[Place(2, c, b)]), Angle(x[Place(0, c, b)]))])
            /\ f.elevation = SumOf([c \in Chirps |->
                    PhaseMonopulse(Angle(x[Place(2, c, b)]), Angle(x[Place(1, c, b)]))])
    PROVE  FeaturesOf("super_slim", s, success, f)
<1> DEFINE Turns == [ch \in Channels |->
                PhaseDifference(Angle(x[Place(ch, 1, b)]), Angle(x[Place(ch, 0, b)]), 4)]
<1>1. Channels = 0 .. 2 /\ 0 \in Chirps
  BY SlimSizes
<1>2. ASSUME success, Moving(s) = {} PROVE f.doppler = 0
  <2>1. \A ch \in Channels : Turns[ch] = 0
    <3> SUFFICES ASSUME NEW ch \in Channels PROVE Turns[ch] = 0
      OBVIOUS
    <3>1. HasAngle(x[Place(ch, 0, b)])
      BY <1>1, <1>2
    <3> QED
      BY <1>2, <3>1, StandsStill
  <2>2. f.doppler = SumOf(Turns) /\ Turns = [ch \in 0 .. 2 |-> Turns[ch]]
    BY <1>1, <1>2
  <2> HIDE DEF Turns
  <2>3. Turns \in [0 .. 2 -> Int] /\ Turns[0] = 0 /\ Turns[1] = 0 /\ Turns[2] = 0
    BY <1>1, <2>1, <2>2
  <2>4. SumOf(Turns) = Turns[0] + Turns[1] + Turns[2]
    BY <2>3, SumOfThree
  <2> QED
    BY <2>2, <2>3, <2>4
<1>3. ASSUME s.silent = {}, NEW hand \in Moving(s), b = hand.bin
      PROVE  success /\ HandsFeatures("super_slim", hand, s, f)
  BY <1>3, SuperSlimHand
<1>4. ASSUME Near(s) PROVE success /\ HandsFeatures("super_slim", Nearest(s), s, f)
  <2>1. s.silent = {} /\ Nearest(s) \in Moving(s) /\ b = Nearest(s).bin
    BY <1>4, NearestIs DEF Near, Pointed
  <2> QED
    BY <1>3, <2>1
<1>5. ASSUME Far(s) PROVE success /\ \E t \in Strongest(s) : HandsFeatures("super_slim", t, s, f)
  <2>1. PICK t \in Strongest(s) : b = t.bin
    BY <1>5 DEF Pointed
  <2>2. s.silent = {} /\ t \in Moving(s)
    BY <1>5 DEF Far, Strongest
  <2> QED
    BY <1>3, <2>1, <2>2
<1> QED
  BY <1>2, <1>4, <1>5 DEF FeaturesOf

-----------------------------------------------------------------------------
(* The invariant: what the work arrays hold of the scene, step by step.    *)

SlimInv ==
    /\ algorithm \in {"slim", "super_slim"}
    /\ slim_step \in {"image", "moving", "profile", "range", "doppler", "result", "fed"}
        => scene \in Scenes
    /\ slim_step = "image" => x_range = RangeImage(scene)
    /\ slim_step \in {"image", "moving", "profile", "range"} /\ algorithm = "super_slim"
        => x_range_keep = RangeImage(scene)
    /\ slim_step \in {"moving", "profile", "range"} => x_range = MeanRemoved(RangeImage(scene))
    /\ slim_step = "profile" /\ scene.silent = {} =>
        \A i \in Indices(f_cfg.n_range_bins - min_range_bin) :
            range_profile[i] = (len_cch * ChirpsCounted) * Strength(scene, 0, i + min_range_bin)
    /\ slim_step \in {"range", "doppler"} =>
        /\ idx_peak_range \in min_range_bin .. f_cfg.n_range_bins - 1
        /\ Pointed(scene, idx_peak_range)
    /\ slim_step = "doppler" =>
        /\ algorithm = "slim"
        /\ x_doppler = SingleRangeBinDoppler(MeanRemoved(RangeImage(scene)), idx_peak_range)
        /\ doppler_profile = DopplerProfile(x_doppler)
    /\ slim_step = "result" =>
        FeaturesOf(algorithm, scene, slim_res.success, slim_res.detection)
    /\ slim_step = "fed" => FeaturesOf(algorithm, scene, slim_res.success, model_in)

LEMMA SlimStarts == SlimInit => SlimInv
BY SlimAssumption DEF SlimAssumption, SlimInit, SlimInv

LEMMA SlimPreparesStep ==
    ASSUME SlimInv, NewWorkArrays \/ BuildRangeImage \/ RemoveMean \/ FeedModel \/ FreeWorkArrays
    PROVE  SlimInv'
<1>1. CASE NewWorkArrays
  BY <1>1 DEF NewWorkArrays, SlimInv, slimArrays, peakVars
<1>2. CASE BuildRangeImage
  BY <1>2, Zenon DEF BuildRangeImage, SlimInv, peakVars
<1>3. CASE RemoveMean
  BY <1>3 DEF RemoveMean, SlimInv, peakVars
<1>4. CASE FeedModel
  BY <1>4 DEF FeedModel, SlimInv, slimArrays, peakVars
<1>5. CASE FreeWorkArrays
  BY <1>5 DEF FreeWorkArrays, SlimInv, slimArrays, peakVars
<1> QED
  BY <1>1, <1>2, <1>3, <1>4, <1>5

LEMMA SlimProfileStep ==
    ASSUME SlimInv, GetRangeProfile
    PROVE  SlimInv'
<1>1. /\ algorithm \in {"slim", "super_slim"} /\ scene \in Scenes
      /\ x_range = MeanRemoved(RangeImage(scene))
      /\ algorithm = "super_slim" => x_range_keep = RangeImage(scene)
  BY DEF SlimInv, GetRangeProfile
<1>2. /\ slim_step' = "profile" /\ ChirpsCounted' = ChirpsCounted
      /\ UNCHANGED <<algorithm, scene, x_range, x_range_keep>>
  BY DEF GetRangeProfile, ChirpsCounted
<1>3. ASSUME scene.silent = {}
      PROVE  \A i \in Indices(f_cfg.n_range_bins - min_range_bin) :
                range_profile'[i] = (len_cch * ChirpsCounted) * Strength(scene, 0, i + min_range_bin)
  <2>1. CASE algorithm = "slim"
    <3>1. range_profile' = RangeProfile(MeanRemoved(RangeImage(scene)), 1, range_profile)
      BY <1>1, <2>1 DEF GetRangeProfile
    <3>2. ChirpsCounted = f_cfg.n_chirps - 1 /\ 1 \in {0, 1}
      BY <2>1 DEF ChirpsCounted
    <3>3. \A i \in Indices(f_cfg.n_range_bins - min_range_bin) :
                RangeProfile(MeanRemoved(RangeImage(scene)), 1, range_profile)[i]
                    = (len_cch * (f_cfg.n_chirps - 1)) * Strength(scene, 0, i + min_range_bin)
      BY <1>1, <1>3, <3>2, ProfileOfMovers
    <3> QED
      BY <3>1, <3>2, <3>3
  <2>2. CASE algorithm # "slim"
    <3>1. range_profile' = RangeProfile(MeanRemoved(RangeImage(scene)), 0, [i \in RangeBins |-> 0])
      BY <1>1, <2>2 DEF GetRangeProfile, RangeProfileSuperSlim
    <3>2. ChirpsCounted = f_cfg.n_chirps - 0 /\ 0 \in {0, 1}
      BY <2>2, SlimSizes DEF ChirpsCounted
    <3>3. \A b \in Indices(f_cfg.n_range_bins - min_range_bin) :
                RangeProfile(MeanRemoved(RangeImage(scene)), 0, [i \in RangeBins |-> 0])[b]
                    = (len_cch * (f_cfg.n_chirps - 0)) * Strength(scene, 0, b + min_range_bin)
      BY <1>1, <1>3, <3>2, ProfileOfMovers
    <3> QED
      BY <3>1, <3>2, <3>3
  <2> QED
    BY <2>1, <2>2
<1> QED
  BY <1>1, <1>2, <1>3 DEF SlimInv

LEMMA SlimRangeStep ==
    ASSUME SlimInv, FindRange
    PROVE  SlimInv'
<1> DEFINE len == f_cfg.n_range_bins - min_range_bin
           least == FilterFloor * ChirpsCounted
           k == len_cch * ChirpsCounted
<1>1. /\ algorithm \in {"slim", "super_slim"} /\ scene \in Scenes
      /\ x_range = MeanRemoved(RangeImage(scene))
      /\ algorithm = "super_slim" => x_range_keep = RangeImage(scene)
      /\ scene.silent = {} =>
            \A i \in Indices(f_cfg.n_range_bins - min_range_bin) :
                range_profile[i] = k * Strength(scene, 0, i + min_range_bin)
  BY DEF SlimInv, FindRange
<1>2. /\ slim_step' = "range"
      /\ UNCHANGED <<algorithm, scene, x_range, x_range_keep>>
  BY DEF FindRange, slimArrays
<1>3. PICK peak \in ArgMaxima(range_profile, len) :
            idx_peak_range' = min_range_bin + FilterRangeProfile(range_profile, len, peak, least)
  BY DEF FindRange
<1>4. len \in Nat /\ min_range_bin \in Int /\ f_cfg.n_range_bins \in Int
  BY SlimSizes
<1>5. idx_peak_range' \in min_range_bin .. f_cfg.n_range_bins - 1
  <2> DEFINE found == FilterRangeProfile(range_profile, len, peak, least)
  <2>1. found \in Indices(len)
    <3>1. peak \in Indices(len)
      BY <1>3 DEF ArgMaxima
    <3> HIDE DEF len, least
    <3> QED
      BY <1>4, <3>1, FilterInProfile
  <2>2. found \in 0 .. len - 1
    BY <2>1 DEF Indices
  <2>3. idx_peak_range' = min_range_bin + found
    BY <1>3
  <2> HIDE DEF found
  <2> QED
    BY <1>4, <2>2, <2>3
<1>6. /\ ChirpsCounted \in Nat \ {0} /\ FilterFloor \in Nat \ {0} /\ len_cch \in Nat \ {0}
  <2>1. f_cfg.n_chirps \in Nat /\ f_cfg.n_chirps >= 16 /\ len_cch = 3 * f_cfg.n_chirps
    BY SlimSizes
  <2>2. FilterFloor \in Nat \ {0}
    BY SlimAssumption DEF SlimAssumption
  <2>3. ChirpsCounted \in Nat \ {0}
    BY <2>1 DEF ChirpsCounted
  <2>4. len_cch \in Nat \ {0}
    BY <2>1
  <2> QED
    BY <2>2, <2>3, <2>4
<1>7. k \in Nat \ {0} /\ least \in Nat \ {0}
  <2> DEFINE a == ChirpsCounted
             c == len_cch
             g == FilterFloor
  <2>1. a \in Nat \ {0} /\ c \in Nat \ {0} /\ g \in Nat \ {0}
    BY <1>6
  <2> HIDE DEF a, c, g
  <2>2. c * a \in Nat \ {0} /\ g * a \in Nat \ {0}
    BY <2>1
  <2> QED
    BY <2>2 DEF a, c, g
<1>8. ASSUME NEW t, t.size \in Nat
      PROVE  /\ Loud(t) => 3989 * (k * t.size) >= least
             /\ Faint(t) => 9999 * (k * t.size) < least
  <2> DEFINE a == ChirpsCounted
             c == len_cch
             g == FilterFloor
             z == t.size
  <2>1. a \in Nat \ {0} /\ c \in Nat \ {0} /\ g \in Nat \ {0} /\ z \in Nat
    BY <1>6, <1>8
  <2>2. /\ Loud(t) => 3989 * c * z >= g
        /\ Faint(t) => 9999 * c * z < g
    BY DEF Loud, Faint
  <2> HIDE DEF a, c, g, z
  <2>3. \A w \in {3989, 9999} : w * ((c * a) * z) = a * (w * c * z) /\ w * c * z \in Int
    <3> SUFFICES ASSUME NEW w \in {3989, 9999}
                 PROVE  w * ((c * a) * z) = a * (w * c * z) /\ w * c * z \in Int
      OBVIOUS
    <3>1. w \in Int /\ c * z \in Int
      BY <2>1
    <3>2. w * c * z \in Int
      BY <2>1, <3>1
    <3>3. w * ((c * a) * z) = a * (w * c * z)
      BY <2>1, <3>1
    <3> QED
      BY <3>2, <3>3
  <2>4. \A x \in Int, y \in Int : (x >= y => a * x >= a * y) /\ (x < y => a * x < a * y)
    <3> SUFFICES ASSUME NEW x \in Int, NEW y \in Int
                 PROVE  (x >= y => a * x >= a * y) /\ (x < y => a * x < a * y)
      OBVIOUS
    <3> DEFINE e == x - y
    <3>1. e \in Int /\ a * x = a * y + a * e /\ a * y \in Int /\ a * e \in Int
      BY <2>1
    <3>2. (e >= 0 => a * e >= 0) /\ (e < 0 => a * e < 0)
      <4> HIDE DEF e
      <4> QED
        BY <2>1, <3>1
    <3>3. (x >= y => e >= 0) /\ (x < y => e < 0)
      OBVIOUS
    <3> HIDE DEF e
    <3> QED
      BY <3>1, <3>2, <3>3
  <2>5. g * a = a * g
    BY <2>1
  <2>6. ASSUME 3989 * c * z >= g PROVE 3989 * ((c * a) * z) >= g * a
    <3>1. a * (3989 * c * z) >= a * g
      BY <2>1, <2>3, <2>4, <2>6
    <3> QED
      BY <2>3, <2>5, <3>1
  <2>7. ASSUME 9999 * c * z < g PROVE 9999 * ((c * a) * z) < g * a
    <3>1. a * (9999 * c * z) < a * g
      BY <2>1, <2>3, <2>4, <2>7
    <3> QED
      BY <2>3, <2>5, <3>1
  <2> QED
    BY <2>2, <2>6, <2>7 DEF a, c, g, z
<1>9. \A t \in Moving(scene) : t.size \in Nat
  BY <1>1, SceneTypes DEF Moving
<1> HIDE DEF k, least
<1>10. ASSUME Near(scene) PROVE idx_peak_range' = Nearest(scene).bin
  <2>1. /\ scene.silent = {} /\ Moving(scene) # {} /\ Apart(scene) /\ Loud(Nearest(scene))
    BY <1>10 DEF Near
  <2>2. Nearest(scene).size \in Nat
    BY <1>1, <1>9, <2>1, NearestIs
  <2>3. 3989 * (k * Nearest(scene).size) >= least
    BY <1>8, <2>1, <2>2
  <2>4. /\ \A i \in Indices(f_cfg.n_range_bins - min_range_bin) :
                range_profile[i] = k * Strength(scene, 0, i + min_range_bin)
        /\ least \in Nat
    BY <1>1, <1>7, <2>1
  <2>5. min_range_bin + FilterRangeProfile(range_profile, len, peak, least) = Nearest(scene).bin
    BY <1>1, <1>3, <1>7, <2>1, <2>3, <2>4, RangeOfNearest
  <2> QED
    BY <1>3, <2>5
<1>11. ASSUME Far(scene) PROVE \E t \in Strongest(scene) : idx_peak_range' = t.bin
  <2>1. /\ scene.silent = {} /\ Moving(scene) # {} /\ \A t \in Moving(scene) : Faint(t)
    BY <1>11 DEF Far
  <2>2. \A t \in Moving(scene) : 9999 * (k * t.size) < least
    BY <1>8, <1>9, <2>1
  <2>3. /\ \A i \in Indices(f_cfg.n_range_bins - min_range_bin) :
                range_profile[i] = k * Strength(scene, 0, i + min_range_bin)
        /\ least \in Nat
    BY <1>1, <1>7, <2>1
  <2>4. \E t \in Strongest(scene) :
            min_range_bin + FilterRangeProfile(range_profile, len, peak, least) = t.bin
    BY <1>1, <1>3, <1>7, <2>1, <2>2, <2>3, RangeOfStrongest
  <2> QED
    BY <1>3, <2>4
<1>12. Pointed(scene, idx_peak_range')
  BY <1>10, <1>11 DEF Pointed
<1> QED
  BY <1>1, <1>2, <1>5, <1>12 DEF SlimInv

LEMMA SlimDopplerStep ==
    ASSUME SlimInv, GetDoppler
    PROVE  SlimInv'
<1>1. /\ algorithm = "slim" /\ scene \in Scenes /\ x_range = MeanRemoved(RangeImage(scene))
      /\ idx_peak_range \in min_range_bin .. f_cfg.n_range_bins - 1
      /\ Pointed(scene, idx_peak_range)
  BY DEF SlimInv, GetDoppler
<1>2. /\ slim_step' = "doppler"
      /\ UNCHANGED <<algorithm, scene, idx_peak_range>>
      /\ x_doppler' = SingleRangeBinDoppler(x_range, idx_peak_range)
      /\ doppler_profile' = DopplerProfile(x_doppler')
  BY DEF GetDoppler, peakVars
<1> QED
  BY <1>1, <1>2 DEF SlimInv

LEMMA SlimDetectStep ==
    ASSUME SlimInv, Detect
    PROVE  SlimInv'
<1> DEFINE y == SingleRangeBinDoppler(MeanRemoved(RangeImage(scene)), idx_peak_range)
           D == DopplerProfile(y)
           At(k, ch) == y[ch * f_cfg.n_chirps + k]
<1>1. /\ algorithm = "slim" /\ scene \in Scenes
      /\ idx_peak_range \in min_range_bin .. f_cfg.n_range_bins - 1
      /\ Pointed(scene, idx_peak_range)
      /\ x_doppler = y /\ doppler_profile = D
  BY DEF SlimInv, Detect
<1>2. /\ slim_step' = "result"
      /\ UNCHANGED <<algorithm, scene>>
  BY DEF Detect
<1> HIDE DEF y, D
<1>3. PICK k \in ArgMaxima(D, f_cfg.n_chirps) :
        slim_res' \in IF \A ch \in Channels : HasAngle(At(k, ch))
              THEN {[success |-> TRUE,
                    detection |-> [range_bin |-> idx_peak_range, doppler |-> k,
                                   azimuth   |-> PhaseMonopulse(Angle(At(k, 2)), Angle(At(k, 0))),
                                   elevation |-> PhaseMonopulse(Angle(At(k, 2)), Angle(At(k, 1))),
                                   value     |-> D[k]]]}
              ELSE Failed
  BY <1>1 DEF Detect
<1> DEFINE all == \A ch \in Channels : HasAngle(At(k, ch))
           success == slim_res'.success
           f == slim_res'.detection
<1>4. success <=> all
  <2>1. \A r \in Failed : r.success = FALSE
    BY DEF Failed
  <2> QED
    BY <1>3, <2>1
<1>5. success => f = [range_bin |-> idx_peak_range, doppler |-> k,
                      azimuth   |-> PhaseMonopulse(Angle(At(k, 2)), Angle(At(k, 0))),
                      elevation |-> PhaseMonopulse(Angle(At(k, 2)), Angle(At(k, 1))),
                      value     |-> D[k]]
  BY <1>3, <1>4
<1>6. idx_peak_range \in RangeBins /\ idx_peak_range >= min_range_bin
  BY <1>1, SlimSizes
<1> HIDE DEF success, f
<1>7. FeaturesOf("slim", scene, success, f)
  <2>1. Pointed(scene, idx_peak_range)
    BY <1>1
  <2>2. k \in ArgMaxima(DopplerProfile(y), f_cfg.n_chirps)
    BY <1>3 DEF D
  <2>3. success => f = [range_bin |-> idx_peak_range, doppler |-> k,
                      azimuth   |-> PhaseMonopulse(Angle(At(k, 2)), Angle(At(k, 0))),
                      elevation |-> PhaseMonopulse(Angle(At(k, 2)), Angle(At(k, 1))),
                      value     |-> DopplerProfile(y)[k]]
    BY <1>5 DEF D
  <2>4. y = SingleRangeBinDoppler(MeanRemoved(RangeImage(scene)), idx_peak_range)
    BY DEF y
  <2> QED
    BY <1>1, <1>4, <1>6, <2>1, <2>2, <2>3, <2>4, SlimFeatures
<1> QED
  BY <1>1, <1>2, <1>7 DEF SlimInv, success, f

LEMMA SuperSlimDetectStep ==
    ASSUME SlimInv, DetectSuperSlim
    PROVE  SlimInv'
<1> DEFINE x == RangeImage(scene)
           b == idx_peak_range
           At(ch, c) == x[Place(ch, c, b)]
           success == slim_res'.success
           f == slim_res'.detection
<1>1. /\ algorithm = "super_slim" /\ scene \in Scenes /\ x_range_keep = x
      /\ b \in min_range_bin .. f_cfg.n_range_bins - 1
      /\ Pointed(scene, b)
  BY DEF SlimInv, DetectSuperSlim
<1>2. /\ slim_step' = "result"
      /\ UNCHANGED <<algorithm, scene>>
  BY DEF DetectSuperSlim
<1> HIDE DEF x
<1>3. slim_res' \in
             IF \A ch \in Channels, c \in Chirps : HasAngle(At(ch, c))
             THEN {[success |-> TRUE,
                   detection |->
                    [range_bin |-> b,
                     doppler   |-> SumOf([ch \in Channels |->
                                    PhaseDifference(Angle(At(ch, 1)), Angle(At(ch, 0)), 4)]),
                     azimuth   |-> SumOf([c \in Chirps |->
                                    PhaseMonopulse(Angle(At(2, c)), Angle(At(0, c)))]),
                     elevation |-> SumOf([c \in Chirps |->
                                    PhaseMonopulse(Angle(At(2, c)), Angle(At(1, c)))]),
                     value     |-> val_peak_range]]}
             ELSE Failed
  BY <1>1, Zenon DEF DetectSuperSlim, Place
<1>4. success <=> \A ch \in Channels, c \in Chirps : HasAngle(At(ch, c))
  <2>1. \A r \in Failed : r.success = FALSE
    BY DEF Failed
  <2> QED
    BY <1>3, <2>1
<1>5. success => /\ f.range_bin = b
                 /\ f.doppler = SumOf([ch \in Channels |->
                                    PhaseDifference(Angle(At(ch, 1)), Angle(At(ch, 0)), 4)])
                 /\ f.azimuth = SumOf([c \in Chirps |->
                                    PhaseMonopulse(Angle(At(2, c)), Angle(At(0, c)))])
                 /\ f.elevation = SumOf([c \in Chirps |->
                                    PhaseMonopulse(Angle(At(2, c)), Angle(At(1, c)))])
  BY <1>3, <1>4
<1>6. b \in RangeBins /\ b >= min_range_bin
  BY <1>1, SlimSizes
<1> HIDE DEF success, f, b
<1>7. FeaturesOf("super_slim", scene, success, f)
  <2>1. Pointed(scene, b)
    BY <1>1
  <2>2. x = RangeImage(scene)
    BY DEF x
  <2> QED
    BY <1>1, <1>4, <1>5, <1>6, <2>1, <2>2, SuperSlimFeatures
<1> QED
  BY <1>1, <1>2, <1>7 DEF SlimInv, success, f

LEMMA SlimInductive == SlimSpec => []SlimInv
<1>1. SlimInv /\ [SlimNext]_slimVars => SlimInv'
  <2> SUFFICES ASSUME SlimInv, [SlimNext]_slimVars PROVE SlimInv'
    OBVIOUS
  <2>1. CASE SlimNext
    BY <2>1, SlimPreparesStep, SlimProfileStep, SlimRangeStep, SlimDopplerStep,
       SlimDetectStep, SuperSlimDetectStep DEF SlimNext
  <2>2. CASE UNCHANGED slimVars
    <3>1. ChirpsCounted' = ChirpsCounted
      BY <2>2 DEF ChirpsCounted, slimVars
    <3> QED
      BY <2>2, <3>1 DEF SlimInv, slimVars, slimArrays, peakVars
  <2> QED
    BY <2>1, <2>2
<1> QED
  BY <1>1, SlimStarts, PTL DEF SlimSpec

(* What slim_algo hands to the model, and super_slim_algo finds, is the    *)
(* distance, the speed and the direction of one target that moves, for     *)
(* every number of bins and every number of chirps from 16 on that is a    *)
(* multiple of four: of the nearest one, as long as smoothing leaves the   *)
(* targets apart and it reaches the floor of filter_range_profile, and of  *)
(* the strongest one when none reaches that floor.  When nothing moves     *)
(* slim_algo reports nothing, and super_slim_algo nothing with a speed.    *)
THEOREM FeaturesAreOfNearestHand ==
    (SlimSpec => []FeaturesOfNearestHand) /\ (LibrariesSpec => []FeaturesOfNearestHand)
<1>1. SlimInv => FeaturesOfNearestHand
  <2> SUFFICES ASSUME SlimInv, slim_step = "fed" PROVE FeaturesOfNearestHand
    BY DEF FeaturesOfNearestHand
  <2>1. FeaturesOf(algorithm, scene, slim_res.success, model_in)
    BY DEF SlimInv
  <2>2. \A t : HandsFeatures(algorithm, t, scene, model_in) = AreFeaturesOf(t, scene, model_in)
    BY DEF HandsFeatures, AreFeaturesOf
  <2> QED
    BY <2>1, <2>2 DEF FeaturesOf, Near, Far, FeaturesOfNearestHand
<1> QED
  BY <1>1, SlimInductive, LibrariesExtract, PTL
=============================================================================
