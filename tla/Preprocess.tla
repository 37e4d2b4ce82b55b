---------------------------- MODULE Preprocess ------------------------------
(***************************************************************************)
(* The operators of the radar preprocessing that keep no state             *)
(* (proj_cm55/source/radar/preprocess/src: slice.c, windows.c and most of  *)
(* preprocess.c).  An array is a function over its indices from 0; an      *)
(* image is stored row by row and a frame image by image.                  *)
(*                                                                         *)
(* A sample is a Gaussian integer <<re, im>>, a magnitude is |re| + |im|,  *)
(* and a phase is in quarters of a turn.  A mean of n values is            *)
(* represented by their sum and a value it is taken from by n times the    *)
(* value: sizes are only compared, so units do not matter.                 *)
(***************************************************************************)
EXTENDS Integers, FiniteSets, FiniteSetsExt

Indices(n) == 0 .. n - 1

(* frame_cfg: a frame's dimensions.                                        *)
FrameConfig == [n_channels : Nat \ {0}, n_chirps : Nat \ {0},
                n_samples : Nat \ {0}, n_range_bins : Nat \ {0}]

U16(n) == n % 65536

-----------------------------------------------------------------------------
(* slice.c.                                                                *)

Slice2dRow(src, row, n_cols) == [i \in Indices(n_cols) |-> src[row * n_cols + i]]

Slice2dCol(src, col, n_rows, n_cols) ==
    [i \in Indices(n_rows) |-> src[i * n_cols + col]]

Slice3dRow(src, row, n_ch, n_rows, n_cols) ==
    [i \in Indices(n_ch * n_cols) |->
        src[(i \div n_cols) * n_rows * n_cols + row * n_cols + (i % n_cols)]]

Slice3dCol(src, col, n_ch, n_rows, n_cols) ==
    [i \in Indices(n_ch * n_rows) |->
        src[(i \div n_rows) * n_rows * n_cols + (i % n_rows) * n_cols + col]]

-----------------------------------------------------------------------------
(* windows.c.  The weights keep the order of what they weight.             *)

WindowSizes == {16, 32, 64, 128, 256}

(* get_window aborts for another size.                                     *)
HasWindow(size) == size \in WindowSizes

-----------------------------------------------------------------------------
(* Numbers.                                                                *)

Zero == <<0, 0>>
Plus(a, b)  == <<a[1] + b[1], a[2] + b[2]>>
Times(a, b) == <<a[1] * b[1] - a[2] * b[2], a[1] * b[2] + a[2] * b[1]>>
Scale(k, a) == <<k * a[1], k * a[2]>>
SumOf(f) == MapThenSumSet(LAMBDA i : f[i], DOMAIN f)
Total(f, S) == <<SumOf([i \in S |-> f[i][1]]), SumOf([i \in S |-> f[i][2]])>>
Size(n)     == IF n < 0 THEN -n ELSE n
Magnitude(a) == Size(a[1]) + Size(a[2])

(* A number of size 1 at k quarters of a turn.                             *)
Quarter(k) == CASE k % 4 = 0 -> <<1, 0>> [] k % 4 = 1 -> <<0, 1>>
                [] k % 4 = 2 -> <<-1, 0>> [] k % 4 = 3 -> <<0, -1>>

(* The index of a maximum that arm_max_f32 reports; of equal ones, any.    *)
ArgMaxima(f, len) == {i \in Indices(len) : \A j \in Indices(len) : f[j] <= f[i]}

-----------------------------------------------------------------------------
(* Phases.                                                                 *)

(* angle: arm_atan2_f32 has no answer for 0 and one above -half and up to  *)
(* half a turn for the rest; the model's phases are whole quarters.        *)
HasAngle(a) == a # Zero
Angle(a) == CASE a[2] = 0 /\ a[1] > 0 -> 0 [] a[1] = 0 /\ a[2] > 0 -> 1
              [] a[2] = 0 /\ a[1] < 0 -> 2 [] a[1] = 0 /\ a[2] < 0 -> -1

(* rintf of n / d: to the nearest, and to an even number from the middle.  *)
Rint(n, d) ==
    LET q == n \div d  r == n % d
    IN  IF 2 * r < d \/ (2 * r = d /\ q % 2 = 0) THEN q ELSE q + 1

(* get_phase_difference, with phases in units of which a turn has many.    *)
PhaseDifference(phase0, phase1, turn) ==
    (phase1 - phase0) - turn * Rint(phase1 - phase0, turn)

(* phase_monopulse, up to its asin.                                        *)
PhaseMonopulse(phase0, phase1) == PhaseDifference(phase0, phase1, 4)

-----------------------------------------------------------------------------
(* Frames.                                                                 *)

(* fftshift_cf64, for an array of even length: the halves change places.   *)
FftShift(in, len) ==
    LET half == len \div 2
    IN  [i \in Indices(len) |-> IF i < half THEN in[i + half] ELSE in[i - half]]

(* cmplx_image_transpose describes the destination with the dimensions of  *)
(* the source.  A CMSIS that checks its matrices refuses that, and leaves  *)
(* dst as it is, unless they are square.                                   *)
TransposeRefused(num_rows, num_cols, checked) == checked /\ num_rows # num_cols

TransposedFrom(i, num_rows, num_cols) == (i % num_rows) * num_cols + (i \div num_rows)

ImageTranspose(src, dst, num_rows, num_cols, checked) ==
    [i \in DOMAIN dst |->
        IF TransposeRefused(num_rows, num_cols, checked) \/ i \notin Indices(num_rows * num_cols)
        THEN dst[i] ELSE src[TransposedFrom(i, num_rows, num_cols)]]

(* cmplx_frame_transpose: the image of every channel at its offset, which  *)
(* is a uint16_t, one channel over the other where the offsets wrap.       *)
FrameTranspose(src, dst, cfg, checked) ==
    LET size       == cfg.n_chirps * cfg.n_range_bins
        Offset(ch) == U16(ch * size)
        Over(p)    == {ch \in Indices(cfg.n_channels) : p - Offset(ch) \in Indices(size)}
    IN  [p \in DOMAIN dst |->
            IF TransposeRefused(cfg.n_chirps, cfg.n_range_bins, checked) \/ Over(p) = {}
            THEN dst[p]
            ELSE LET offset == Offset(Max(Over(p)))
                 IN  src[offset + TransposedFrom(p - offset, cfg.n_chirps, cfg.n_range_bins)]]

(* The indices that remove_mean_cf64 goes over.                            *)
Line(first, n_el, step_size) == {first + i * step_size : i \in Indices(n_el)}

(* The lines whose means remove_mean_3d_cf64 removes, by axis; a step is a *)
(* uint16_t.                                                               *)
MeanLines(axis, n_ch, n_rows, n_cols) ==
    CASE axis = 0 -> {Line(el, n_ch, U16(n_rows * n_cols)) : el \in Indices(n_rows * n_cols)}
      [] axis = 1 -> {Line(ch * n_rows * n_cols + col, n_rows, n_cols) :
                        ch \in Indices(n_ch), col \in Indices(n_cols)}
      [] axis = 2 -> {Line(ch * n_rows * n_cols + row * n_cols, n_cols, 1) :
                        ch \in Indices(n_ch), row \in Indices(n_rows)}

(* mean_rdi_channel_f32.                                                   *)
MeanOverChannels(abs, cfg) ==
    LET len == cfg.n_chirps * cfg.n_range_bins
    IN  [i \in Indices(len) |-> SumOf([ch \in Indices(cfg.n_channels) |-> abs[ch * len + i]])]
=============================================================================
