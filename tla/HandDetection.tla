---------------------------- MODULE HandDetection ---------------------------
(***************************************************************************)
(* algo, the library's detection of a hand in front of a person            *)
(* (proj_cm55/source/radar/preprocess/src/preprocess.c).  It follows the   *)
(* person from frame to frame, searches a band in front of them and masks  *)
(* them out, takes the strongest velocities there, joins neighbouring ones *)
(* into clusters and picks a cluster.  Nothing in this repository calls    *)
(* it, so what its arguments may be is an assumption here.                 *)
(*                                                                         *)
(* The transforms are CMSIS's and external: a frame is its range-Doppler   *)
(* images.  Samples, means and phases are those of Preprocess.             *)
(***************************************************************************)
EXTENDS Preprocess, Sequences, Functions

CONSTANTS
    hand_cfg,                          \* the dimensions of a frame
    band_min, band_max, band_offset,   \* the band in front of the person
    range_min,                         \* the nearest bin searched
    guard_range, guard_doppler,        \* what of the person is masked
    position_min,                      \* the nearest bin of a person
    AlphaNum, AlphaDen,                \* alpha of estimate_human_cfg
    threshold,
    DetectionModes,                    \* what the caller asks for
    RdiImages,                         \* what frames show
    MaxHandFrames                      \* bound: frames

ASSUME HandAssumption ==
    /\ hand_cfg \in FrameConfig /\ hand_cfg.n_channels = 3
    /\ hand_cfg.n_chirps % 2 = 0 /\ hand_cfg.n_chirps >= 16
    /\ hand_cfg.n_samples = 2 * hand_cfg.n_range_bins
    /\ hand_cfg.n_channels * hand_cfg.n_chirps * hand_cfg.n_samples < 65536
    /\ band_min \in Nat /\ band_max \in Nat /\ band_offset \in Nat
    /\ 1 <= band_min /\ band_min <= band_max /\ band_offset <= band_max
    /\ band_max < 32768
    /\ range_min \in Indices(hand_cfg.n_range_bins)
    /\ position_min \in Indices(hand_cfg.n_range_bins)
    /\ guard_range \in 0 .. hand_cfg.n_range_bins
    /\ guard_doppler \in 0 .. (hand_cfg.n_chirps \div 2) - 1
    /\ AlphaDen \in Nat \ {0} /\ AlphaNum \in 0 .. AlphaDen
    /\ threshold \in Nat
    /\ DetectionModes \subseteq {"closest", "fastest"}
    /\ RdiImages \subseteq
        [Indices(hand_cfg.n_channels * (hand_cfg.n_chirps * hand_cfg.n_range_bins)) -> Int \X Int]
    /\ MaxHandFrames \in Nat

VARIABLES
    det_mode,
    hand_step,         \* where algo is
    hand_frames,       \* frames so far
    rdi, mean_abs_rdi, masked_mean_abs_rdi,
    position_current,  \* of estimate_human_cfg: a fraction, below 0 at first
    upper_limit, lower_limit,
    hand_search, human_mask,
    bg_level,          \* twice the level
    peaks,             \* the strongest velocities, the strongest first
    peak_idx,          \* how many of them are in clusters
    clusters,          \* at the place of its first peak each cluster
    hand_out           \* the caller's algo_output

arrays   == <<rdi, mean_abs_rdi, masked_mean_abs_rdi>>
limits   == <<upper_limit, lower_limit, hand_search, human_mask>>
detected == <<bg_level, peaks, peak_idx, clusters>>
handVars == <<det_mode, hand_step, hand_frames, arrays, position_current, limits,
              detected, hand_out>>

Rows == Indices(hand_cfg.n_chirps)
Cols == Indices(hand_cfg.n_range_bins)
mid  == hand_cfg.n_chirps \div 2
mean_rdi_size == hand_cfg.n_chirps * hand_cfg.n_range_bins
rdi_size == hand_cfg.n_channels * mean_rdi_size
Cell(row, col) == row * hand_cfg.n_range_bins + col

(* 0.2 of the velocities, cut off.                                         *)
n_peaks == hand_cfg.n_chirps \div 5

-----------------------------------------------------------------------------
(* A region: the rows and the columns from its start to before its end.    *)
Regions == [row_start : Nat, row_end : Nat, col_start : Nat, col_end : Nat]
RowsOf(r) == r.row_start .. r.row_end - 1
ColsOf(r) == r.col_start .. r.col_end - 1
InRegion(i, r) == /\ (i \div hand_cfg.n_range_bins) \in RowsOf(r)
                  /\ (i % hand_cfg.n_range_bins) \in ColsOf(r)

NoRegion == [row_start |-> 0, row_end |-> 0, col_start |-> 0, col_end |-> 0]
NoDetection == [doppler_bin |-> 65535, range_bin |-> 65535, value |-> -1]
NoOutput == [success |-> FALSE, human_position |-> <<-1, 1>>, detection |-> NoDetection,
             azimuth |-> 0, elevation |-> 0, bg_level |-> 0,
             lower_limit |-> 0, upper_limit |-> 0]

HandInit ==
    /\ det_mode \in DetectionModes
    /\ hand_step = "idle" /\ hand_frames = 0
    /\ rdi = <<>> /\ mean_abs_rdi = <<>> /\ masked_mean_abs_rdi = <<>>
    /\ position_current = <<-1, 1>>
    /\ upper_limit = 0 /\ lower_limit = 0
    /\ hand_search = NoRegion /\ human_mask = NoRegion
    /\ bg_level = 0 /\ peaks = <<>> /\ peak_idx = 0 /\ clusters = <<>>
    /\ hand_out = NoOutput

-----------------------------------------------------------------------------
(* build_complex_rdi, arm_cmplx_mag_f32 and mean_rdi_channel_f32.  A size  *)
(* without windows aborts.                                                 *)
BuildComplexRdi ==
    /\ hand_step = "idle" /\ hand_frames < MaxHandFrames
    /\ hand_frames' = hand_frames + 1
    /\ IF HasWindow(hand_cfg.n_samples) /\ HasWindow(hand_cfg.n_chirps)
       THEN /\ rdi' \in RdiImages
            /\ mean_abs_rdi' = MeanOverChannels(
                    [i \in Indices(rdi_size) |-> Magnitude(rdi'[i])], hand_cfg)
            /\ hand_step' = "image"
       ELSE hand_step' = "aborted" /\ UNCHANGED <<rdi, mean_abs_rdi>>
    /\ UNCHANGED <<det_mode, masked_mean_abs_rdi, position_current, limits, detected, hand_out>>

(* estimate_human: the strongest cell beside velocity 0, the first in the  *)
(* order of the search, is where the person is; the position follows it.   *)
SearchRows == {mid - 1, mid + 1}
PersonCols == {c \in Cols : c >= position_min}

Before(c, d) == c[1] < d[1] \/ (c[1] = d[1] /\ c[2] <= d[2])
HumanPeaks ==
    LET At(c)     == mean_abs_rdi[Cell(c[1], c[2])]
        strongest == {c \in SearchRows \X PersonCols :
                        \A d \in SearchRows \X PersonCols : At(d) <= At(c)}
    IN  {c \in strongest : \A d \in strongest : Before(c, d)}

Followed(peak_range) ==
    IF position_current[1] < 0 THEN <<peak_range, 1>>
    ELSE <<(AlphaDen - AlphaNum) * position_current[1]
                + AlphaNum * peak_range * position_current[2],
           AlphaDen * position_current[2]>>

EstimateHuman ==
    /\ hand_step = "image"
    /\ \E c \in HumanPeaks : position_current' = Followed(c[2])
    /\ hand_step' = "human"
    /\ UNCHANGED <<det_mode, hand_frames, arrays, limits, detected, hand_out>>

-----------------------------------------------------------------------------
(* The regions.                                                            *)

UpperRangeLimit(position) ==
    LET res == U16(U16(Rint(position[1], position[2])) + band_offset)
    IN  IF res < range_min + band_min THEN U16(range_min + band_min) ELSE res

LowerRangeLimit(roi_upper_limit) ==
    LET res == roi_upper_limit - band_max
    IN  U16(IF res < range_min THEN range_min ELSE res)

(* Mutant: the limit is not cut at the end of the image.                   *)
HandSearchUncut(lower, upper) ==
    [row_start |-> 0, row_end |-> hand_cfg.n_chirps, col_start |-> lower, col_end |-> upper]

(* get_hand_roi: the region of the search.                                 *)
HandSearch(lower, upper) ==
    [row_start |-> 0, row_end |-> hand_cfg.n_chirps, col_start |-> lower,
     col_end |-> IF upper > hand_cfg.n_range_bins THEN hand_cfg.n_range_bins ELSE upper]

(* get_hand_roi: what of it shows the person.                              *)
HumanMask(search, lower, upper) ==
    LET range_width == U16(upper - lower)
        guard == IF guard_range < range_width THEN guard_range ELSE range_width
    IN  [row_start |-> U16(mid - guard_doppler), row_end |-> U16(mid + guard_doppler + 1),
         col_start |-> U16(search.col_end - guard), col_end |-> search.col_end]

GetHandRoi ==
    /\ hand_step = "human"
    /\ upper_limit' = UpperRangeLimit(position_current)
    /\ lower_limit' = LowerRangeLimit(upper_limit')
    /\ hand_search' = HandSearch(lower_limit', upper_limit')
    /\ human_mask' = HumanMask(hand_search', lower_limit', upper_limit')
    /\ hand_step' = "regions"
    /\ UNCHANGED <<det_mode, hand_frames, arrays, position_current, detected, hand_out>>

-----------------------------------------------------------------------------
(* mask_hand_roi and get_background_level.                                 *)

Masked(image, search, mask) ==
    [i \in DOMAIN image |->
        IF InRegion(i, search) /\ ~InRegion(i, mask) THEN image[i] ELSE 0]

(* The value at place k, from 0, of f over S when it is sorted.            *)
Sorted(f, S, k) ==
    CHOOSE v \in {f[i] : i \in S} :
        /\ Cardinality({i \in S : f[i] < v}) <= k
        /\ k < Cardinality({i \in S : f[i] <= v})

(* Twice the median of the cells that are not zero.                        *)
BackgroundLevel(image) ==
    LET S == {i \in DOMAIN image : image[i] > 0}
        n == Cardinality(S)
    IN  CASE n = 0     -> 0
          [] n > 0 /\ n % 2 = 0 -> Sorted(image, S, (n \div 2) - 1) + Sorted(image, S, n \div 2)
          [] n % 2 = 1 -> 2 * Sorted(image, S, n \div 2)

MaskHandRoi ==
    /\ hand_step = "regions"
    /\ masked_mean_abs_rdi' = Masked(mean_abs_rdi, hand_search, human_mask)
    /\ bg_level' = BackgroundLevel(masked_mean_abs_rdi')
    /\ hand_step' = "masked"
    /\ UNCHANGED <<det_mode, hand_frames, rdi, mean_abs_rdi, position_current, limits,
                   peaks, peak_idx, clusters, hand_out>>

-----------------------------------------------------------------------------
(* detect_hand.                                                            *)

DopplerProfileOf(image, search) ==
    [row \in Rows |-> SumOf([col \in ColsOf(search) |-> image[Cell(row, col)]])]

(* find_peaks: the n_peaks highest, falling.  qsort is not stable: equal   *)
(* ones may come in any order.                                             *)
PeaksOf(profile) ==
    {p \in Injection(1 .. n_peaks, Rows) :
        /\ \A i, j \in 1 .. n_peaks : i < j => profile[p[j]] <= profile[p[i]]
        /\ \A i \in 1 .. n_peaks, r \in Rows \ {p[j] : j \in 1 .. n_peaks} :
                profile[r] <= profile[p[i]]}

FindPeaks ==
    /\ hand_step = "masked"
    /\ peaks' \in PeaksOf(DopplerProfileOf(masked_mean_abs_rdi, hand_search))
    /\ peak_idx' = 0
    /\ clusters' = [c \in 1 .. n_peaks |-> <<>>]
    /\ hand_step' = "peaks"
    /\ UNCHANGED <<det_mode, hand_frames, arrays, position_current, limits, bg_level, hand_out>>

Neighbours(c, peak) == \E e \in 1 .. Len(clusters[c]) : Size(peak - clusters[c][e]) = 1

(* Mutant: every cluster beside the peak gets it.                          *)
ClusterPeakInAll ==
    /\ hand_step = "peaks" /\ peak_idx < n_peaks
    /\ LET peak   == peaks[peak_idx + 1]
           beside == {c \in 1 .. n_peaks : Neighbours(c, peak)}
       IN  clusters' = IF beside = {} THEN [clusters EXCEPT ![peak_idx + 1] = <<peak>>]
                       ELSE [c \in 1 .. n_peaks |->
                                IF c \in beside THEN Append(clusters[c], peak) ELSE clusters[c]]
    /\ peak_idx' = peak_idx + 1
    /\ UNCHANGED <<det_mode, hand_step, hand_frames, arrays, position_current, limits,
                   bg_level, peaks, hand_out>>

(* cluster_peaks, peak by peak: the first cluster with a neighbour gets    *)
(* the peak, or it is the first of a cluster at its own place.             *)
ClusterPeak ==
    /\ hand_step = "peaks" /\ peak_idx < n_peaks
    /\ LET peak   == peaks[peak_idx + 1]
           beside == {c \in 1 .. n_peaks : Neighbours(c, peak)}
       IN  IF beside = {} THEN clusters' = [clusters EXCEPT ![peak_idx + 1] = <<peak>>]
           ELSE \E c \in beside :
                    /\ \A d \in beside : c <= d
                    /\ clusters' = [clusters EXCEPT ![c] = Append(clusters[c], peak)]
    /\ peak_idx' = peak_idx + 1
    /\ UNCHANGED <<det_mode, hand_step, hand_frames, arrays, position_current, limits,
                   bg_level, peaks, hand_out>>

(* suggest_hand_detections: of every cluster the velocity of its first     *)
(* peak and a bin of the region where it is strongest, if it stands out.   *)
StandsOut(value) == 2 * value > threshold * bg_level

Suggested ==
    LET heads == {c \in 1 .. n_peaks : clusters[c] # <<>>}
        At(c, col) == masked_mean_abs_rdi[Cell(clusters[c][1], col)]
        Strongest(c) == {col \in ColsOf(hand_search) :
                            \A other \in ColsOf(hand_search) : At(c, other) <= At(c, col)}
    IN  {[c \in {h \in heads : StandsOut(At(h, bins[h]))} |->
            [doppler_bin |-> clusters[c][1], range_bin |-> bins[c], value |-> At(c, bins[c])]] :
         bins \in {b \in [heads -> ColsOf(hand_search)] : \A h \in heads : b[h] \in Strongest(h)}}

(* Mutant: the modes are exchanged.                                        *)
RankExchanged(d) ==
    IF det_mode = "fastest" THEN d.range_bin ELSE -Size(d.doppler_bin - mid)

(* pick_best_hand_detection: the closest or the fastest, of equal ones the *)
(* first.                                                                  *)
Rank(d) == IF det_mode = "closest" THEN d.range_bin ELSE -Size(d.doppler_bin - mid)

Best(detections) ==
    {c \in DOMAIN detections : \A d \in DOMAIN detections :
        \/ Rank(detections[c]) < Rank(detections[d])
        \/ Rank(detections[c]) = Rank(detections[d]) /\ c <= d}

(* The rest of detect_hand and of algo.  Without a detection, or when a    *)
(* channel has no phase, only success is set.                              *)
DetectHand ==
    /\ hand_step = "peaks" /\ peak_idx = n_peaks
    /\ \E detections \in Suggested :
        \/ /\ DOMAIN detections = {}
           /\ hand_out' = [hand_out EXCEPT !.success = FALSE]
        \/ \E c \in Best(detections) :
            LET hand   == detections[c]
                At(ch) == rdi[ch * mean_rdi_size + Cell(hand.doppler_bin, hand.range_bin)]
            IN  hand_out' =
                  IF \E ch \in 0 .. 2 : ~HasAngle(At(ch))
                  THEN [hand_out EXCEPT !.success = FALSE]
                  ELSE [success |-> TRUE, human_position |-> position_current,
                        detection |-> hand,
                        azimuth   |-> PhaseMonopulse(Angle(At(2)), Angle(At(0))),
                        elevation |-> PhaseMonopulse(Angle(At(2)), Angle(At(1))),
                        bg_level  |-> bg_level,
                        lower_limit |-> lower_limit, upper_limit |-> upper_limit]
    /\ hand_step' = "done"
    /\ UNCHANGED <<det_mode, hand_frames, arrays, position_current, limits, detected>>

(* algo returns; its arrays are freed.                                     *)
Return ==
    /\ hand_step = "done"
    /\ hand_step' = "idle"
    /\ rdi' = <<>> /\ mean_abs_rdi' = <<>> /\ masked_mean_abs_rdi' = <<>>
    /\ upper_limit' = 0 /\ lower_limit' = 0
    /\ hand_search' = NoRegion /\ human_mask' = NoRegion
    /\ bg_level' = 0 /\ peaks' = <<>> /\ peak_idx' = 0 /\ clusters' = <<>>
    /\ UNCHANGED <<det_mode, hand_frames, position_current, hand_out>>

HandNext ==
    \/ BuildComplexRdi \/ EstimateHuman \/ GetHandRoi \/ MaskHandRoi \/ FindPeaks
    \/ ClusterPeak \/ DetectHand \/ Return

HandSpec == HandInit /\ [][HandNext]_handVars

-----------------------------------------------------------------------------
(* estimate_human smooths the position over all frames: it never leaves    *)
(* the bins in which a person is looked for.                               *)
HumanPositionInImage ==
    position_current[1] >= 0 =>
        /\ position_current[2] > 0
        /\ position_min * position_current[2] <= position_current[1]
        /\ position_current[1] <= (hand_cfg.n_range_bins - 1) * position_current[2]

(* What get_hand_roi computes in 16 bits from the smoothed position, and   *)
(* mask_hand_roi writes by: both regions lie in the image, the one that is *)
(* searched has cells, and with the limit in the image the mask is in it.  *)
RegionsInImage ==
    /\ HumanPositionInImage
    /\ hand_step \in {"regions", "masked", "peaks", "done"} =>
        /\ \A r \in {hand_search, human_mask} :
            RowsOf(r) \subseteq Rows /\ ColsOf(r) \subseteq Cols
        /\ RowsOf(hand_search) = Rows
        /\ hand_search.col_start < hand_search.col_end
        /\ human_mask.col_start <= human_mask.col_end
        /\ upper_limit <= hand_cfg.n_range_bins
            => hand_search.col_start <= human_mask.col_start

(* However peaks follow each other, every one is in exactly one cluster, a *)
(* cluster is a run of neighbouring velocities without a gap, and its      *)
(* first is the one found strongest.                                       *)
Elements(c) == {clusters[c][e] : e \in 1 .. Len(clusters[c])}
ClustersAreRuns ==
    hand_step = "peaks" =>
        /\ \A i \in 1 .. n_peaks :
            Cardinality({c \in 1 .. n_peaks : peaks[i] \in Elements(c)})
                = (IF i <= peak_idx THEN 1 ELSE 0)
        /\ \A c \in 1 .. n_peaks : \A x, y \in Elements(c), r \in Rows :
            x < r /\ r < y => r \in Elements(c)
        /\ \A c \in 1 .. n_peaks : Elements(c) # {} =>
            /\ clusters[c][1] = peaks[c]
            /\ \A i \in 1 .. c - 1 : peaks[i] \notin Elements(c)

(* The cells that stand out of what is searched, and the one that the mode *)
(* asks for.                                                               *)
Visible == {x \in RowsOf(hand_search) \X ColsOf(hand_search) :
                /\ ~(x[1] \in RowsOf(human_mask) /\ x[2] \in ColsOf(human_mask))
                /\ StandsOut(mean_abs_rdi[Cell(x[1], x[2])])}
Wanted(x) == \A y \in Visible :
    IF det_mode = "closest" THEN x[2] <= y[2] ELSE Size(y[1] - mid) <= Size(x[1] - mid)

(* Few hands, one cell each, at velocities that are not neighbours and     *)
(* outweigh what else there is.                                            *)
ClearScene ==
    LET profile == DopplerProfileOf(masked_mean_abs_rdi, hand_search)
        fast    == {x[1] : x \in Visible}
    IN  /\ Visible # {} /\ Cardinality(fast) = Cardinality(Visible)
        /\ Cardinality(fast) <= n_peaks
        /\ \A a, b \in fast : Size(a - b) # 1
        /\ \A a \in fast, b \in Rows \ fast : profile[b] < profile[a]

(* What algo reports stands out of the region between the nearest bin and  *)
(* the person, is not the person, and is of this frame; and in a clear     *)
(* scene it is the hand that the mode asks for.                            *)
HandOfTheRegion ==
    hand_step = "done" =>
        LET hand == <<hand_out.detection.doppler_bin, hand_out.detection.range_bin>>
            At(x, ch) == rdi[ch * mean_rdi_size + Cell(x[1], x[2])]
        IN  /\ hand_out.success =>
                /\ hand \in Visible
                /\ hand_out.detection.value = mean_abs_rdi[Cell(hand[1], hand[2])]
            /\ Visible = {} => ~hand_out.success
            /\ ClearScene /\ (\A x \in Visible, ch \in 0 .. 2 : HasAngle(At(x, ch))) =>
                hand_out.success /\ Wanted(hand)
=============================================================================
