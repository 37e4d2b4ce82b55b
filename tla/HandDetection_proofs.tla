------------------------ MODULE HandDetection_proofs ------------------------
(***************************************************************************)
(* Theorems about HandDetection for frames, bands, guards and thresholds   *)
(* of every size that HandAssumption allows, for every image and every     *)
(* number of frames.                                                       *)
(***************************************************************************)
EXTENDS HandDetection, IntegerFacts

-----------------------------------------------------------------------------
(* The dimensions.                                                         *)

LEMMA Dimensions ==
    /\ hand_cfg.n_chirps \in Nat /\ hand_cfg.n_range_bins \in Nat
    /\ hand_cfg.n_chirps >= 16 /\ hand_cfg.n_range_bins >= 1
    /\ hand_cfg.n_range_bins < 32768
    /\ mid \in Nat /\ hand_cfg.n_chirps = 2 * mid /\ mid < 32768
    /\ n_peaks \in Nat
<1> DEFINE n == hand_cfg.n_range_bins
           m == hand_cfg.n_chirps
<1>1. m \in Nat /\ n \in Nat /\ n >= 1 /\ m >= 16 /\ m % 2 = 0
  BY HandAssumption DEF HandAssumption, FrameConfig
<1>2. 3 * m * (2 * n) < 65536
  BY HandAssumption DEF HandAssumption
<1> HIDE DEF n, m
<1>3. 16 * n <= m * n /\ m <= m * n
  BY <1>1, SMT
<1>4. 3 * m * (2 * n) = 6 * (m * n)
  BY <1>1, SMT
<1>5. n < 32768 /\ m < 32768
  <2>1. m * n \in Nat
    BY <1>1, SMT
  <2> QED
    BY <1>1, <1>2, <1>3, <1>4, <2>1, SMT
<1>6. mid \in Nat /\ m = 2 * mid /\ mid < 32768
  BY <1>1, <1>5, SMT DEF mid, m
<1>7. n_peaks \in Nat
  BY <1>1, SMT DEF n_peaks, m
<1> QED
  BY <1>1, <1>5, <1>6, <1>7 DEF n, m

-----------------------------------------------------------------------------
(* Rounding and smoothing.                                                 *)

(* What lies between two whole numbers is rounded to between them.         *)
LEMMA RintBetween ==
    ASSUME NEW n \in Int, NEW d \in Nat \ {0}, NEW lo \in Int, NEW hi \in Int,
           lo * d <= n, n <= hi * d
    PROVE  Rint(n, d) \in lo .. hi
<1> DEFINE q == n \div d
           r == n % d
<1>1. q \in Int /\ r \in 0 .. d - 1 /\ n = q * d + r
  BY SMT
<1> HIDE DEF q, r
<1>2. lo <= q
  <2> SUFFICES ASSUME q + 1 <= lo PROVE FALSE
    BY <1>1
  <2>1. (q + 1) * d <= lo * d
    BY <1>1, SMT
  <2>2. (q + 1) * d = q * d + d
    BY <1>1, SMT
  <2>3. q * d \in Int /\ lo * d \in Int
    BY <1>1, SMT
  <2> QED
    BY <1>1, <2>1, <2>2, <2>3, SMT
<1>3. q < hi \/ (q = hi /\ r = 0)
  <2>1. q <= hi
    <3> SUFFICES ASSUME hi + 1 <= q PROVE FALSE
      BY <1>1
    <3>1. (hi + 1) * d <= q * d
      BY <1>1, SMT
    <3>2. (hi + 1) * d = hi * d + d
      BY SMT
    <3>3. q * d \in Int /\ hi * d \in Int
      BY <1>1, SMT
    <3> QED
      BY <1>1, <3>1, <3>2, <3>3, SMT
  <2>2. ASSUME q = hi PROVE r = 0
    <3>1. hi * d \in Int
      BY SMT
    <3> QED
      BY <1>1, <2>2, <3>1, SMT
  <2> QED
    BY <1>1, <2>1, <2>2
<1>4. Rint(n, d) = IF 2 * r < d \/ (2 * r = d /\ q % 2 = 0) THEN q ELSE q + 1
  BY DEF Rint, q, r
<1>5. CASE q < hi
  <2>1. Rint(n, d) = q \/ Rint(n, d) = q + 1
    BY <1>4
  <2> QED
    BY <1>1, <1>2, <1>5, <2>1
<1>6. CASE q = hi /\ r = 0
  <2>1. Rint(n, d) = q
    BY <1>4, <1>6
  <2> QED
    BY <1>1, <1>2, <1>6, <2>1
<1> QED
  BY <1>3, <1>5, <1>6

(* A weighted mean of values between two bounds is between them.           *)
LEMMA MeanBetween ==
    ASSUME NEW p \in Int, NEW q \in Nat \ {0}, NEW peak \in Int,
           NEW lo \in Nat, NEW hi \in Nat,
           NEW den \in Nat \ {0}, NEW num \in 0 .. den,
           lo * q <= p, p <= hi * q, lo <= peak, peak <= hi
    PROVE  /\ (den - num) * p + num * peak * q \in Int
           /\ den * q \in Nat \ {0}
           /\ lo * (den * q) <= (den - num) * p + num * peak * q
           /\ (den - num) * p + num * peak * q <= hi * (den * q)
<1> DEFINE w == den - num
<1>1. w \in Nat /\ num \in Nat /\ w + num = den
  BY SMT
<1>2. w * (lo * q) <= w * p /\ w * p <= w * (hi * q)
  <2>1. \A a \in Nat, x, y \in Int : x <= y => a * x <= a * y
    BY SMT
  <2>2. lo * q \in Int /\ hi * q \in Int
    BY SMT
  <2> QED
    BY <1>1, <2>1, <2>2
<1>3. num * (lo * q) <= num * peak * q /\ num * peak * q <= num * (hi * q)
  <2>1. \A a \in Nat, x, y \in Int : x <= y => a * x <= a * y
    BY SMT
  <2>2. num * q \in Nat
    BY <1>1, SMT
  <2>3. (num * q) * lo <= (num * q) * peak /\ (num * q) * peak <= (num * q) * hi
    BY <2>1, <2>2
  <2> QED
    BY <1>1, <2>3, SMT
<1>4. lo * (den * q) = w * (lo * q) + num * (lo * q)
  BY <1>1, SMT
<1>5. hi * (den * q) = w * (hi * q) + num * (hi * q)
  BY <1>1, SMT
<1>6. w * p \in Int /\ num * peak * q \in Int /\ w * (lo * q) \in Int /\ num * (lo * q) \in Int
      /\ w * (hi * q) \in Int /\ num * (hi * q) \in Int
  BY <1>1, SMT
<1>7. den * q \in Nat \ {0}
  BY SMT
<1> HIDE DEF w
<1>8. lo * (den * q) <= w * p + num * peak * q
  BY <1>2, <1>3, <1>4, <1>6, SMT
<1>9. w * p + num * peak * q <= hi * (den * q)
  BY <1>2, <1>3, <1>5, <1>6, SMT
<1> QED
  BY <1>6, <1>7, <1>8, <1>9 DEF w

-----------------------------------------------------------------------------
(* The regions.                                                            *)

(* The position is a fraction from the start, and one of a person once     *)
(* they were looked for.                                                   *)
PositionInv ==
    /\ position_current \in Int \X (Nat \ {0})
    /\ HumanPositionInImage
    /\ hand_step = "human" => position_current[1] >= 0

RegionsInv == PositionInv /\ RegionsInImage

LEMMA FollowedInImage ==
    ASSUME position_current \in Int \X (Nat \ {0}), HumanPositionInImage,
           NEW peak \in PersonCols
    PROVE  /\ Followed(peak) \in Int \X (Nat \ {0})
           /\ Followed(peak)[1] >= 0
           /\ position_min * Followed(peak)[2] <= Followed(peak)[1]
           /\ Followed(peak)[1] <= (hand_cfg.n_range_bins - 1) * Followed(peak)[2]
<1> DEFINE lo == position_min
           hi == hand_cfg.n_range_bins - 1
<1>1. peak \in Int /\ lo <= peak /\ peak <= hi /\ lo \in Nat /\ hi \in Nat
  BY Dimensions, HandAssumption DEF PersonCols, Cols, Indices, HandAssumption
<1>2. AlphaDen \in Nat \ {0} /\ AlphaNum \in 0 .. AlphaDen
  BY HandAssumption DEF HandAssumption
<1> HIDE DEF lo, hi
<1>3. CASE position_current[1] < 0
  <2>1. Followed(peak) = <<peak, 1>>
    BY <1>3 DEF Followed
  <2>2. lo * 1 <= peak /\ peak <= hi * 1
    BY <1>1
  <2> QED
    BY <1>1, <2>1, <2>2 DEF lo, hi
<1>4. CASE ~(position_current[1] < 0)
  <2> DEFINE p == position_current[1]
             q == position_current[2]
  <2>1. p \in Int /\ q \in Nat \ {0} /\ lo * q <= p /\ p <= hi * q
    BY <1>4 DEF HumanPositionInImage, lo, hi
  <2>2. Followed(peak) = <<(AlphaDen - AlphaNum) * p + AlphaNum * peak * q, AlphaDen * q>>
    BY <1>4 DEF Followed
  <2> HIDE DEF p, q
  <2>3. /\ (AlphaDen - AlphaNum) * p + AlphaNum * peak * q \in Int
        /\ AlphaDen * q \in Nat \ {0}
        /\ lo * (AlphaDen * q) <= (AlphaDen - AlphaNum) * p + AlphaNum * peak * q
        /\ (AlphaDen - AlphaNum) * p + AlphaNum * peak * q <= hi * (AlphaDen * q)
    BY <1>1, <1>2, <2>1, MeanBetween
  <2>4. 0 <= lo * (AlphaDen * q)
    BY <1>1, <2>3, SMT
  <2>5. lo * (AlphaDen * q) \in Int
    BY <1>1, <2>3, SMT
  <2>6. (AlphaDen - AlphaNum) * p + AlphaNum * peak * q >= 0
    BY <2>3, <2>4, <2>5
  <2> QED
    BY <2>2, <2>3, <2>6 DEF lo, hi
<1> QED
  BY <1>3, <1>4

(* From a position in the image the regions are in the image: nothing of   *)
(* what get_hand_roi computes in 16 bits wraps.                            *)
LEMMA RegionsOfPosition ==
    ASSUME NEW position \in Int \X (Nat \ {0}),
           position_min * position[2] <= position[1],
           position[1] <= (hand_cfg.n_range_bins - 1) * position[2],
           NEW upper, upper = UpperRangeLimit(position),
           NEW lower, lower = LowerRangeLimit(upper),
           NEW search, search = HandSearch(lower, upper),
           NEW mask, mask = HumanMask(search, lower, upper)
    PROVE  /\ \A r \in {search, mask} : RowsOf(r) \subseteq Rows /\ ColsOf(r) \subseteq Cols
           /\ RowsOf(search) = Rows
           /\ search.col_start < search.col_end
           /\ mask.col_start <= mask.col_end
           /\ upper <= hand_cfg.n_range_bins => search.col_start <= mask.col_start
<1> DEFINE n == hand_cfg.n_range_bins
           m == hand_cfg.n_chirps
           at == Rint(position[1], position[2])
<1>1. /\ n \in Nat /\ m \in Nat /\ mid \in Nat /\ m = 2 * mid /\ m >= 16
      /\ n >= 1 /\ n < 32768 /\ mid < 32768
  BY Dimensions
<1>2. /\ band_min \in Nat /\ band_max \in Nat /\ band_offset \in Nat
      /\ 1 <= band_min /\ band_min <= band_max /\ band_offset <= band_max /\ band_max < 32768
      /\ range_min \in 0 .. n - 1 /\ position_min \in 0 .. n - 1
      /\ guard_range \in 0 .. n /\ guard_doppler \in 0 .. mid - 1
  BY HandAssumption DEF HandAssumption, Indices, mid
<1>3. at \in position_min .. n - 1
  <2>1. position[1] \in Int /\ position[2] \in Nat \ {0} /\ position_min \in Int /\ n - 1 \in Int
    BY <1>1, <1>2
  <2> QED
    BY <2>1, RintBetween
<1> HIDE DEF at
<1>4. U16(U16(at) + band_offset) = at + band_offset
  BY <1>1, <1>2, <1>3, SMT DEF U16
<1>5. U16(range_min + band_min) = range_min + band_min
  BY <1>1, <1>2, SMT DEF U16
<1>6. upper = IF at + band_offset < range_min + band_min THEN range_min + band_min
                                                         ELSE at + band_offset
  BY <1>4, <1>5 DEF UpperRangeLimit, at
<1>7. upper \in Nat /\ upper < 65536 /\ range_min < upper /\ upper - band_max <= n - 1
  BY <1>1, <1>2, <1>3, <1>6
<1>8. lower = IF upper - band_max < range_min THEN range_min ELSE upper - band_max
  BY <1>1, <1>2, <1>7, SMT DEF LowerRangeLimit, U16
<1>9. lower \in Nat /\ lower < upper /\ lower <= n - 1
  BY <1>1, <1>2, <1>7, <1>8
<1>10. search = [row_start |-> 0, row_end |-> m, col_start |-> lower,
                 col_end |-> IF upper > n THEN n ELSE upper]
  BY DEF HandSearch
<1> DEFINE end == search.col_end
           guard == IF guard_range < upper - lower THEN guard_range ELSE upper - lower
<1>11. end \in Nat /\ lower < end /\ end <= n /\ (upper <= n => end = upper)
  BY <1>1, <1>7, <1>9, <1>10
<1>12. U16(upper - lower) = upper - lower
  BY <1>7, <1>9, SMT DEF U16
<1>13. guard \in Nat /\ guard <= upper - lower /\ guard <= n
  BY <1>1, <1>2, <1>7, <1>9
<1>14. end - guard \in Nat
  BY <1>1, <1>7, <1>9, <1>10, <1>11, <1>13
<1>15. mask = [row_start |-> U16(mid - guard_doppler), row_end |-> U16(mid + guard_doppler + 1),
               col_start |-> U16(end - guard), col_end |-> end]
  BY <1>12 DEF HumanMask
<1> HIDE DEF end, guard
<1>16. U16(mid - guard_doppler) = mid - guard_doppler /\ U16(mid + guard_doppler + 1) = mid + guard_doppler + 1
  BY <1>1, <1>2, SMT DEF U16
<1>17. U16(end - guard) = end - guard
  BY <1>1, <1>11, <1>13, <1>14, SMT DEF U16
<1>18. /\ mask.row_start = mid - guard_doppler /\ mask.row_end = mid + guard_doppler + 1
       /\ mask.col_start = end - guard /\ mask.col_end = end
  BY <1>15, <1>16, <1>17
<1>19. /\ search.row_start = 0 /\ search.row_end = m
       /\ search.col_start = lower /\ search.col_end = end
  BY <1>10 DEF end
<1>20. RowsOf(search) = Rows /\ ColsOf(search) \subseteq Cols
  BY <1>1, <1>9, <1>11, <1>19 DEF RowsOf, ColsOf, Rows, Cols, Indices
<1>21. RowsOf(mask) \subseteq Rows
  BY <1>1, <1>2, <1>18 DEF RowsOf, Rows, Indices
<1>22. ColsOf(mask) \subseteq Cols
  BY <1>1, <1>11, <1>13, <1>14, <1>18 DEF ColsOf, Cols, Indices
<1>23. mask.col_start <= mask.col_end
  BY <1>11, <1>13, <1>14, <1>18
<1>24. upper <= n => search.col_start <= mask.col_start
  BY <1>1, <1>7, <1>9, <1>11, <1>13, <1>14, <1>18, <1>19
<1> QED
  BY <1>11, <1>19, <1>20, <1>21, <1>22, <1>23, <1>24

(* The regions and the position they come from are inductive.              *)
LEMMA RegionsInductive == HandSpec => []RegionsInv
<1>1. HandInit => RegionsInv
  BY SMT DEF HandInit, RegionsInv, PositionInv, RegionsInImage, HumanPositionInImage
<1>2. RegionsInv /\ [HandNext]_handVars => RegionsInv'
  <2> SUFFICES ASSUME RegionsInv, [HandNext]_handVars PROVE RegionsInv'
    OBVIOUS
  <2>1. CASE BuildComplexRdi
    <3>1. UNCHANGED position_current /\ hand_step' \in {"image", "aborted"}
      BY <2>1 DEF BuildComplexRdi
    <3> QED
      BY <3>1 DEF RegionsInv, PositionInv, RegionsInImage, HumanPositionInImage
  <2>2. CASE EstimateHuman
    <3>1. PICK peak \in PersonCols : position_current' = Followed(peak)
      <4>1. PICK c \in HumanPeaks : position_current' = Followed(c[2])
        BY <2>2 DEF EstimateHuman
      <4>2. c[2] \in PersonCols
        BY DEF HumanPeaks
      <4> QED
        BY <4>1, <4>2
    <3>2. PositionInv' /\ HumanPositionInImage'
      BY <3>1, FollowedInImage DEF RegionsInv, PositionInv, HumanPositionInImage
    <3>3. hand_step' = "human"
      BY <2>2 DEF EstimateHuman
    <3> QED
      BY <3>2, <3>3 DEF RegionsInv, RegionsInImage
  <2>3. CASE GetHandRoi
    <3>1. UNCHANGED position_current /\ hand_step' = "regions" /\ position_current[1] >= 0
      BY <2>3 DEF GetHandRoi, RegionsInv, PositionInv
    <3>2. PositionInv' /\ HumanPositionInImage'
      BY <3>1 DEF RegionsInv, PositionInv, HumanPositionInImage
    <3>3. /\ upper_limit' = UpperRangeLimit(position_current)
          /\ lower_limit' = LowerRangeLimit(upper_limit')
          /\ hand_search' = HandSearch(lower_limit', upper_limit')
          /\ human_mask' = HumanMask(hand_search', lower_limit', upper_limit')
      BY <2>3 DEF GetHandRoi
    <3>4. /\ \A r \in {hand_search', human_mask'} : RowsOf(r) \subseteq Rows /\ ColsOf(r) \subseteq Cols
          /\ RowsOf(hand_search') = Rows
          /\ hand_search'.col_start < hand_search'.col_end
          /\ human_mask'.col_start <= human_mask'.col_end
          /\ upper_limit' <= hand_cfg.n_range_bins
                => hand_search'.col_start <= human_mask'.col_start
      BY <3>1, <3>3, RegionsOfPosition DEF RegionsInv, PositionInv, HumanPositionInImage
    <3> QED
      BY <3>2, <3>4, Zenon DEF RegionsInv, RegionsInImage, RowsOf, ColsOf
  <2>4. CASE MaskHandRoi
    <3>1. UNCHANGED <<position_current, limits>> /\ hand_step = "regions" /\ hand_step' = "masked"
      BY <2>4 DEF MaskHandRoi
    <3> QED
      BY <3>1 DEF RegionsInv, PositionInv, RegionsInImage, HumanPositionInImage, limits, RowsOf, ColsOf
  <2>5. CASE FindPeaks
    <3>1. UNCHANGED <<position_current, limits>> /\ hand_step = "masked" /\ hand_step' = "peaks"
      BY <2>5 DEF FindPeaks
    <3> QED
      BY <3>1 DEF RegionsInv, PositionInv, RegionsInImage, HumanPositionInImage, limits, RowsOf, ColsOf
  <2>6. CASE ClusterPeak
    <3>1. UNCHANGED <<position_current, limits, hand_step>>
      BY <2>6 DEF ClusterPeak
    <3> QED
      BY <3>1 DEF RegionsInv, PositionInv, RegionsInImage, HumanPositionInImage, limits, RowsOf, ColsOf
  <2>7. CASE DetectHand
    <3>1. UNCHANGED <<position_current, limits>> /\ hand_step = "peaks" /\ hand_step' = "done"
      BY <2>7 DEF DetectHand
    <3> QED
      BY <3>1 DEF RegionsInv, PositionInv, RegionsInImage, HumanPositionInImage, limits, RowsOf, ColsOf
  <2>8. CASE Return
    <3>1. UNCHANGED position_current /\ hand_step' = "idle"
      BY <2>8 DEF Return
    <3> QED
      BY <3>1 DEF RegionsInv, PositionInv, RegionsInImage, HumanPositionInImage
  <2>9. CASE UNCHANGED handVars
    <3>1. UNCHANGED <<position_current, limits, hand_step>>
      BY <2>9 DEF handVars
    <3> QED
      BY <3>1 DEF RegionsInv, PositionInv, RegionsInImage, HumanPositionInImage, limits, RowsOf, ColsOf
  <2> QED
    BY <2>1, <2>2, <2>3, <2>4, <2>5, <2>6, <2>7, <2>8, <2>9 DEF HandNext
<1> QED
  BY <1>1, <1>2, PTL DEF HandSpec

(* The position that estimate_human smooths over all frames never leaves   *)
(* the bins of persons, and the regions that get_hand_roi computes from it *)
(* in 16 bits always lie in the image.                                     *)
THEOREM RegionsStayInImage == HandSpec => []RegionsInImage
<1>1. RegionsInv => RegionsInImage
  BY DEF RegionsInv
<1> QED
  BY <1>1, RegionsInductive, PTL

-----------------------------------------------------------------------------
(* The clusters.                                                           *)

LEMMA AppendElements ==
    ASSUME NEW S, NEW s \in Seq(S), NEW x \in S
    PROVE  /\ Append(s, x) \in Seq(S)
           /\ {Append(s, x)[e] : e \in 1 .. Len(Append(s, x))} = {s[e] : e \in 1 .. Len(s)} \cup {x}
           /\ Len(s) > 0 => Append(s, x)[1] = s[1]
<1>1. Append(s, x) \in Seq(S) /\ Len(Append(s, x)) = Len(s) + 1 /\ Len(s) \in Nat
  OBVIOUS
<1>2. /\ \A e \in 1 .. Len(s) : Append(s, x)[e] = s[e]
      /\ Append(s, x)[Len(s) + 1] = x
  OBVIOUS
<1>3. 1 .. Len(s) + 1 = 1 .. Len(s) \cup {Len(s) + 1}
  BY <1>1
<1>4. Len(s) > 0 => 1 \in 1 .. Len(s)
  BY <1>1
<1> QED
  BY <1>1, <1>2, <1>3, <1>4

(* What of the peaks is in clusters, and where.                            *)
PeaksTyped ==
    /\ peaks \in [1 .. n_peaks -> Rows]
    /\ \A i, j \in 1 .. n_peaks : peaks[i] = peaks[j] => i = j
    /\ peak_idx \in 0 .. n_peaks
    /\ clusters \in [1 .. n_peaks -> Seq(Rows)]
OnlyTaken == \A c \in 1 .. n_peaks : Elements(c) \subseteq {peaks[i] : i \in 1 .. peak_idx}
InOneCluster ==
    \A i \in 1 .. peak_idx : \E c \in 1 .. n_peaks :
        /\ peaks[i] \in Elements(c)
        /\ \A d \in 1 .. n_peaks : peaks[i] \in Elements(d) => d = c
WithoutGap ==
    \A c \in 1 .. n_peaks : \A x, y \in Elements(c), r \in Rows :
        x < r /\ r < y => r \in Elements(c)
LedByStrongest ==
    \A c \in 1 .. n_peaks : Elements(c) # {} =>
        /\ clusters[c][1] = peaks[c]
        /\ c <= peak_idx
        /\ \A i \in 1 .. c - 1 : peaks[i] \notin Elements(c)

ClustersInv ==
    hand_step = "peaks" =>
        PeaksTyped /\ OnlyTaken /\ InOneCluster /\ WithoutGap /\ LedByStrongest

(* A peak that starts a cluster.                                           *)
LEMMA NewCluster ==
    ASSUME PeaksTyped, OnlyTaken, InOneCluster, WithoutGap, LedByStrongest,
           peak_idx < n_peaks, peak_idx' = peak_idx + 1, peaks' = peaks,
           NEW k, k = peak_idx + 1, NEW peak, peak = peaks[k],
           clusters' = [clusters EXCEPT ![k] = <<peak>>]
    PROVE  (PeaksTyped /\ OnlyTaken /\ InOneCluster /\ WithoutGap /\ LedByStrongest)'
<1>1. k \in 1 .. n_peaks /\ peak \in Rows /\ peak_idx \in Nat /\ n_peaks \in Nat
  BY Dimensions DEF PeaksTyped
<1>2. \A i \in 1 .. peak_idx : peaks[i] # peak /\ i \in 1 .. n_peaks
  BY <1>1 DEF PeaksTyped
<1>3. Rows \subseteq Int
  BY Dimensions DEF Rows, Indices
<1>4. Elements(k) = {}
  BY <1>1 DEF LedByStrongest
<1>5. clusters' \in [1 .. n_peaks -> Seq(Rows)] /\ clusters'[k] = <<peak>>
      /\ \A c \in (1 .. n_peaks) \ {k} : clusters'[c] = clusters[c]
  BY <1>1 DEF PeaksTyped
<1>6. Elements(k)' = {peak}
  <2>1. Len(clusters'[k]) = 1 /\ clusters'[k][1] = peak /\ 1 .. 1 = {1}
    BY <1>5
  <2>2. {clusters'[k][e] : e \in {1}} = {clusters'[k][1]}
    OBVIOUS
  <2> QED
    BY <2>1, <2>2, Zenon DEF Elements
<1>7. \A c \in (1 .. n_peaks) \ {k} : Elements(c)' = Elements(c)
  BY <1>5 DEF Elements
<1>8. \A c \in (1 .. n_peaks) \ {k} : peak \notin Elements(c)'
  BY <1>2, <1>7 DEF OnlyTaken
<1>9. peak_idx' = k /\ 1 .. k = 1 .. peak_idx \cup {k} /\ peaks[k] = peak /\ k = peak_idx + 1
  BY <1>1
<1>10. PeaksTyped'
  BY <1>1, <1>5, <1>9 DEF PeaksTyped
<1>11. OnlyTaken'
  <2>1. \A c \in 1 .. n_peaks : Elements(c)' \subseteq {peaks[i] : i \in 1 .. k}
    BY <1>1, <1>6, <1>7, <1>9 DEF OnlyTaken
  <2> QED
    BY <2>1, <1>9, Zenon DEF OnlyTaken, Elements
<1>12. InOneCluster'
  <2>1. \A i \in 1 .. k : \E c \in 1 .. n_peaks :
            /\ peaks[i] \in Elements(c)'
            /\ \A d \in 1 .. n_peaks : peaks[i] \in Elements(d)' => d = c
    <3> SUFFICES ASSUME NEW i \in 1 .. k
                 PROVE  \E c \in 1 .. n_peaks :
                            /\ peaks[i] \in Elements(c)'
                            /\ \A d \in 1 .. n_peaks : peaks[i] \in Elements(d)' => d = c
      OBVIOUS
    <3>1. CASE i = k
      BY <3>1, <1>1, <1>6, <1>8, <1>9
    <3>2. CASE i \in 1 .. peak_idx
      <4>1. PICK c \in 1 .. n_peaks : /\ peaks[i] \in Elements(c)
                                      /\ \A d \in 1 .. n_peaks : peaks[i] \in Elements(d) => d = c
        BY <3>2 DEF InOneCluster
      <4>2. c # k
        BY <4>1, <1>4
      <4>3. peaks[i] \notin Elements(k)'
        BY <3>2, <1>2, <1>6
      <4> QED
        BY <4>1, <4>2, <4>3, <1>7
    <3> QED
      BY <3>1, <3>2, <1>9
  <2> QED
    BY <2>1, <1>9, Zenon DEF InOneCluster, Elements
<1>13. WithoutGap'
  <2>1. \A c \in 1 .. n_peaks : \A x, y \in Elements(c)', r \in Rows :
            x < r /\ r < y => r \in Elements(c)'
    <3> SUFFICES ASSUME NEW c \in 1 .. n_peaks, NEW x \in Elements(c)', NEW y \in Elements(c)',
                        NEW r \in Rows, x < r, r < y
                 PROVE  r \in Elements(c)'
      OBVIOUS
    <3>1. CASE c = k
      <4>1. x = peak /\ y = peak
        BY <3>1, <1>6
      <4> QED
        BY <4>1, <1>1, <1>3
    <3>2. CASE c # k
      <4>1. x \in Elements(c) /\ y \in Elements(c)
        BY <3>2, <1>7
      <4>2. r \in Elements(c)
        BY <4>1 DEF WithoutGap
      <4> QED
        BY <3>2, <4>2, <1>7
    <3> QED
      BY <3>1, <3>2
  <2> QED
    BY <2>1, Zenon DEF WithoutGap, Elements
<1>14. LedByStrongest'
  <2>1. \A c \in 1 .. n_peaks : Elements(c)' # {} =>
            /\ clusters'[c][1] = peaks[c]
            /\ c <= k
            /\ \A i \in 1 .. c - 1 : peaks[i] \notin Elements(c)'
    <3> SUFFICES ASSUME NEW c \in 1 .. n_peaks, Elements(c)' # {}
                 PROVE  /\ clusters'[c][1] = peaks[c]
                        /\ c <= k
                        /\ \A i \in 1 .. c - 1 : peaks[i] \notin Elements(c)'
      OBVIOUS
    <3>1. CASE c = k
      <4>1. clusters'[c][1] = peaks[c]
        BY <3>1, <1>5, <1>9
      <4>2. \A i \in 1 .. c - 1 : peaks[i] \notin Elements(c)'
        BY <3>1, <1>1, <1>2, <1>6, <1>9
      <4> QED
        BY <3>1, <4>1, <4>2, <1>1
    <3>2. CASE c # k
      <4>1. Elements(c)' = Elements(c) /\ clusters'[c] = clusters[c]
        BY <3>2, <1>5, <1>7
      <4> QED
        BY <4>1, <1>1, <1>9 DEF LedByStrongest
    <3> QED
      BY <3>1, <3>2
  <2> QED
    BY <2>1, <1>9, Zenon DEF LedByStrongest, Elements
<1> QED
  BY <1>10, <1>11, <1>12, <1>13, <1>14

(* A peak that joins the first cluster beside it.                          *)
LEMMA JoinedCluster ==
    ASSUME PeaksTyped, OnlyTaken, InOneCluster, WithoutGap, LedByStrongest,
           peak_idx < n_peaks, peak_idx' = peak_idx + 1, peaks' = peaks,
           NEW next, next = peak_idx + 1, NEW peak, peak = peaks[next],
           NEW k \in 1 .. n_peaks, Neighbours(k, peak),
           clusters' = [clusters EXCEPT ![k] = Append(clusters[k], peak)]
    PROVE  (PeaksTyped /\ OnlyTaken /\ InOneCluster /\ WithoutGap /\ LedByStrongest)'
<1>1. next \in 1 .. n_peaks /\ peak \in Rows /\ peak_idx \in Nat /\ n_peaks \in Nat
  BY Dimensions DEF PeaksTyped
<1>2. \A i \in 1 .. peak_idx : peaks[i] # peak /\ i \in 1 .. n_peaks
  BY <1>1 DEF PeaksTyped
<1>3. Rows \subseteq Int
  BY Dimensions DEF Rows, Indices
<1>4. PICK near \in Elements(k) : Size(peak - near) = 1
  BY DEF Neighbours, Elements
<1>5. clusters[k] \in Seq(Rows) /\ Len(clusters[k]) > 0
  BY <1>4 DEF PeaksTyped, Elements
<1>6. clusters' \in [1 .. n_peaks -> Seq(Rows)] /\ clusters'[k] = Append(clusters[k], peak)
      /\ \A c \in (1 .. n_peaks) \ {k} : clusters'[c] = clusters[c]
  BY <1>1, <1>5 DEF PeaksTyped
<1>7. Elements(k)' = Elements(k) \cup {peak} /\ clusters'[k][1] = clusters[k][1]
  BY <1>1, <1>5, <1>6, AppendElements DEF Elements
<1>8. \A c \in (1 .. n_peaks) \ {k} : Elements(c)' = Elements(c)
  BY <1>6 DEF Elements
<1>9. \A c \in 1 .. n_peaks : peak \notin Elements(c)
  BY <1>2 DEF OnlyTaken
<1>10. Elements(k) \subseteq Rows
  BY <1>1, <1>2 DEF OnlyTaken, PeaksTyped
<1>11. peak_idx' = next /\ 1 .. next = 1 .. peak_idx \cup {next} /\ peaks[next] = peak
       /\ next = peak_idx + 1
  BY <1>1
<1>12. PeaksTyped'
  BY <1>1, <1>6, <1>11 DEF PeaksTyped
<1>13. OnlyTaken'
  <2>1. \A c \in 1 .. n_peaks : Elements(c)' \subseteq {peaks[i] : i \in 1 .. next}
    BY <1>7, <1>8, <1>11 DEF OnlyTaken
  <2> QED
    BY <2>1, <1>11, Zenon DEF OnlyTaken, Elements
<1>14. InOneCluster'
  <2>1. \A i \in 1 .. next : \E c \in 1 .. n_peaks :
            /\ peaks[i] \in Elements(c)'
            /\ \A d \in 1 .. n_peaks : peaks[i] \in Elements(d)' => d = c
    <3> SUFFICES ASSUME NEW i \in 1 .. next
                 PROVE  \E c \in 1 .. n_peaks :
                            /\ peaks[i] \in Elements(c)'
                            /\ \A d \in 1 .. n_peaks : peaks[i] \in Elements(d)' => d = c
      OBVIOUS
    <3>1. CASE i = next
      BY <3>1, <1>7, <1>8, <1>9, <1>11
    <3>2. CASE i \in 1 .. peak_idx
      <4>1. PICK c \in 1 .. n_peaks : /\ peaks[i] \in Elements(c)
                                      /\ \A d \in 1 .. n_peaks : peaks[i] \in Elements(d) => d = c
        BY <3>2 DEF InOneCluster
      <4>2. \A d \in 1 .. n_peaks : peaks[i] \in Elements(d)' <=> peaks[i] \in Elements(d)
        BY <3>2, <1>2, <1>7, <1>8
      <4> QED
        BY <4>1, <4>2
    <3> QED
      BY <3>1, <3>2, <1>11
  <2> QED
    BY <2>1, <1>11, Zenon DEF InOneCluster, Elements
<1>15. WithoutGap'
  <2>1. \A c \in 1 .. n_peaks : \A x, y \in Elements(c)', r \in Rows :
            x < r /\ r < y => r \in Elements(c)'
    <3> SUFFICES ASSUME NEW c \in 1 .. n_peaks, NEW x \in Elements(c)', NEW y \in Elements(c)',
                        NEW r \in Rows, x < r, r < y
                 PROVE  r \in Elements(c)'
      OBVIOUS
    <3>1. CASE c # k
      <4>1. x \in Elements(c) /\ y \in Elements(c)
        BY <3>1, <1>8
      <4>2. r \in Elements(c)
        BY <4>1 DEF WithoutGap
      <4> QED
        BY <3>1, <4>2, <1>8
    <3>2. CASE c = k
      <4>1. /\ x \in Elements(k) \/ x = peak
            /\ y \in Elements(k) \/ y = peak
        BY <3>2, <1>7
      <4>2. near \in Int /\ peak \in Int /\ r \in Int /\ (peak = near + 1 \/ peak = near - 1)
        <5>1. near \in Int /\ peak \in Int /\ r \in Int
          BY <1>1, <1>3, <1>4, <1>10
        <5> QED
          BY <5>1, <1>4 DEF Size
      <4>3. x \in Int /\ y \in Int
        BY <4>1, <4>2, <1>3, <1>10
      <4>4. CASE x \in Elements(k) /\ y \in Elements(k)
        BY <4>4, <3>2, <1>7 DEF WithoutGap
      <4>5. CASE x = peak /\ y \in Elements(k)
        <5>1. r = near \/ (near < r /\ r < y)
          BY <4>2, <4>3, <4>5
        <5>2. r \in Elements(k)
          BY <4>5, <5>1 DEF WithoutGap
        <5> QED
          BY <5>2, <3>2, <1>7
      <4>6. CASE x \in Elements(k) /\ y = peak
        <5>1. r = near \/ (x < r /\ r < near)
          BY <4>2, <4>3, <4>6
        <5>2. r \in Elements(k)
          BY <4>6, <5>1 DEF WithoutGap
        <5> QED
          BY <5>2, <3>2, <1>7
      <4>7. CASE x = peak /\ y = peak
        BY <4>2, <4>7
      <4> QED
        BY <4>1, <4>4, <4>5, <4>6, <4>7
    <3> QED
      BY <3>1, <3>2
  <2> QED
    BY <2>1, Zenon DEF WithoutGap, Elements
<1>16. LedByStrongest'
  <2>1. \A c \in 1 .. n_peaks : Elements(c)' # {} =>
            /\ clusters'[c][1] = peaks[c]
            /\ c <= next
            /\ \A i \in 1 .. c - 1 : peaks[i] \notin Elements(c)'
    <3> SUFFICES ASSUME NEW c \in 1 .. n_peaks, Elements(c)' # {}
                 PROVE  /\ clusters'[c][1] = peaks[c]
                        /\ c <= next
                        /\ \A i \in 1 .. c - 1 : peaks[i] \notin Elements(c)'
      OBVIOUS
    <3>1. CASE c = k
      <4>1. /\ clusters[k][1] = peaks[k]
            /\ k <= peak_idx
            /\ \A i \in 1 .. k - 1 : peaks[i] \notin Elements(k)
        BY <1>4 DEF LedByStrongest
      <4>2. \A i \in 1 .. k - 1 : peaks[i] # peak
        BY <4>1, <1>1, <1>2
      <4> QED
        BY <3>1, <4>1, <4>2, <1>1, <1>7, <1>11
    <3>2. CASE c # k
      <4>1. Elements(c)' = Elements(c) /\ clusters'[c] = clusters[c]
        BY <3>2, <1>6, <1>8
      <4>2. /\ clusters[c][1] = peaks[c]
            /\ c <= peak_idx
            /\ \A i \in 1 .. c - 1 : peaks[i] \notin Elements(c)
        BY <4>1 DEF LedByStrongest
      <4>3. c <= next
        BY <4>2, <1>1, <1>11
      <4> QED
        BY <4>1, <4>2, <4>3
    <3> QED
      BY <3>1, <3>2
  <2> QED
    BY <2>1, <1>11, Zenon DEF LedByStrongest, Elements
<1> QED
  BY <1>12, <1>13, <1>14, <1>15, <1>16

(* Every peak taken so far is in one cluster, and no other peak in any.    *)
LEMMA PeaksCounted ==
    ASSUME PeaksTyped, OnlyTaken, InOneCluster, NEW i \in 1 .. n_peaks
    PROVE  Cardinality({c \in 1 .. n_peaks : peaks[i] \in Elements(c)})
                = (IF i <= peak_idx THEN 1 ELSE 0)
<1> DEFINE S == {c \in 1 .. n_peaks : peaks[i] \in Elements(c)}
<1>1. peak_idx \in Nat /\ n_peaks \in Nat
  BY Dimensions DEF PeaksTyped
<1>2. CASE i <= peak_idx
  <2>1. i \in 1 .. peak_idx
    BY <1>1, <1>2
  <2>2. PICK c \in 1 .. n_peaks : /\ peaks[i] \in Elements(c)
                                  /\ \A d \in 1 .. n_peaks : peaks[i] \in Elements(d) => d = c
    BY <2>1 DEF InOneCluster
  <2>3. S = {c}
    BY <2>2
  <2> QED
    BY <1>2, <2>3, FS_Singleton
<1>3. CASE ~(i <= peak_idx)
  <2>1. \A j \in 1 .. peak_idx : j \in 1 .. n_peaks /\ peaks[i] # peaks[j]
    BY <1>1, <1>3 DEF PeaksTyped
  <2>2. S = {}
    BY <2>1 DEF OnlyTaken
  <2> QED
    BY <1>3, <2>2, FS_EmptySet
<1> QED
  BY <1>2, <1>3

(* What is known of the clusters is inductive.                             *)
LEMMA ClustersInductive == HandSpec => []ClustersInv
<1>1. HandInit => ClustersInv
  BY SMT DEF HandInit, ClustersInv
<1>2. ClustersInv /\ [HandNext]_handVars => ClustersInv'
  <2> SUFFICES ASSUME ClustersInv, [HandNext]_handVars PROVE ClustersInv'
    OBVIOUS
  <2>1. CASE BuildComplexRdi
    BY <2>1 DEF BuildComplexRdi, ClustersInv
  <2>2. CASE EstimateHuman
    BY <2>2 DEF EstimateHuman, ClustersInv
  <2>3. CASE GetHandRoi
    BY <2>3 DEF GetHandRoi, ClustersInv
  <2>4. CASE MaskHandRoi
    BY <2>4 DEF MaskHandRoi, ClustersInv
  <2>5. CASE FindPeaks
    <3>1. /\ peaks' \in PeaksOf(DopplerProfileOf(masked_mean_abs_rdi, hand_search))
          /\ peak_idx' = 0
          /\ clusters' = [c \in 1 .. n_peaks |-> <<>>]
      BY <2>5 DEF FindPeaks
    <3>2. peaks' \in Injection(1 .. n_peaks, Rows)
      BY <3>1 DEF PeaksOf
    <3>3. /\ peaks' \in [1 .. n_peaks -> Rows]
          /\ \A i, j \in 1 .. n_peaks : peaks'[i] = peaks'[j] => i = j
      BY <3>2 DEF Injection, IsInjective
    <3>4. <<>> \in Seq(Rows)
      OBVIOUS
    <3>5. PeaksTyped'
      BY <3>1, <3>3, <3>4, Dimensions DEF PeaksTyped
    <3>6. \A c \in 1 .. n_peaks : {clusters'[c][e] : e \in 1 .. Len(clusters'[c])} = {}
      BY <3>1
    <3>7. 1 .. 0 = {}
      OBVIOUS
    <3>8. OnlyTaken' /\ InOneCluster' /\ WithoutGap' /\ LedByStrongest'
      BY <3>1, <3>6, <3>7, Zenon DEF OnlyTaken, InOneCluster, WithoutGap, LedByStrongest, Elements
    <3> QED
      BY <3>5, <3>8 DEF ClustersInv
  <2>6. CASE ClusterPeak
    <3> DEFINE next == peak_idx + 1
               peak == peaks[next]
               beside == {c \in 1 .. n_peaks : Neighbours(c, peak)}
    <3>1. /\ hand_step = "peaks" /\ peak_idx < n_peaks
          /\ peak_idx' = next /\ peaks' = peaks /\ hand_step' = hand_step
      BY <2>6 DEF ClusterPeak
    <3>2. PeaksTyped /\ OnlyTaken /\ InOneCluster /\ WithoutGap /\ LedByStrongest
      BY <3>1 DEF ClustersInv
    <3>3. CASE beside = {}
      <4>1. clusters' = [clusters EXCEPT ![next] = <<peak>>]
        BY <2>6, <3>3 DEF ClusterPeak
      <4>2. (PeaksTyped /\ OnlyTaken /\ InOneCluster /\ WithoutGap /\ LedByStrongest)'
        BY <3>1, <3>2, <4>1, NewCluster
      <4> QED
        BY <4>2 DEF ClustersInv
    <3>4. CASE beside # {}
      <4>1. PICK c \in beside : clusters' = [clusters EXCEPT ![c] = Append(clusters[c], peak)]
        BY <2>6, <3>4 DEF ClusterPeak
      <4>2. (PeaksTyped /\ OnlyTaken /\ InOneCluster /\ WithoutGap /\ LedByStrongest)'
        BY <3>1, <3>2, <4>1, JoinedCluster
      <4> QED
        BY <4>2 DEF ClustersInv
    <3> QED
      BY <3>3, <3>4
  <2>7. CASE DetectHand
    BY <2>7 DEF DetectHand, ClustersInv
  <2>8. CASE Return
    BY <2>8 DEF Return, ClustersInv
  <2>9. CASE UNCHANGED handVars
    <3>1. hand_step' = hand_step /\ peaks' = peaks /\ peak_idx' = peak_idx /\ clusters' = clusters
      BY <2>9 DEF handVars, detected
    <3>2. PeaksTyped => PeaksTyped'
      BY <3>1 DEF PeaksTyped
    <3>3. OnlyTaken => OnlyTaken'
      BY <3>1 DEF OnlyTaken, Elements
    <3>4. InOneCluster => InOneCluster'
      BY <3>1 DEF InOneCluster, Elements
    <3>5. WithoutGap => WithoutGap'
      BY <3>1 DEF WithoutGap, Elements
    <3>6. LedByStrongest => LedByStrongest'
      <4>1. \A c \in 1 .. n_peaks : Elements(c)' = Elements(c)
        BY <3>1 DEF Elements
      <4> QED
        BY <3>1, <4>1, Zenon DEF LedByStrongest
    <3> QED
      BY <3>1, <3>2, <3>3, <3>4, <3>5, <3>6 DEF ClustersInv
  <2> QED
    BY <2>1, <2>2, <2>3, <2>4, <2>5, <2>6, <2>7, <2>8, <2>9 DEF HandNext
<1> QED
  BY <1>1, <1>2, PTL DEF HandSpec

(* However cluster_peaks meets the peaks, with every order of equal ones,  *)
(* each is put in one cluster, a cluster is a run of velocities without a  *)
(* gap, and its first peak is the strongest of it.                         *)
THEOREM ClustersAlwaysRuns == HandSpec => []ClustersAreRuns
<1>1. ClustersInv => ClustersAreRuns
  <2> SUFFICES ASSUME ClustersInv, hand_step = "peaks"
               PROVE  /\ \A i \in 1 .. n_peaks :
                          Cardinality({c \in 1 .. n_peaks : peaks[i] \in Elements(c)})
                              = (IF i <= peak_idx THEN 1 ELSE 0)
                      /\ WithoutGap /\ LedByStrongest
    BY Zenon DEF ClustersAreRuns, WithoutGap, LedByStrongest
  <2> QED
    BY PeaksCounted DEF ClustersInv
<1> QED
  BY <1>1, ClustersInductive, PTL

-----------------------------------------------------------------------------
(* The image and the background level.                                     *)

(* A place below their number has a value among those that are sorted.     *)
LEMMA SortedIsOne ==
    ASSUME NEW S, IsFiniteSet(S), NEW f, \A i \in S : f[i] \in Nat,
           NEW k \in Nat, k < Cardinality(S)
    PROVE  \E i \in S : Sorted(f, S, k) = f[i]
<1> DEFINE Values == {f[i] : i \in S}
           Upto(v) == {i \in S : f[i] <= v}
           Below(v) == {i \in S : f[i] < v}
           Enough == {v \in Values : k < Cardinality(Upto(v))}
<1>1. \A T \in SUBSET S : IsFiniteSet(T) /\ Cardinality(T) \in Nat /\ Cardinality(T) <= Cardinality(S)
  BY FS_Subset, FS_CardinalityType
<1>2. Cardinality(S) \in Nat
  BY FS_CardinalityType
<1>3. S # {}
  BY <1>2, FS_EmptySet
<1>4. Values \subseteq Nat
  OBVIOUS
<1>5. \E i \in S : \A j \in S : f[j] <= f[i]
  <2> DEFINE Left == {Cardinality(S) - Cardinality(Upto(v)) : v \in Values}
  <2>1. \A v \in Values : Upto(v) \in SUBSET S
    OBVIOUS
  <2>2. Left \subseteq Nat /\ Left # {}
    <3>1. \A v \in Values : Cardinality(S) - Cardinality(Upto(v)) \in Nat
      BY <1>1, <1>2, <2>1
    <3> QED
      BY <1>3, <3>1
  <2>3. PICK l \in Left : \A m \in Left : l <= m
    BY <2>2, LeastNatural
  <2>4. PICK i \in S : l = Cardinality(S) - Cardinality(Upto(f[i]))
    BY <2>3
  <2>5. ASSUME NEW j \in S, ~(f[j] <= f[i]) PROVE FALSE
    <3> DEFINE A == Upto(f[i])
               B == Upto(f[j])
    <3>1. f[i] \in Nat /\ f[j] \in Nat /\ f[i] < f[j]
      BY <2>5
    <3>2. A \subseteq B /\ j \in B /\ j \notin A
      BY <3>1, <1>4
    <3>3. IsFiniteSet(B) /\ Cardinality(A) \in Nat /\ Cardinality(B) \in Nat
      BY <1>1
    <3>4. Cardinality(A) < Cardinality(B)
      <4>1. A # B
        BY <3>2
      <4> HIDE DEF A, B
      <4>2. Cardinality(A) <= Cardinality(B) /\ (Cardinality(A) = Cardinality(B) => A = B)
        BY <3>2, <3>3, FS_Subset
      <4> QED
        BY <3>3, <4>1, <4>2
    <3>5. Cardinality(S) - Cardinality(B) \in Left
      OBVIOUS
    <3>6. l <= Cardinality(S) - Cardinality(B)
      BY <2>3, <3>5
    <3> QED
      BY <1>2, <2>4, <3>3, <3>4, <3>6
  <2> QED
    BY <2>5
<1>6. Enough # {}
  <2>1. PICK i \in S : \A j \in S : f[j] <= f[i]
    BY <1>5
  <2>2. Upto(f[i]) = S
    BY <2>1
  <2> QED
    BY <2>2
<1>7. PICK v \in Enough : \A w \in Enough : v <= w
  BY <1>4, <1>6, LeastNatural
<1>8. Cardinality(Below(v)) <= k
  <2> SUFFICES ASSUME ~(Cardinality(Below(v)) <= k) PROVE FALSE
    OBVIOUS
  <2> DEFINE Gaps == {v - f[i] : i \in Below(v)}
  <2>1. Cardinality(Below(v)) \in Nat /\ k < Cardinality(Below(v))
    BY <1>1
  <2>2. Below(v) # {}
    BY <2>1, FS_EmptySet
  <2>3. v \in Nat
    BY <1>4, <1>7
  <2>4. Gaps \subseteq Nat /\ Gaps # {}
    <3>1. \A i \in Below(v) : v - f[i] \in Nat
      BY <2>3
    <3> QED
      BY <2>2, <3>1
  <2>5. PICK g \in Gaps : \A h \in Gaps : g <= h
    BY <2>4, LeastNatural
  <2>6. PICK i \in Below(v) : g = v - f[i]
    BY <2>5
  <2>7. Upto(f[i]) = Below(v)
    <3>1. \A j \in Below(v) : f[j] <= f[i]
      <4>1. ASSUME NEW j \in Below(v) PROVE f[j] <= f[i]
        <5>1. v - f[j] \in Gaps
          OBVIOUS
        <5>2. v - f[i] <= v - f[j]
          BY <5>1, <2>5, <2>6
        <5> QED
          BY <5>2, <2>3
      <4> QED
        BY <4>1
    <3>2. \A j \in S : f[j] <= f[i] => f[j] < v
      BY <2>3, <2>6
    <3> QED
      BY <3>1, <3>2
  <2>8. f[i] \in Enough
    BY <2>1, <2>6, <2>7
  <2>9. v <= f[i] /\ f[i] < v
    BY <1>7, <2>6, <2>8
  <2> QED
    BY <2>3, <2>9, <2>6
<1>9. v \in Values /\ Cardinality(Below(v)) <= k /\ k < Cardinality(Upto(v))
  BY <1>7, <1>8
<1>10. Sorted(f, S, k) \in Values
  BY <1>9 DEF Sorted
<1> QED
  BY <1>10

(* get_background_level takes its level from cells that are there.         *)
LEMMA LevelIsNatural ==
    ASSUME NEW n \in Nat, NEW image \in [Indices(n) -> Int]
    PROVE  BackgroundLevel(image) \in Nat
<1> DEFINE S == {i \in Indices(n) : image[i] > 0}
           c == Cardinality(S)
<1>1. IsFiniteSet(S) /\ c \in Nat
  <2>1. IsFiniteSet(Indices(n))
    BY FS_Interval DEF Indices
  <2>2. S \in SUBSET Indices(n)
    OBVIOUS
  <2> QED
    BY <2>1, <2>2, FS_Subset, FS_CardinalityType
<1>2. \A i \in S : image[i] \in Nat
  OBVIOUS
<1>3. S = {i \in DOMAIN image : image[i] > 0}
  OBVIOUS
<1> HIDE DEF S
<1>4. \A k \in Nat : k < c => Sorted(image, S, k) \in Nat
  BY <1>1, <1>2, SortedIsOne
<1>5. /\ c % 2 \in {0, 1}
      /\ c > 0 /\ c % 2 = 0 => (c \div 2) - 1 \in Nat /\ (c \div 2) - 1 < c
                               /\ c \div 2 \in Nat /\ c \div 2 < c
      /\ c % 2 = 1 => c \div 2 \in Nat /\ c \div 2 < c
  BY <1>1, SMT
<1>6. BackgroundLevel(image) =
        CASE c = 0 -> 0
          [] c > 0 /\ c % 2 = 0 -> Sorted(image, S, (c \div 2) - 1) + Sorted(image, S, c \div 2)
          [] c % 2 = 1 -> 2 * Sorted(image, S, c \div 2)
  BY <1>3, Zenon DEF BackgroundLevel
<1> HIDE DEF c
<1>7. CASE c = 0
  <2>1. BackgroundLevel(image) = 0
    BY <1>6, <1>7
  <2> QED
    BY <2>1
<1>8. CASE c > 0 /\ c % 2 = 0
  <2>1. BackgroundLevel(image) = Sorted(image, S, (c \div 2) - 1) + Sorted(image, S, c \div 2)
    BY <1>1, <1>6, <1>8
  <2> QED
    BY <1>4, <1>5, <1>8, <2>1
<1>9. CASE c % 2 = 1
  <2>1. c # 0 /\ c % 2 # 0
    BY <1>1, <1>9
  <2>2. BackgroundLevel(image) = 2 * Sorted(image, S, c \div 2)
    BY <1>6, <1>9, <2>1
  <2> QED
    BY <1>4, <1>5, <1>9, <2>2
<1> QED
  BY <1>1, <1>5, <1>7, <1>8, <1>9

(* A velocity and a bin are a cell of the image, and come back from it.    *)
LEMMA CellInImage ==
    ASSUME NEW row \in Rows, NEW col \in Cols
    PROVE  /\ Cell(row, col) \in Indices(mean_rdi_size)
           /\ Cell(row, col) \div hand_cfg.n_range_bins = row
           /\ Cell(row, col) % hand_cfg.n_range_bins = col
<1> DEFINE n == hand_cfg.n_chirps
           d == hand_cfg.n_range_bins
<1>1. n \in Nat \ {0} /\ d \in Nat \ {0} /\ row \in 0 .. n - 1 /\ col \in 0 .. d - 1
  BY Dimensions DEF Rows, Cols, Indices
<1>2. Cell(row, col) = row * d + col /\ mean_rdi_size = n * d
  BY DEF Cell, mean_rdi_size
<1> HIDE DEF n, d
<1>3. row * d + col = d * row + col
  BY <1>1, SMT
<1>4. /\ d * row + col \in 0 .. n * d - 1
      /\ (d * row + col) \div d = row /\ (d * row + col) % d = col
  BY <1>1, PairInTable
<1> QED
  BY <1>2, <1>3, <1>4 DEF d, Indices

(* A sum over an array is what the recursion of MapThenSumSet makes it.    *)
LEMMA SumIs ==
    ASSUME NEW S, IsFiniteSet(S), NEW F \in [S -> Int]
    PROVE  (\E g : IsSum(g, F, S) /\ SumOf(F) = g[S]) /\ SumOf(F) \in Int
<1> DEFINE g == CHOOSE g : IsSum(g, F, S)
<1>1. IsSum(g, F, S)
  BY SumExists
<1>2. SumOf(F) = g[S]
  BY DEF SumOf, MapThenSumSet, MapThenFoldSet, IsSum
<1> HIDE DEF g
<1>3. SumOf(F) \in Int
  BY <1>1, <1>2, SumType
<1> QED
  BY <1>1, <1>2, <1>3

(* mean_rdi_channel_f32 makes an image of numbers out of one, ...          *)
LEMMA MeanOfIntegers ==
    ASSUME NEW image \in [Indices(rdi_size) -> Int \X Int]
    PROVE  MeanOverChannels([i \in Indices(rdi_size) |-> Magnitude(image[i])], hand_cfg)
                \in [Indices(mean_rdi_size) -> Int]
<1> DEFINE abs == [i \in Indices(rdi_size) |-> Magnitude(image[i])]
           S == Indices(hand_cfg.n_channels)
           len == mean_rdi_size
<1>1. hand_cfg.n_channels = 3 /\ mean_rdi_size \in Nat /\ rdi_size = 3 * mean_rdi_size
  <2>1. hand_cfg.n_channels = 3
    BY HandAssumption DEF HandAssumption
  <2>2. mean_rdi_size \in Nat
    BY Dimensions, SMT DEF mean_rdi_size
  <2> QED
    BY <2>1, <2>2, Zenon DEF rdi_size
<1>2. IsFiniteSet(S)
  <2>1. S = 0 .. 2
    BY <1>1 DEF Indices
  <2>2. IsFiniteSet(0 .. 2)
    <3>1. 0 \in Int /\ 2 \in Int
      OBVIOUS
    <3> QED
      BY <3>1, FS_Interval, Zenon
  <2> QED
    BY <2>1, <2>2, Zenon
<1>3. ASSUME NEW i \in Indices(len), NEW ch \in S PROVE abs[ch * len + i] \in Int
  <2>1. ch * len + i \in Indices(rdi_size)
    <3>1. ch \in {0, 1, 2} /\ i \in 0 .. len - 1 /\ len \in Nat
      BY <1>1 DEF Indices
    <3> QED
      BY <1>1, <3>1, SMT DEF Indices
  <2>2. \A a \in Int \X Int : Magnitude(a) \in Int
    BY DEF Magnitude, Size
  <2> QED
    BY <2>1, <2>2
<1>4. ASSUME NEW i \in Indices(len)
      PROVE  SumOf([ch \in S |-> abs[ch * len + i]]) \in Int
  <2>1. [ch \in S |-> abs[ch * len + i]] \in [S -> Int]
    BY <1>3
  <2> HIDE DEF abs, S, len
  <2> QED
    BY <1>2, <2>1, SumIs
<1>5. MeanOverChannels(abs, hand_cfg)
        = [i \in Indices(len) |-> SumOf([ch \in S |-> abs[ch * len + i]])]
  BY DEF MeanOverChannels, mean_rdi_size
<1> QED
  BY <1>4, <1>5

(* ... and a velocity's strength in it is a number.                        *)
LEMMA ProfileOfIntegers ==
    ASSUME NEW image \in [Indices(mean_rdi_size) -> Int], NEW search,
           RowsOf(search) = Rows, ColsOf(search) \subseteq Cols
    PROVE  DopplerProfileOf(image, search) \in [Rows -> Int]
<1> DEFINE S == ColsOf(search)
<1>1. IsFiniteSet(S)
  <2>1. IsFiniteSet(Cols)
    <3>1. Cols = 0 .. hand_cfg.n_range_bins - 1 /\ hand_cfg.n_range_bins - 1 \in Int
      BY Dimensions DEF Cols, Indices
    <3> QED
      BY <3>1, FS_Interval
  <2> QED
    BY <2>1, FS_Subset
<1>2. ASSUME NEW row \in Rows PROVE SumOf([col \in S |-> image[Cell(row, col)]]) \in Int
  <2>1. [col \in S |-> image[Cell(row, col)]] \in [S -> Int]
    BY CellInImage
  <2> HIDE DEF S
  <2> QED
    BY <1>1, <2>1, SumIs
<1> QED
  BY <1>2 DEF DopplerProfileOf

(* mask_hand_roi leaves an image, of which a cell of the search is as it   *)
(* was, or 0 where the person is.                                          *)
LEMMA MaskedImage ==
    ASSUME NEW image \in [Indices(mean_rdi_size) -> Int], NEW search, NEW mask
    PROVE  /\ Masked(image, search, mask) \in [Indices(mean_rdi_size) -> Int]
           /\ \A row \in Rows, col \in Cols :
                row \in RowsOf(search) /\ col \in ColsOf(search) =>
                    Masked(image, search, mask)[Cell(row, col)]
                        = IF row \in RowsOf(mask) /\ col \in ColsOf(mask) THEN 0
                          ELSE image[Cell(row, col)]
<1>1. Masked(image, search, mask) \in [Indices(mean_rdi_size) -> Int]
  BY DEF Masked
<1>2. ASSUME NEW row \in Rows, NEW col \in Cols, row \in RowsOf(search), col \in ColsOf(search)
      PROVE  Masked(image, search, mask)[Cell(row, col)]
                = IF row \in RowsOf(mask) /\ col \in ColsOf(mask) THEN 0
                  ELSE image[Cell(row, col)]
  <2>1. /\ Cell(row, col) \in DOMAIN image
        /\ Cell(row, col) \div hand_cfg.n_range_bins = row
        /\ Cell(row, col) % hand_cfg.n_range_bins = col
    BY CellInImage
  <2>2. /\ InRegion(Cell(row, col), search)
        /\ InRegion(Cell(row, col), mask) <=> row \in RowsOf(mask) /\ col \in ColsOf(mask)
    BY <1>2, <2>1 DEF InRegion
  <2> QED
    BY <2>1, <2>2, Zenon DEF Masked
<1> QED
  BY <1>1, <1>2

(* A peak that no stronger one is a neighbour of starts a cluster.         *)
OwnPlace ==
    \A i \in 1 .. peak_idx :
        (\A j \in 1 .. i - 1 : Size(peaks[i] - peaks[j]) # 1) => clusters[i] # <<>>

(* What algo's arrays hold, from step to step.                             *)
ImageInv ==
    /\ "success" \in DOMAIN hand_out
    /\ hand_step \in {"image", "human", "regions", "masked", "peaks"} =>
        mean_abs_rdi \in [Indices(mean_rdi_size) -> Int]
    /\ hand_step \in {"masked", "peaks"} =>
        /\ masked_mean_abs_rdi = Masked(mean_abs_rdi, hand_search, human_mask)
        /\ bg_level \in Nat
    /\ hand_step = "peaks" =>
        /\ peaks \in PeaksOf(DopplerProfileOf(masked_mean_abs_rdi, hand_search))
        /\ OwnPlace

LEMMA OwnPlaceKept ==
    ASSUME PeaksTyped, OnlyTaken, OwnPlace, ClusterPeak
    PROVE  OwnPlace'
<1> DEFINE next == peak_idx + 1
           peak == peaks[next]
           beside == {c \in 1 .. n_peaks : Neighbours(c, peak)}
<1>1. /\ peaks' = peaks /\ peak_idx' = next /\ peak_idx < n_peaks
      /\ peak_idx \in Nat /\ n_peaks \in Nat /\ next \in 1 .. n_peaks
      /\ clusters \in [1 .. n_peaks -> Seq(Rows)] /\ peak \in Rows
  <2>1. peaks' = peaks /\ peak_idx' = next /\ peak_idx < n_peaks
    BY DEF ClusterPeak
  <2>2. peak_idx \in 0 .. n_peaks /\ n_peaks \in Nat
    BY Dimensions DEF PeaksTyped
  <2>3. next \in 1 .. n_peaks
    BY <2>1, <2>2
  <2> QED
    BY <2>1, <2>2, <2>3 DEF PeaksTyped
<1>2. CASE beside = {}
  <2>1. clusters' = [clusters EXCEPT ![next] = <<peak>>]
    BY <1>2 DEF ClusterPeak
  <2>2. clusters'[next] # <<>> /\ \A i \in 1 .. peak_idx : clusters'[i] = clusters[i]
    BY <1>1, <2>1
  <2>3. \A i \in 1 .. next : i \in 1 .. peak_idx \/ i = next
    BY <1>1
  <2> HIDE DEF next, peak, beside
  <2> QED
    BY <1>1, <2>2, <2>3 DEF OwnPlace
<1>3. CASE beside # {}
  <2>1. PICK k \in beside : clusters' = [clusters EXCEPT ![k] = Append(clusters[k], peak)]
    BY <1>3 DEF ClusterPeak
  <2>2. \A i \in 1 .. peak_idx : clusters[i] # <<>> => clusters'[i] # <<>>
    <3>1. \A s \in Seq(Rows) : Append(s, peak) # <<>>
      <4>1. \A s \in Seq(Rows) : Len(Append(s, peak)) = Len(s) + 1 /\ Len(s) \in Nat
        BY <1>1
      <4>2. Len(<<>>) = 0
        OBVIOUS
      <4> HIDE DEF peak
      <4>3. ASSUME NEW s \in Seq(Rows), Append(s, peak) = <<>> PROVE FALSE
        <5>1. Len(s) + 1 = 0 /\ Len(s) \in Nat
          BY <4>1, <4>2, <4>3
        <5> QED
          BY <5>1
      <4> QED
        BY <4>3
    <3> QED
      BY <1>1, <2>1, <3>1
  <2>3. PICK e \in 1 .. Len(clusters[k]) : Size(peak - clusters[k][e]) = 1
    BY <2>1 DEF Neighbours
  <2>4. PICK j \in 1 .. peak_idx : clusters[k][e] = peaks[j]
    BY <2>1 DEF OnlyTaken, Elements
  <2>5. j \in 1 .. next - 1 /\ ~(Size(peaks[next] - peaks[j]) # 1)
    BY <1>1, <2>3, <2>4
  <2>6. \A i \in 1 .. next : i \in 1 .. peak_idx \/ i = next
    BY <1>1
  <2> QED
    BY <1>1, <2>2, <2>5, <2>6 DEF OwnPlace
<1> QED
  BY <1>2, <1>3

(* What the arrays hold is inductive.                                      *)
LEMMA ImageInductive == HandSpec => []ImageInv
<1>1. HandInit => ImageInv
  BY DEF HandInit, ImageInv, NoOutput
<1>2. RegionsInv /\ ClustersInv /\ ImageInv /\ [HandNext]_handVars => ImageInv'
  <2> SUFFICES ASSUME RegionsInv, ClustersInv, ImageInv, [HandNext]_handVars PROVE ImageInv'
    OBVIOUS
  <2>1. CASE BuildComplexRdi
    <3>1. hand_out' = hand_out /\ hand_step' \in {"image", "aborted"}
      BY <2>1 DEF BuildComplexRdi
    <3>2. CASE hand_step' = "image"
      <4>1. /\ rdi' \in RdiImages
            /\ mean_abs_rdi' = MeanOverChannels(
                    [i \in Indices(rdi_size) |-> Magnitude(rdi'[i])], hand_cfg)
        BY <2>1, <3>2 DEF BuildComplexRdi
      <4>2. rdi' \in [Indices(rdi_size) -> Int \X Int]
        BY <4>1, HandAssumption DEF HandAssumption, rdi_size, mean_rdi_size
      <4>3. mean_abs_rdi' \in [Indices(mean_rdi_size) -> Int]
        BY <4>1, <4>2, MeanOfIntegers
      <4> QED
        BY <3>1, <3>2, <4>3 DEF ImageInv
    <3> QED
      BY <3>1, <3>2 DEF ImageInv
  <2>2. CASE EstimateHuman
    BY <2>2 DEF EstimateHuman, ImageInv, arrays
  <2>3. CASE GetHandRoi
    BY <2>3 DEF GetHandRoi, ImageInv, arrays
  <2>4. CASE MaskHandRoi
    <3>1. /\ hand_step = "regions" /\ hand_step' = "masked" /\ hand_out' = hand_out
          /\ mean_abs_rdi' = mean_abs_rdi /\ hand_search' = hand_search /\ human_mask' = human_mask
          /\ masked_mean_abs_rdi' = Masked(mean_abs_rdi, hand_search, human_mask)
          /\ bg_level' = BackgroundLevel(masked_mean_abs_rdi')
      BY <2>4 DEF MaskHandRoi, limits
    <3>2. mean_abs_rdi \in [Indices(mean_rdi_size) -> Int]
      BY <3>1 DEF ImageInv
    <3>3. masked_mean_abs_rdi' \in [Indices(mean_rdi_size) -> Int]
      BY <3>1, <3>2, MaskedImage
    <3>4. mean_rdi_size \in Nat
      BY Dimensions, SMT DEF mean_rdi_size
    <3>5. bg_level' \in Nat
      BY <3>1, <3>3, <3>4, LevelIsNatural
    <3> QED
      BY <3>1, <3>2, <3>5 DEF ImageInv
  <2>5. CASE FindPeaks
    <3>1. /\ hand_step = "masked" /\ hand_step' = "peaks" /\ hand_out' = hand_out
          /\ UNCHANGED <<mean_abs_rdi, masked_mean_abs_rdi, hand_search, human_mask, bg_level>>
          /\ peaks' \in PeaksOf(DopplerProfileOf(masked_mean_abs_rdi, hand_search))
          /\ peak_idx' = 0
      BY <2>5 DEF FindPeaks, arrays, limits
    <3>2. OwnPlace'
      BY <3>1 DEF OwnPlace
    <3> QED
      BY <3>1, <3>2 DEF ImageInv
  <2>6. CASE ClusterPeak
    <3>1. /\ hand_step = "peaks" /\ hand_step' = "peaks" /\ hand_out' = hand_out
          /\ UNCHANGED <<mean_abs_rdi, masked_mean_abs_rdi, hand_search, human_mask, bg_level, peaks>>
      BY <2>6 DEF ClusterPeak, arrays, limits
    <3>2. OwnPlace'
      BY <2>6, <3>1, OwnPlaceKept DEF ImageInv, ClustersInv
    <3> QED
      BY <3>1, <3>2 DEF ImageInv
  <2>7. CASE DetectHand
    <3>1. hand_step' = "done"
      BY <2>7 DEF DetectHand
    <3>2. "success" \in DOMAIN hand_out'
      BY <2>7 DEF DetectHand, ImageInv
    <3> QED
      BY <3>1, <3>2 DEF ImageInv
  <2>8. CASE Return
    BY <2>8 DEF Return, ImageInv
  <2>9. CASE UNCHANGED handVars
    <3>1. UNCHANGED <<hand_step, hand_out, mean_abs_rdi, masked_mean_abs_rdi, hand_search,
                      human_mask, bg_level, peaks, peak_idx, clusters>>
      BY <2>9 DEF handVars, arrays, limits, detected
    <3>2. OwnPlace => OwnPlace'
      BY <3>1 DEF OwnPlace
    <3> QED
      BY <3>1, <3>2 DEF ImageInv
  <2> QED
    BY <2>1, <2>2, <2>3, <2>4, <2>5, <2>6, <2>7, <2>8, <2>9 DEF HandNext
<1> QED
  BY <1>1, <1>2, RegionsInductive, ClustersInductive, PTL DEF HandSpec

-----------------------------------------------------------------------------
(* The detections.                                                         *)

(* A cell of the masked image that stands out is one to be seen, and the   *)
(* image's own; and the other way round.                                   *)
LEMMA CellsThatStandOut ==
    ASSUME RegionsInImage, ImageInv, hand_step = "peaks",
           NEW row \in Rows, NEW col \in ColsOf(hand_search)
    PROVE  /\ masked_mean_abs_rdi[Cell(row, col)] \in Int
           /\ StandsOut(masked_mean_abs_rdi[Cell(row, col)]) <=> <<row, col>> \in Visible
           /\ <<row, col>> \in Visible =>
                masked_mean_abs_rdi[Cell(row, col)] = mean_abs_rdi[Cell(row, col)]
<1> DEFINE hidden == row \in RowsOf(human_mask) /\ col \in ColsOf(human_mask)
           at == Cell(row, col)
<1>1. /\ mean_abs_rdi \in [Indices(mean_rdi_size) -> Int]
      /\ masked_mean_abs_rdi = Masked(mean_abs_rdi, hand_search, human_mask)
      /\ bg_level \in Nat
  BY DEF ImageInv
<1>2. RowsOf(hand_search) = Rows /\ col \in Cols
  BY DEF RegionsInImage
<1>3. at \in Indices(mean_rdi_size)
  BY <1>2, CellInImage
<1>4. /\ masked_mean_abs_rdi[at] \in Int
      /\ hidden => masked_mean_abs_rdi[at] = 0
      /\ ~hidden => masked_mean_abs_rdi[at] = mean_abs_rdi[at]
  BY <1>1, <1>2, <1>3, MaskedImage
<1>5. ~StandsOut(0)
  <2>1. threshold \in Nat
    BY HandAssumption DEF HandAssumption
  <2>2. threshold * bg_level >= 0
    BY <1>1, <2>1, SMT
  <2> QED
    BY <1>1, <2>1, <2>2, SMT DEF StandsOut
<1>6. <<row, col>> \in Visible <=> ~hidden /\ StandsOut(mean_abs_rdi[at])
  <2>1. <<row, col>> \in RowsOf(hand_search) \X ColsOf(hand_search)
    BY <1>2
  <2>2. <<row, col>>[1] = row /\ <<row, col>>[2] = col
    OBVIOUS
  <2> QED
    BY <2>1, <2>2, Zenon DEF Visible
<1> QED
  BY <1>4, <1>5, <1>6, Zenon

(* Every suggestion is a cell to be seen, with its own value.              *)
LEMMA SuggestedIsVisible ==
    ASSUME RegionsInImage, ClustersInv, ImageInv, hand_step = "peaks",
           NEW detections \in Suggested, NEW c \in DOMAIN detections
    PROVE  /\ <<detections[c].doppler_bin, detections[c].range_bin>> \in Visible
           /\ detections[c].value
                = mean_abs_rdi[Cell(detections[c].doppler_bin, detections[c].range_bin)]
<1> DEFINE heads == {h \in 1 .. n_peaks : clusters[h] # <<>>}
           At(h, col) == masked_mean_abs_rdi[Cell(clusters[h][1], col)]
<1>1. PICK bins \in [heads -> ColsOf(hand_search)] :
        detections = [h \in {g \in heads : StandsOut(At(g, bins[g]))} |->
            [doppler_bin |-> clusters[h][1], range_bin |-> bins[h], value |-> At(h, bins[h])]]
  BY Zenon DEF Suggested
<1>2. c \in heads /\ StandsOut(At(c, bins[c]))
  BY <1>1
<1>3. detections[c] = [doppler_bin |-> clusters[c][1], range_bin |-> bins[c],
                       value |-> At(c, bins[c])]
  BY <1>1, <1>2
<1>4. clusters[c][1] \in Rows /\ bins[c] \in ColsOf(hand_search)
  <2>1. clusters[c] \in Seq(Rows) /\ clusters[c] # <<>>
    BY <1>2 DEF ClustersInv, PeaksTyped
  <2> QED
    BY <1>2, <2>1
<1>5. /\ <<clusters[c][1], bins[c]>> \in Visible
      /\ At(c, bins[c]) = mean_abs_rdi[Cell(clusters[c][1], bins[c])]
  BY <1>2, <1>4, CellsThatStandOut
<1> QED
  BY <1>3, <1>5

(* In a clear scene every velocity that is seen is a peak with a cluster   *)
(* of its own.                                                             *)
LEMMA FastStartsCluster ==
    ASSUME RegionsInImage, ClustersInv, ImageInv, hand_step = "peaks", peak_idx = n_peaks,
           ClearScene, NEW x \in Visible
    PROVE  \E h \in 1 .. n_peaks : clusters[h] # <<>> /\ clusters[h][1] = x[1]
<1> DEFINE profile == DopplerProfileOf(masked_mean_abs_rdi, hand_search)
           fast == {y[1] : y \in Visible}
           row == x[1]
<1>1. n_peaks \in Nat /\ peaks \in [1 .. n_peaks -> Rows]
      /\ \A i, j \in 1 .. n_peaks : peaks[i] = peaks[j] => i = j
  BY Dimensions DEF ClustersInv, PeaksTyped
<1>2. /\ \A i, j \in 1 .. n_peaks : i < j => profile[peaks[j]] <= profile[peaks[i]]
      /\ \A i \in 1 .. n_peaks, r \in Rows \ {peaks[j] : j \in 1 .. n_peaks} :
            profile[r] <= profile[peaks[i]]
  <2>1. peaks \in PeaksOf(profile)
    BY DEF ImageInv
  <2> QED
    BY <2>1, Zenon DEF PeaksOf
<1>3. profile \in [Rows -> Int]
  <2>1. masked_mean_abs_rdi \in [Indices(mean_rdi_size) -> Int]
    BY MaskedImage DEF ImageInv
  <2> QED
    BY <2>1, ProfileOfIntegers DEF RegionsInImage
<1>4. Visible \subseteq Rows \X ColsOf(hand_search)
  BY DEF Visible, RegionsInImage
<1>5. fast \subseteq Rows /\ row \in fast /\ IsFiniteSet(fast)
  <2>1. fast \subseteq Rows /\ row \in fast
    BY <1>4
  <2>2. IsFiniteSet(Rows)
    <3>1. Rows = 0 .. hand_cfg.n_chirps - 1 /\ hand_cfg.n_chirps - 1 \in Int
      BY Dimensions DEF Rows, Indices
    <3> QED
      BY <3>1, FS_Interval
  <2> QED
    BY <2>1, <2>2, FS_Subset
<1>6. /\ Cardinality(fast) <= n_peaks
      /\ \A a, b \in fast : Size(a - b) # 1
      /\ \A a \in fast, b \in Rows \ fast : profile[b] < profile[a]
  BY Zenon DEF ClearScene
<1> HIDE DEF profile, fast, row
<1>7. ASSUME NEW r \in Rows, profile[row] <= profile[r] PROVE r \in fast
  <2> SUFFICES ASSUME r \notin fast PROVE FALSE
    OBVIOUS
  <2>1. profile[r] < profile[row]
    BY <1>5, <1>6
  <2>2. profile[r] \in Int /\ profile[row] \in Int
    BY <1>3, <1>5
  <2> QED
    BY <1>7, <2>1, <2>2
<1>8. PICK k \in 1 .. n_peaks : peaks[k] = row
  <2> SUFFICES ASSUME row \notin {peaks[j] : j \in 1 .. n_peaks} PROVE FALSE
    BY Zenon
  <2>1. \A i \in 1 .. n_peaks : peaks[i] \in fast
    BY <1>1, <1>2, <1>5, <1>7
  <2> DEFINE taken == {peaks[j] : j \in 1 .. n_peaks}
  <2>2. taken \subseteq fast /\ row \notin taken
    BY <2>1
  <2>3. IsFiniteSet(taken) /\ Cardinality(taken) = n_peaks
    <3>1. peaks \in Bijection(1 .. n_peaks, taken)
      BY <1>1, Zenon DEF Bijection, Injection, Surjection, IsInjective
    <3>2. ExistsBijection(1 .. n_peaks, taken)
      BY <3>1, Zenon DEF ExistsBijection
    <3> QED
      BY <1>1, <1>5, <2>2, <3>2, FS_Subset, FS_CountingElements, Zenon
  <2>4. Cardinality(taken \cup {row}) = n_peaks + 1
    BY <2>2, <2>3, FS_AddElement
  <2>5. taken \cup {row} \subseteq fast
    BY <1>5, <2>2
  <2>6. Cardinality(taken \cup {row}) <= Cardinality(fast) /\ Cardinality(fast) \in Nat
    BY <1>5, <2>5, FS_Subset, FS_CardinalityType
  <2> QED
    BY <1>1, <1>6, <2>4, <2>6
<1>9. \A j \in 1 .. k - 1 : Size(peaks[k] - peaks[j]) # 1
  <2> SUFFICES ASSUME NEW j \in 1 .. k - 1 PROVE Size(peaks[k] - peaks[j]) # 1
    OBVIOUS
  <2>1. j \in 1 .. n_peaks /\ j < k
    BY <1>1
  <2>2. profile[row] <= profile[peaks[j]]
    BY <1>2, <1>8, <2>1
  <2>3. peaks[j] \in fast
    BY <1>1, <1>7, <2>1, <2>2
  <2> QED
    BY <1>5, <1>6, <1>8, <2>3
<1>10. clusters[k] # <<>>
  BY <1>9 DEF ImageInv, OwnPlace
<1>11. clusters[k][1] = peaks[k]
  <2>1. clusters[k] \in Seq(Rows)
    BY DEF ClustersInv, PeaksTyped
  <2>2. 1 \in 1 .. Len(clusters[k])
    BY <1>10, <2>1
  <2>3. Elements(k) # {}
    BY <2>2 DEF Elements
  <2> QED
    BY <2>3 DEF ClustersInv, LedByStrongest
<1> QED
  BY <1>8, <1>10, <1>11 DEF row

(* As many velocities as cells: one cell each.                             *)
LEMMA OneCellEach ==
    ASSUME RegionsInImage, hand_step = "peaks", ClearScene
    PROVE  \A y, z \in Visible : y[1] = z[1] => y = z
<1> DEFINE fast == {y[1] : y \in Visible}
           first == [y \in Visible |-> y[1]]
<1>1. IsFiniteSet(Visible)
  <2>1. IsFiniteSet(Rows) /\ IsFiniteSet(ColsOf(hand_search))
    <3>1. IsFiniteSet(Rows) /\ IsFiniteSet(Cols)
      <4>1. /\ Rows = 0 .. hand_cfg.n_chirps - 1 /\ hand_cfg.n_chirps - 1 \in Int
            /\ Cols = 0 .. hand_cfg.n_range_bins - 1 /\ hand_cfg.n_range_bins - 1 \in Int
        BY Dimensions DEF Rows, Cols, Indices
      <4> QED
        BY <4>1, FS_Interval
    <3>2. ColsOf(hand_search) \subseteq Cols
      BY DEF RegionsInImage
    <3> QED
      BY <3>1, <3>2, FS_Subset
  <2>2. IsFiniteSet(Rows \X ColsOf(hand_search))
    BY <2>1, FS_Product
  <2>3. Visible \subseteq Rows \X ColsOf(hand_search)
    BY DEF Visible, RegionsInImage
  <2> QED
    BY <2>2, <2>3, FS_Subset
<1>2. Cardinality(fast) = Cardinality(Visible)
  BY Zenon DEF ClearScene
<1>3. first \in Surjection(Visible, fast)
  BY Zenon DEF Surjection
<1>4. first \in Injection(Visible, fast)
  BY <1>1, <1>2, <1>3, FS_Surjection
<1> QED
  BY <1>4 DEF Injection, IsInjective

(* HandOfTheRegion of an output, in the scene of this step.                *)
SeenAs(out) ==
    LET hand == <<out.detection.doppler_bin, out.detection.range_bin>>
        At(x, ch) == rdi[ch * mean_rdi_size + Cell(x[1], x[2])]
    IN  /\ out.success =>
            /\ hand \in Visible
            /\ out.detection.value = mean_abs_rdi[Cell(hand[1], hand[2])]
        /\ Visible = {} => ~out.success
        /\ ClearScene /\ (\A x \in Visible, ch \in 0 .. 2 : HasAngle(At(x, ch))) =>
            out.success /\ Wanted(hand)

sceneVars == <<det_mode, rdi, mean_abs_rdi, masked_mean_abs_rdi, hand_search, human_mask, bg_level>>

LEMMA SceneUnchanged ==
    ASSUME UNCHANGED sceneVars
    PROVE  HandOfTheRegion' <=> (hand_step' = "done" => SeenAs(hand_out'))
<1>1. /\ det_mode' = det_mode /\ mean_abs_rdi' = mean_abs_rdi /\ rdi' = rdi
      /\ masked_mean_abs_rdi' = masked_mean_abs_rdi /\ hand_search' = hand_search
      /\ human_mask' = human_mask /\ bg_level' = bg_level
  BY DEF sceneVars
<1>2. Visible' = Visible
  BY <1>1 DEF Visible, StandsOut
<1>3. ClearScene' <=> ClearScene
  BY <1>1, <1>2, Zenon DEF ClearScene
<1> DEFINE hand == <<hand_out.detection.doppler_bin, hand_out.detection.range_bin>>
<1>4. Wanted(hand)' <=> Wanted(hand')
  BY <1>1, <1>2, Zenon DEF Wanted
<1>5. HandOfTheRegion' <=>
        (hand_step' = "done" =>
            /\ hand_out'.success =>
                /\ hand' \in Visible'
                /\ hand_out'.detection.value = mean_abs_rdi'[Cell(hand'[1], hand'[2])]
            /\ Visible' = {} => ~hand_out'.success
            /\ ClearScene' /\ (\A x \in Visible', ch \in 0 .. 2 :
                                HasAngle(rdi'[ch * mean_rdi_size + Cell(x[1], x[2])])) =>
                hand_out'.success /\ Wanted(hand)')
  BY Zenon DEF HandOfTheRegion
<1> QED
  BY <1>1, <1>2, <1>3, <1>4, <1>5, Zenon DEF SeenAs

(* In a clear scene every cell that is seen is suggested.                  *)
LEMMA VisibleIsSuggested ==
    ASSUME RegionsInImage, ClustersInv, ImageInv, hand_step = "peaks", peak_idx = n_peaks,
           ClearScene, NEW detections \in Suggested, NEW x \in Visible
    PROVE  \E d \in DOMAIN detections :
                detections[d].doppler_bin = x[1] /\ detections[d].range_bin = x[2]
<1> DEFINE heads == {h \in 1 .. n_peaks : clusters[h] # <<>>}
           At(h, col) == masked_mean_abs_rdi[Cell(clusters[h][1], col)]
           Strongest(h) == {col \in ColsOf(hand_search) :
                              \A other \in ColsOf(hand_search) : At(h, other) <= At(h, col)}
<1>1. PICK bins \in [heads -> ColsOf(hand_search)] :
        /\ \A h \in heads : bins[h] \in Strongest(h)
        /\ detections = [h \in {g \in heads : StandsOut(At(g, bins[g]))} |->
            [doppler_bin |-> clusters[h][1], range_bin |-> bins[h], value |-> At(h, bins[h])]]
  BY Zenon DEF Suggested
<1>2. PICK h \in heads : clusters[h][1] = x[1]
  BY FastStartsCluster
<1>3. x[1] \in Rows /\ x[2] \in ColsOf(hand_search) /\ x = <<x[1], x[2]>>
  BY DEF Visible, RegionsInImage
<1>4. bins[h] \in ColsOf(hand_search) /\ At(h, x[2]) <= At(h, bins[h])
  BY <1>1, <1>2, <1>3
<1>5. StandsOut(At(h, x[2]))
  BY <1>2, <1>3, CellsThatStandOut
<1>6. StandsOut(At(h, bins[h]))
  <2>1. At(h, x[2]) \in Int /\ At(h, bins[h]) \in Int
    BY <1>2, <1>3, <1>4, CellsThatStandOut
  <2>2. threshold * bg_level \in Int
    <3>1. threshold \in Nat /\ bg_level \in Nat
      BY HandAssumption DEF HandAssumption, ImageInv
    <3> QED
      BY <3>1, SMT
  <2>3. 2 * At(h, x[2]) > threshold * bg_level
    BY <1>5 DEF StandsOut
  <2> HIDE DEF At
  <2>4. 2 * At(h, bins[h]) > threshold * bg_level
    BY <1>4, <2>1, <2>2, <2>3, SMT
  <2> QED
    BY <2>4 DEF StandsOut
<1>7. <<x[1], bins[h]>> \in Visible
  BY <1>2, <1>3, <1>4, <1>6, CellsThatStandOut
<1>8. bins[h] = x[2]
  <2>1. \A y, z \in Visible : y[1] = z[1] => y = z
    BY OneCellEach
  <2>2. <<x[1], bins[h]>> = x
    BY <1>7, <2>1
  <2> QED
    BY <2>2
<1>9. h \in DOMAIN detections /\ detections[h].doppler_bin = x[1] /\ detections[h].range_bin = x[2]
  BY <1>1, <1>2, <1>6, <1>8
<1> QED
  BY <1>9

(* The best of what is suggested in a clear scene is what is wanted.       *)
LEMMA BestIsWanted ==
    ASSUME RegionsInImage, ClustersInv, ImageInv, hand_step = "peaks", peak_idx = n_peaks,
           ClearScene, NEW detections \in Suggested, NEW c \in DOMAIN detections,
           \A d \in DOMAIN detections :
                \/ Rank(detections[c]) < Rank(detections[d])
                \/ Rank(detections[c]) = Rank(detections[d]) /\ c <= d
    PROVE  Wanted(<<detections[c].doppler_bin, detections[c].range_bin>>)
<1> DEFINE x == <<detections[c].doppler_bin, detections[c].range_bin>>
<1> SUFFICES ASSUME NEW y \in Visible
             PROVE  IF det_mode = "closest" THEN x[2] <= y[2]
                    ELSE Size(y[1] - mid) <= Size(x[1] - mid)
  BY Zenon DEF Wanted
<1>1. PICK d \in DOMAIN detections :
        detections[d].doppler_bin = y[1] /\ detections[d].range_bin = y[2]
  BY VisibleIsSuggested
<1>2. \A z \in Visible : z[1] \in Int /\ z[2] \in Int
  <2>1. \A z \in Visible : z[1] \in Rows /\ z[2] \in Cols
    BY DEF Visible, RegionsInImage
  <2> QED
    BY <2>1, Dimensions DEF Rows, Cols, Indices
<1>3. x \in Visible
  BY SuggestedIsVisible
<1>4. mid \in Int
  BY Dimensions
<1>5. x[1] \in Int /\ x[2] \in Int /\ y[1] \in Int /\ y[2] \in Int
  BY <1>2, <1>3
<1>6. Rank(detections[c]) = IF det_mode = "closest" THEN x[2] ELSE -Size(x[1] - mid)
  BY DEF Rank
<1>7. Rank(detections[d]) = IF det_mode = "closest" THEN y[2] ELSE -Size(y[1] - mid)
  BY <1>1 DEF Rank
<1>8. \/ Rank(detections[c]) < Rank(detections[d])
      \/ Rank(detections[c]) = Rank(detections[d])
  BY <1>1
<1>9. Size(x[1] - mid) \in Int /\ Size(y[1] - mid) \in Int
  BY <1>4, <1>5 DEF Size
<1> HIDE DEF x
<1> QED
  BY <1>5, <1>6, <1>7, <1>8, <1>9

(* detect_hand and the end of algo.                                        *)
LEMMA DetectedIsHand ==
    ASSUME RegionsInImage, ClustersInv, ImageInv, DetectHand
    PROVE  HandOfTheRegion'
<1> DEFINE Read(x, ch) == rdi[ch * mean_rdi_size + Cell(x[1], x[2])]
<1>1. /\ hand_step = "peaks" /\ peak_idx = n_peaks
      /\ UNCHANGED sceneVars
  BY DEF DetectHand, arrays, limits, detected, sceneVars
<1>2. PICK detections \in Suggested :
        \/ /\ DOMAIN detections = {}
           /\ hand_out' = [hand_out EXCEPT !.success = FALSE]
        \/ \E c \in Best(detections) :
            LET found  == detections[c]
                At(ch) == rdi[ch * mean_rdi_size + Cell(found.doppler_bin, found.range_bin)]
            IN  hand_out' =
                  IF \E ch \in 0 .. 2 : ~HasAngle(At(ch))
                  THEN [hand_out EXCEPT !.success = FALSE]
                  ELSE [success |-> TRUE, human_position |-> position_current,
                        detection |-> found,
                        azimuth   |-> PhaseMonopulse(Angle(At(2)), Angle(At(0))),
                        elevation |-> PhaseMonopulse(Angle(At(2)), Angle(At(1))),
                        bg_level  |-> bg_level,
                        lower_limit |-> lower_limit, upper_limit |-> upper_limit]
  BY Zenon DEF DetectHand
<1>3. [hand_out EXCEPT !.success = FALSE].success = FALSE
  BY DEF ImageInv
<1>4. CASE DOMAIN detections = {} /\ hand_out' = [hand_out EXCEPT !.success = FALSE]
  <2>1. hand_out'.success = FALSE
    BY <1>3, <1>4
  <2>2. ~ClearScene
    <3> SUFFICES ASSUME ClearScene PROVE FALSE
      OBVIOUS
    <3>1. Visible # {}
      BY Zenon DEF ClearScene
    <3> QED
      BY <1>1, <1>4, <3>1, VisibleIsSuggested
  <2> QED
    BY <1>1, <2>1, <2>2, SceneUnchanged, Zenon DEF SeenAs
<1>5. CASE \E c \in Best(detections) :
            LET found  == detections[c]
                At(ch) == rdi[ch * mean_rdi_size + Cell(found.doppler_bin, found.range_bin)]
            IN  hand_out' =
                  IF \E ch \in 0 .. 2 : ~HasAngle(At(ch))
                  THEN [hand_out EXCEPT !.success = FALSE]
                  ELSE [success |-> TRUE, human_position |-> position_current,
                        detection |-> found,
                        azimuth   |-> PhaseMonopulse(Angle(At(2)), Angle(At(0))),
                        elevation |-> PhaseMonopulse(Angle(At(2)), Angle(At(1))),
                        bg_level  |-> bg_level,
                        lower_limit |-> lower_limit, upper_limit |-> upper_limit]
  <2>1. PICK c \in Best(detections) :
          \/ /\ \E ch \in 0 .. 2 :
                  ~HasAngle(Read(<<detections[c].doppler_bin, detections[c].range_bin>>, ch))
             /\ hand_out'.success = FALSE
          \/ /\ \A ch \in 0 .. 2 :
                  HasAngle(Read(<<detections[c].doppler_bin, detections[c].range_bin>>, ch))
             /\ hand_out'.success = TRUE
             /\ hand_out'.detection = detections[c]
    BY <1>3, <1>5
  <2> DEFINE x == <<detections[c].doppler_bin, detections[c].range_bin>>
  <2>2. c \in DOMAIN detections /\ \A d \in DOMAIN detections :
            \/ Rank(detections[c]) < Rank(detections[d])
            \/ Rank(detections[c]) = Rank(detections[d]) /\ c <= d
    BY DEF Best
  <2>3. x \in Visible /\ detections[c].value = mean_abs_rdi[Cell(x[1], x[2])]
    BY <1>1, <2>2, SuggestedIsVisible
  <2>4. ASSUME ClearScene PROVE Wanted(x)
    BY <1>1, <2>2, <2>3, <2>4, BestIsWanted
  <2>5. SeenAs(hand_out')
    <3>1. CASE (\E ch \in 0 .. 2 : ~HasAngle(Read(x, ch))) /\ hand_out'.success = FALSE
      <4>1. ~(\A y \in Visible, ch \in 0 .. 2 : HasAngle(Read(y, ch)))
        BY <2>3, <3>1, Zenon
      <4> QED
        BY <3>1, <4>1, Zenon DEF SeenAs
    <3>2. CASE hand_out'.success = TRUE /\ hand_out'.detection = detections[c]
      <4>1. <<hand_out'.detection.doppler_bin, hand_out'.detection.range_bin>> = x
        BY <3>2
      <4>2. hand_out'.detection.value = mean_abs_rdi[Cell(x[1], x[2])]
        BY <2>3, <3>2
      <4> HIDE DEF x
      <4>3. Visible # {} /\ hand_out'.success
        BY <2>3, <3>2
      <4> QED
        BY <2>3, <2>4, <4>1, <4>2, <4>3, Zenon DEF SeenAs
    <3> QED
      BY <2>1, <3>1, <3>2, Zenon
  <2> QED
    BY <1>1, <2>5, SceneUnchanged
<1> QED
  BY <1>2, <1>4, <1>5

(* What algo reports is a cell of this frame that stands out of the region *)
(* between the nearest bin and the person; nothing to be seen, nothing     *)
(* reported; and in a clear scene it is the hand that the mode asks for,   *)
(* however get_background_level, find_peaks and cluster_peaks met it.      *)
THEOREM ReportedIsHandOfRegion == HandSpec => []HandOfTheRegion
<1>1. HandInit => HandOfTheRegion
  BY DEF HandInit, HandOfTheRegion
<1>2. RegionsInv /\ ClustersInv /\ ImageInv /\ HandOfTheRegion /\ [HandNext]_handVars
        => HandOfTheRegion'
  <2> SUFFICES ASSUME RegionsInv, ClustersInv, ImageInv, HandOfTheRegion, [HandNext]_handVars
               PROVE  HandOfTheRegion'
    OBVIOUS
  <2>1. CASE BuildComplexRdi
    BY <2>1 DEF BuildComplexRdi, HandOfTheRegion
  <2>2. CASE EstimateHuman
    BY <2>2 DEF EstimateHuman, HandOfTheRegion
  <2>3. CASE GetHandRoi
    BY <2>3 DEF GetHandRoi, HandOfTheRegion
  <2>4. CASE MaskHandRoi
    BY <2>4 DEF MaskHandRoi, HandOfTheRegion
  <2>5. CASE FindPeaks
    BY <2>5 DEF FindPeaks, HandOfTheRegion
  <2>6. CASE ClusterPeak
    BY <2>6 DEF ClusterPeak, HandOfTheRegion
  <2>7. CASE DetectHand
    BY <2>7, DetectedIsHand DEF RegionsInv
  <2>8. CASE Return
    BY <2>8 DEF Return, HandOfTheRegion
  <2>9. CASE UNCHANGED handVars
    <3>1. hand_step' = hand_step /\ hand_out' = hand_out /\ UNCHANGED sceneVars
      BY <2>9 DEF handVars, arrays, limits, detected, sceneVars
    <3> QED
      BY <3>1, SceneUnchanged, Zenon DEF HandOfTheRegion, SeenAs
  <2> QED
    BY <2>1, <2>2, <2>3, <2>4, <2>5, <2>6, <2>7, <2>8, <2>9 DEF HandNext
<1> QED
  BY <1>1, <1>2, RegionsInductive, ClustersInductive, ImageInductive, PTL DEF HandSpec
=============================================================================
