------------------------------ MODULE SlimAlgo ------------------------------
(***************************************************************************)
(* slim_algo, which processing_task runs on every radar frame, and         *)
(* super_slim_algo, which shares its work arrays and which nobody calls    *)
(* (proj_cm55/source/radar/preprocess/src/extractions.c, radar.c).         *)
(*                                                                         *)
(* The transforms, the magnitude and the maximum of an array are CMSIS's   *)
(* and external.  A sample is a Gaussian integer <<re, im>>, a magnitude   *)
(* is |re| + |im|, a phase is in quarters of a turn, and what stands in    *)
(* front of the sensor is a scene: the range images are those of its       *)
(* targets, which turn by whole quarters from chirp to chirp.  asin, the   *)
(* constant corrections and the windows' weights change no order and are   *)
(* left out.                                                               *)
(***************************************************************************)
EXTENDS Preprocess

CONSTANTS
    f_cfg,           \* the dimensions of a frame
    min_range_bin,   \* 3 in the code; closer bins are ignored
    FilterFloor,     \* the 1e-4 of filter_range_profile, in the units of
                     \* Smoothed for one chirp
    Scenes,          \* what may stand in front of the sensor
    Algorithms,      \* which of the two is called
    MaxScenes        \* bound: frames

Channels  == Indices(f_cfg.n_channels)
Chirps    == Indices(f_cfg.n_chirps)
RangeBins == Indices(f_cfg.n_range_bins)

(* What stands in front of the sensor: the bin of its distance, how much   *)
(* of the echo it returns, and by how many quarters it turns in a chirp.   *)
Target == [bin : RangeBins, size : Nat \ {0}, velocity : Int]

(* The scenes have at most one target in a bin.  With fewer than 16 chirps *)
(* the code would weight them with a window that it never filled.          *)
ASSUME SlimAssumption ==
    /\ f_cfg \in FrameConfig /\ f_cfg.n_channels = 3
    /\ f_cfg.n_chirps >= 16 /\ f_cfg.n_chirps % 4 = 0
    /\ f_cfg.n_samples = 2 * f_cfg.n_range_bins
    /\ f_cfg.n_channels * f_cfg.n_chirps * f_cfg.n_samples < 65536
    /\ min_range_bin \in 1 .. f_cfg.n_range_bins - 3
    /\ FilterFloor \in Nat \ {0}
    /\ Scenes \subseteq [targets : SUBSET Target, direction : [Channels -> Int],
                         silent : SUBSET Channels]
    /\ \A s \in Scenes : \A t, u \in s.targets : t.bin = u.bin => t = u
    /\ Algorithms \subseteq {"slim", "super_slim"}
    /\ MaxScenes \in Nat

VARIABLES
    algorithm,        \* what this client calls
    slim_step,        \* where it is
    scene,            \* what the frame shows
    scenes,           \* history: frames so far
    x_range, x_range_keep, range_profile, doppler_profile, x_doppler,
    idx_peak_range, val_peak_range,
    slim_res,         \* res of processing_task, on its stack
    model_in          \* the features handed to the model

slimArrays == <<x_range, x_range_keep, range_profile, doppler_profile, x_doppler>>
peakVars   == <<idx_peak_range, val_peak_range>>
slimVars   == <<algorithm, slim_step, scene, scenes, slimArrays, peakVars,
                slim_res, model_in>>

len_img == f_cfg.n_chirps * f_cfg.n_range_bins
len_hfr == f_cfg.n_channels * len_img
len_cch == f_cfg.n_channels * f_cfg.n_chirps

-----------------------------------------------------------------------------
(* The steps of the algorithms.                                            *)

(* A frame of a scene after the range transform: every target is in its    *)
(* bin, turns by its velocity from chirp to chirp and reaches the antennas *)
(* with the phases of its direction; a silent antenna receives nothing.    *)
Echo(s, ch, chirp, bin) ==
    LET there == {t \in s.targets : t.bin = bin}
    IN  IF there = {} \/ ch \in s.silent THEN Zero
        ELSE LET t == CHOOSE t \in there : TRUE
             IN  Scale(t.size, Quarter(t.velocity * chirp + s.direction[ch]))

(* build_complex_range_image: channel by channel, each to its offset.  The *)
(* transform leaves no imaginary part in the first bin.                    *)
RangeImage(s) ==
    [p \in Indices(len_hfr) |->
        LET bin == p % f_cfg.n_range_bins
            x   == Echo(s, p \div len_img, (p % len_img) \div f_cfg.n_range_bins, bin)
        IN  IF bin = 0 THEN <<x[1], 0>> ELSE x]

(* remove_mean_3d_cf64 with axis 1.                                        *)
MeanRemoved(x) ==
    LET lines  == MeanLines(1, f_cfg.n_channels, f_cfg.n_chirps, f_cfg.n_range_bins)
        totals == [l \in lines |-> Total(x, l)]
    IN  [p \in DOMAIN x |-> Plus(Scale(f_cfg.n_chirps, x[p]),
                                 Scale(-1, totals[CHOOSE l \in lines : p \in l]))]

(* _get_range_profile leaves the first chirp out, the other one does not;  *)
(* what is behind the last bin stays as it is or is filled with zeros.     *)
RangeProfile(x, firstChirp, behind) ==
    LET mean == MeanOverChannels([p \in DOMAIN x |-> Magnitude(x[p])], f_cfg)
    IN  [i \in RangeBins |->
            IF i + min_range_bin \in RangeBins
            THEN SumOf([c \in firstChirp .. f_cfg.n_chirps - 1 |->
                            mean[c * f_cfg.n_range_bins + i + min_range_bin]])
            ELSE behind[i]]

RangeProfileSuperSlim(x) == RangeProfile(x, 0, [i \in RangeBins |-> 0])

(* The weights of filter_range_profile, in ten thousandths.                *)
Weights == <<1, 44, 540, 2420, 3989, 2420, 540, 44, 1>>

Smoothed(profile, len, i) ==
    SumOf([k \in {j \in 0 .. 8 : i + 4 - j \in Indices(len)} |->
                Weights[k + 1] * profile[i + 4 - k]])

(* Mutant: only a tenth of the peak is asked for, and nothing absolute.    *)
FilterRangeProfileAnyNoise(profile, len, peak_range, least) ==
    LET floor == 1000 * profile[peak_range]
        Kept(i)   == LET v == Smoothed(profile, len, i) IN IF v < floor THEN 0 ELSE v
        maxima    == {i \in 1 .. len - 2 : Kept(i - 1) < Kept(i) /\ Kept(i + 1) < Kept(i)}
    IN  IF maxima = {} THEN peak_range ELSE Min(maxima)

(* filter_range_profile: the first maximum of the smoothed profile that    *)
(* reaches a tenth of the peak and an absolute floor, or the peak.         *)
FilterRangeProfile(profile, len, peak_range, least) ==
    LET floor == Max({1000 * profile[peak_range], least})
        Kept(i)   == LET v == Smoothed(profile, len, i) IN IF v < floor THEN 0 ELSE v
        maxima    == {i \in 1 .. len - 2 : Kept(i - 1) < Kept(i) /\ Kept(i + 1) < Kept(i)}
    IN  IF maxima = {} THEN peak_range ELSE Min(maxima)

(* The Doppler transform of one channel's chirps, exact where a target of  *)
(* a scene can have its line.  In the bins between, the window leaves less *)
(* of a line than the line itself.                                         *)
quarter == f_cfg.n_chirps \div 4
DopplerFft(x) ==
    [k \in Chirps |->
        IF k % quarter = 0
        THEN Total([j \in Chirps |-> Times(x[j], Quarter(-(j * (k \div quarter))))], Chirps)
        ELSE Zero]

(* _get_single_range_bin_doppler.                                          *)
SingleRangeBinDoppler(x, range_bin) ==
    LET slice == Slice3dCol(x, range_bin, f_cfg.n_channels, f_cfg.n_chirps, f_cfg.n_range_bins)
        Of(ch) == FftShift(DopplerFft([j \in Chirps |-> slice[ch * f_cfg.n_chirps + j]]),
                           f_cfg.n_chirps)
    IN  [i \in Indices(len_cch) |-> Of(i \div f_cfg.n_chirps)[i % f_cfg.n_chirps]]

(* _get_doppler_profile.                                                   *)
DopplerProfile(x) ==
    [k \in Chirps |-> SumOf([ch \in Channels |-> Magnitude(x[ch * f_cfg.n_chirps + k])])]

-----------------------------------------------------------------------------
(* The caller.                                                             *)

Garbage == -7   \* what malloc or the stack happens to hold

NoScene    == [targets |-> {}, direction |-> [ch \in Channels |-> 0], silent |-> {}]
NoFeatures == [range_bin |-> Garbage, doppler |-> Garbage, azimuth |-> Garbage,
               elevation |-> Garbage, value |-> Garbage]

SlimInit ==
    /\ algorithm \in Algorithms
    /\ slim_step = "start"
    /\ scene = NoScene /\ scenes = 0
    /\ x_range = <<>> /\ x_range_keep = <<>> /\ range_profile = <<>>
    /\ doppler_profile = <<>> /\ x_doppler = <<>>
    /\ idx_peak_range = 0 /\ val_peak_range = 0
    /\ slim_res = [success |-> FALSE, detection |-> NoFeatures]
    /\ model_in = NoFeatures

(* new_preproc_work_arrays.  A size without a window table aborts, for the *)
(* chirps only from 16 on.                                                 *)
NewWorkArrays ==
    /\ slim_step = "start"
    /\ IF ~HasWindow(f_cfg.n_samples) \/ (f_cfg.n_chirps >= 16 /\ ~HasWindow(f_cfg.n_chirps))
       THEN slim_step' = "aborted" /\ UNCHANGED slimArrays
       ELSE /\ slim_step' = "waiting"
            /\ x_range' = [p \in Indices(len_hfr) |-> <<Garbage, Garbage>>]
            /\ x_range_keep' = [p \in Indices(len_hfr) |-> <<Garbage, Garbage>>]
            /\ range_profile' = [i \in RangeBins |-> Garbage]
            /\ doppler_profile' = [i \in Chirps |-> Garbage]
            /\ x_doppler' = [i \in Indices(len_cch) |-> <<Garbage, Garbage>>]
    /\ UNCHANGED <<algorithm, scene, scenes, peakVars, slim_res, model_in>>

BuildRangeImage ==
    /\ slim_step \in {"waiting", "fed"} /\ scenes < MaxScenes
    /\ \E s \in Scenes :
        /\ scene' = s
        /\ x_range' = RangeImage(s)
    /\ x_range_keep' = IF algorithm = "super_slim" THEN x_range' ELSE x_range_keep
    /\ scenes' = scenes + 1
    /\ slim_step' = "image"
    /\ UNCHANGED <<algorithm, range_profile, doppler_profile, x_doppler, peakVars,
                   slim_res, model_in>>

RemoveMean ==
    /\ slim_step = "image"
    /\ x_range' = MeanRemoved(x_range)
    /\ slim_step' = "moving"
    /\ UNCHANGED <<algorithm, scene, scenes, x_range_keep, range_profile, doppler_profile,
                   x_doppler, peakVars, slim_res, model_in>>

GetRangeProfile ==
    /\ slim_step = "moving"
    /\ range_profile' = IF algorithm = "slim" THEN RangeProfile(x_range, 1, range_profile)
                        ELSE RangeProfileSuperSlim(x_range)
    /\ slim_step' = "profile"
    /\ UNCHANGED <<algorithm, scene, scenes, x_range, x_range_keep, doppler_profile,
                   x_doppler, peakVars, slim_res, model_in>>

(* A value of the profile is a sum over so many chirps.                    *)
ChirpsCounted == IF algorithm = "slim" THEN f_cfg.n_chirps - 1 ELSE f_cfg.n_chirps

FindRange ==
    /\ slim_step = "profile"
    /\ LET len == f_cfg.n_range_bins - min_range_bin
       IN  \E peak \in ArgMaxima(range_profile, len) :
            /\ val_peak_range' = range_profile[peak]
            /\ idx_peak_range' = min_range_bin + FilterRangeProfile(range_profile, len, peak,
                                                                   FilterFloor * ChirpsCounted)
    /\ slim_step' = "range"
    /\ UNCHANGED <<algorithm, scene, scenes, slimArrays, slim_res, model_in>>

GetDoppler ==
    /\ slim_step = "range" /\ algorithm = "slim"
    /\ x_doppler' = SingleRangeBinDoppler(x_range, idx_peak_range)
    /\ doppler_profile' = DopplerProfile(x_doppler')
    /\ slim_step' = "doppler"
    /\ UNCHANGED <<algorithm, scene, scenes, x_range, x_range_keep, range_profile,
                   peakVars, slim_res, model_in>>

(* slim_algo returns early if a channel has no phase.  res is a local of   *)
(* the loop's body that nobody initialises: what it holds then is what the *)
(* last turn left there, or anything.                                      *)
Failed == [success : {FALSE}, detection : {slim_res.detection, NoFeatures}]

Detect ==
    /\ slim_step = "doppler"
    /\ \E k \in ArgMaxima(doppler_profile, f_cfg.n_chirps) :
        LET At(ch)    == x_doppler[ch * f_cfg.n_chirps + k]
            phase(ch) == Angle(At(ch))
        IN  slim_res' \in
              IF \A ch \in Channels : HasAngle(At(ch))
              THEN {[success |-> TRUE,
                    detection |-> [range_bin |-> idx_peak_range, doppler |-> k,
                                   azimuth   |-> PhaseMonopulse(phase(2), phase(0)),
                                   elevation |-> PhaseMonopulse(phase(2), phase(1)),
                                   value     |-> doppler_profile[k]]]}
              ELSE Failed
    /\ slim_step' = "result"
    /\ UNCHANGED <<algorithm, scene, scenes, slimArrays, peakVars, model_in>>

(* The rest of super_slim_algo: the phases of every chirp of the image as  *)
(* it was before the mean was removed; doppler is a mean over channels and *)
(* the angles are means over chirps.                                       *)
DetectSuperSlim ==
    /\ slim_step = "range" /\ algorithm = "super_slim"
    /\ LET At(ch, c)    == x_range_keep[ch * len_img + c * f_cfg.n_range_bins + idx_peak_range]
           phase(ch, c) == Angle(At(ch, c))
       IN  slim_res' \in
             IF \A ch \in Channels, c \in Chirps : HasAngle(At(ch, c))
             THEN {[success |-> TRUE,
                   detection |->
                    [range_bin |-> idx_peak_range,
                     doppler   |-> SumOf([ch \in Channels |->
                                    PhaseDifference(phase(ch, 1), phase(ch, 0), 4)]),
                     azimuth   |-> SumOf([c \in Chirps |->
                                    PhaseMonopulse(phase(2, c), phase(0, c))]),
                     elevation |-> SumOf([c \in Chirps |->
                                    PhaseMonopulse(phase(2, c), phase(1, c))]),
                     value     |-> val_peak_range]]}
             ELSE Failed
    /\ slim_step' = "result"
    /\ UNCHANGED <<algorithm, scene, scenes, slimArrays, peakVars, model_in>>

(* processing_task takes the features without asking for success.          *)
FeedModel ==
    /\ slim_step = "result"
    /\ model_in' = slim_res.detection
    /\ slim_step' = "fed"
    /\ UNCHANGED <<algorithm, scene, scenes, slimArrays, peakVars, slim_res>>

(* free_preproc_work_arrays; the copy of super_slim_algo is not freed.     *)
FreeWorkArrays ==
    /\ slim_step \in {"waiting", "fed"}
    /\ slim_step' = "freed"
    /\ x_range' = <<>> /\ range_profile' = <<>> /\ doppler_profile' = <<>> /\ x_doppler' = <<>>
    /\ UNCHANGED <<algorithm, scene, scenes, x_range_keep, peakVars, slim_res, model_in>>

SlimNext ==
    \/ NewWorkArrays \/ BuildRangeImage \/ RemoveMean \/ GetRangeProfile \/ FindRange
    \/ GetDoppler \/ Detect \/ DetectSuperSlim \/ FeedModel \/ FreeWorkArrays

SlimSpec == SlimInit /\ [][SlimNext]_slimVars
-----------------------------------------------------------------------------
(* What the scene says of the hand.                                        *)

Moving(s) == {t \in s.targets : t.velocity % 4 # 0 /\ t.bin >= min_range_bin}
Nearest(s) == CHOOSE t \in Moving(s) : \A u \in Moving(s) : t.bin <= u.bin

(* Targets that smoothing leaves apart: three bins between them, and none  *)
(* hidden by one twice its size; of several, none in a border bin, where   *)
(* no maximum is looked for.                                               *)
Apart(s) ==
    /\ \A t, u \in Moving(s) : t # u => Size(t.bin - u.bin) >= 3 /\ t.size <= 2 * u.size
    /\ Cardinality(Moving(s)) > 1
        => \A t \in Moving(s) : t.bin \in min_range_bin + 1 .. f_cfg.n_range_bins - 2

(* Targets that reach the floor of filter_range_profile, and targets that  *)
(* do not, however many of them are smoothed into one bin.                 *)
Loud(t)  == 3989 * len_cch * t.size >= FilterFloor
Faint(t) == 9999 * len_cch * t.size < FilterFloor

Strongest(s) == {t \in Moving(s) : \A u \in Moving(s) : u.size <= t.size}

(* The difference of two quarters, from above -half up to half a turn.     *)
IsWrapOf(d, n) == d % 4 = n % 4 /\ Size(d) <= 2

(* The mean of such differences.  At half a turn they come with either     *)
(* sign and cancel: nothing is said then.                                  *)
IsMeanOf(sum, many, n) ==
    n % 4 # 2 => \E d \in -1 .. 1 : sum = many * d /\ IsWrapOf(d, n)

(* The features of one target of a scene, as each algorithm gives them.    *)
AreFeaturesOf(hand, s, f) ==
    LET q == s.direction
    IN  /\ f.range_bin = hand.bin
        /\ algorithm = "slim" =>
            /\ f.doppler = quarter * ((hand.velocity + 2) % 4)
            /\ IsWrapOf(f.azimuth, q[0] - q[2])
            /\ IsWrapOf(f.elevation, q[1] - q[2])
            /\ f.value = len_cch * f_cfg.n_chirps * hand.size
        /\ algorithm = "super_slim" =>
            /\ IsMeanOf(f.doppler, 3, -hand.velocity)
            /\ IsMeanOf(f.azimuth, f_cfg.n_chirps, q[0] - q[2])
            /\ IsMeanOf(f.elevation, f_cfg.n_chirps, q[1] - q[2])

(* "Build range images, suppress static targets": what the model is fed is *)
(* the distance, the speed and the direction of the nearest target that    *)
(* moves, whatever stands still, is closer than min_range_bin or was there *)
(* in an earlier frame; of echoes that are all below the floor it is the   *)
(* strongest, however close to each other they are.  When nothing moves    *)
(* slim_algo reports no success, and super_slim_algo at most something     *)
(* without speed.                                                          *)
FeaturesOfNearestHand ==
    slim_step = "fed" =>
        /\ Moving(scene) = {} /\ slim_res.success =>
            algorithm = "super_slim" /\ model_in.doppler = 0
        /\ Moving(scene) # {} /\ scene.silent = {} =>
            /\ Apart(scene) /\ Loud(Nearest(scene)) =>
                slim_res.success /\ AreFeaturesOf(Nearest(scene), scene, model_in)
            /\ (\A t \in Moving(scene) : Faint(t)) =>
                slim_res.success /\ \E t \in Strongest(scene) : AreFeaturesOf(t, scene, model_in)
=============================================================================
