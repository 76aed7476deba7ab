---------------------------- MODULE CleaningPlugins -----------------------------
(***************************************************************************)
(* The cleaning plugins (plugins/cleaning and the ones beside them in      *)
(* plugins/user): what each declares, reads and does with a sample.  All   *)
(* of them leave out a sample whose file is missing, but the one that      *)
(* compares the checksums of the database.                                 *)
(***************************************************************************)
EXTENDS PluginReactions

Cleaner(name, action, declares, reads) ==
  [Plugin(name, declares, reads) EXCEPT
     !.category = "cleaning", !.action = action, !.plain = "skip", !.empty = "skip",
     !.missing = "skip", !.refused = "skip", !.unwritten = "skip", !.deaf = "skip"]

(* A score of what could be decoded, and a deletion suggested by it.       *)
Judge(name, declares, reads) == Cleaner(name, "delete", declares, reads)

(* Undecodable bytes are read as latin-1; the cleaned text is written      *)
(* outside of any try.                                                     *)
Rewrite(name, declares, reads) ==
  [Cleaner(name, "repair", declares, reads) EXCEPT
     !.broken = "either", !.other = "either", !.unwritten = "raise", !.deaf = "make"]

(* Loading and writing in one try that gives up the sample.                *)
Listen(name, declares, reads) == Cleaner(name, "repair", declares, reads)

(* A table that cannot be read is left out, writing one is outside of it.  *)
Tabulate(name, declares, reads) ==
  [Cleaner(name, "repair", declares, reads) EXCEPT !.unwritten = "raise"]

DuplicateDetector ==
  [Judge("duplicate_detector", NoParameters,
    NoParameters) EXCEPT
     !.opening = <<"sha">>]
ImageNearDuplicateDetectorParameters ==
  [hamming_threshold |-> Number(1, 6, 64),
   min_confidence |-> Number(0, 75, 100), hash_size |-> Number(4, 8, 16)]
ImageNearDuplicateDetector ==
  [Judge("image_near_duplicate_detector",
    ImageNearDuplicateDetectorParameters,
    [hamming_threshold |-> Plain(6), min_confidence |-> Plain(75),
     hash_size |-> Clamped(4, 8, 16)]) EXCEPT
     !.opening = <<"load", "look">>]
ImageDeblurParameters ==
  [blur_threshold |-> Number(1, 100, 1000),
   min_confidence |-> Number(0, 2, 10), laplacian_ksize |-> Number(1, 3, 7)]
ImageDeblur ==
  Judge("image_deblur", ImageDeblurParameters,
  [blur_threshold |-> Plain(100), min_confidence |-> Plain(2),
   laplacian_ksize |-> OddClamped(1, 3, 7)])
ImageDenoiseParameters ==
  [noise_threshold |-> Number(0, 12, 255),
   min_confidence |-> Number(0, 2, 10),
   median_kernel_size |-> Number(3, 3, 9)]
ImageDenoise ==
  Judge("image_denoise", ImageDenoiseParameters,
  [noise_threshold |-> Plain(12), min_confidence |-> Plain(2),
   median_kernel_size |-> OddClamped(3, 3, 9)])
ImageResolutionParameters ==
  [min_width |-> Number(1, 640, 10000), min_height |-> Number(1, 480, 10000),
   min_file_kb |-> Number(0, 20, 102400)]
ImageResolution ==
  [Judge("desktop_image_resolution_cleaner", ImageResolutionParameters,
    [min_width |-> AtLeast(1, 640), min_height |-> AtLeast(1, 480),
     min_file_kb |-> AtLeast(0, 20)]) EXCEPT
     !.broken = "make", !.empty = "make", !.other = "make", !.deaf = "make"]
TextDeduplicateParameters ==
  [deduplicate_mode |-> Choice("line", {"line", "token"}),
   apply |-> Switch(TRUE)]
TextDeduplicate ==
  Rewrite("text_deduplicate", TextDeduplicateParameters,
  [deduplicate_mode |-> Plain("line"), apply |-> Plain(TRUE)])
TextStopwordsParameters ==
  [stop_words |-> Text(""), apply |-> Switch(TRUE)]
TextStopwords ==
  Rewrite("text_stopwords", TextStopwordsParameters,
  [apply |-> Plain(TRUE), stop_words |-> Plain("")])
TextStemmingParameters ==
  [apply |-> Switch(TRUE)]
TextStemming ==
  Rewrite("text_stemming", TextStemmingParameters,
  [apply |-> Plain(TRUE)])
AudioDenoiseParameters ==
  [snr_threshold |-> Number(0, 18, 100),
   noise_reduce_strength |-> Number(1, 10, 30), apply |-> Switch(TRUE)]
AudioDenoise ==
  Listen("audio_denoise", AudioDenoiseParameters,
  [snr_threshold |-> Plain(18), noise_reduce_strength |-> Plain(10),
   apply |-> Plain(TRUE)])
AudioNormalizeParameters ==
  [target_peak |-> Number(10, 95, 100), apply |-> Switch(TRUE)]
AudioNormalize ==
  Listen("audio_normalize", AudioNormalizeParameters,
  [target_peak |-> Plain(95), apply |-> Plain(TRUE)])
AudioTrimSilenceParameters ==
  [top_db |-> Number(10, 30, 80),
   silence_ratio_threshold |-> Number(0, 2, 10), apply |-> Switch(TRUE)]
AudioTrimSilence ==
  [Listen("audio_trim_silence", AudioTrimSilenceParameters,
    [top_db |-> Plain(30), silence_ratio_threshold |-> Plain(2),
     apply |-> Plain(TRUE)]) EXCEPT
     !.broken = "review", !.empty = "review", !.other = "review",
     !.unwritten = "review"]
TabularMissingValuesParameters ==
  [missing_strategy |-> Choice("mean", {"mean", "median", "constant", "drop"}),
   fill_value |-> Free(0), apply |-> Switch(TRUE)]
TabularMissingValues ==
  Tabulate("tabular_missing_values", TabularMissingValuesParameters,
  [missing_strategy |-> Plain("mean"), fill_value |-> Plain(0),
   apply |-> Plain(TRUE)])
TabularOutliersParameters ==
  [outlier_method |-> Choice("iqr", {"iqr", "zscore"}),
   zscore_threshold |-> Number(1, 3, 10), apply |-> Switch(TRUE)]
TabularOutliers ==
  Tabulate("tabular_outliers", TabularOutliersParameters,
  [outlier_method |-> Plain("iqr"), zscore_threshold |-> Plain(3),
   apply |-> Plain(TRUE)])
TabularNormalizeParameters ==
  [normalization |-> Choice("minmax", {"minmax", "zscore"}),
   apply |-> Switch(TRUE)]
TabularNormalize ==
  Tabulate("tabular_normalize", TabularNormalizeParameters,
  [normalization |-> Plain("minmax"), apply |-> Plain(TRUE)])
UserImageDenoiseParameters ==
  [noise_threshold |-> Number(0, 12, 255),
   denoise_strength |-> Number(3, 10, 30), apply |-> Switch(TRUE)]
UserImageDenoise ==
  [Judge("image_denoise", UserImageDenoiseParameters,
    [noise_threshold |-> Plain(12), denoise_strength |-> Clamped(3, 10, 30),
     apply |-> Plain(TRUE)]) EXCEPT
     !.action = "repair", !.unwritten = "claim"]

Cleaners ==
  {DuplicateDetector, ImageNearDuplicateDetector, ImageDeblur, ImageDenoise,
   ImageResolution, TextDeduplicate, TextStopwords, TextStemming,
   AudioDenoise, AudioNormalize, AudioTrimSilence, TabularMissingValues,
   TabularOutliers, TabularNormalize, UserImageDenoise}
================================================================================
