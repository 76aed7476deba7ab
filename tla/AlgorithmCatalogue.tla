--------------------------- MODULE AlgorithmCatalogue ---------------------------
(***************************************************************************)
(* The algorithms every database of the training tool starts with          *)
(* (DEFAULT_ALGORITHMS of backend/seed_data.py, in its order): key,        *)
(* category, modality, the plugin module that runs it and the parameters   *)
(* its form offers.  All of them are python functions called run; the      *)
(* labels, descriptions and contracts shown to the user are left out.      *)
(***************************************************************************)
EXTENDS PluginParameters, FiniteSets

Seed(key, category, modality, plugin, offers) ==
  [key |-> key, category |-> category, modality |-> modality, plugin |-> plugin,
   offers |-> offers]

CleaningDuplicateDetector ==
  Seed("cleaning.duplicate_detector", "cleaning", "multimodal",
  "duplicate_detector", NoParameters)
CleaningImageResolutionFilter ==
  Seed("cleaning.image_resolution_filter", "cleaning", "image",
  "desktop_image_resolution_cleaner",
  [min_width |-> Number(1, 640, 10000), min_height |-> Number(1, 480, 10000),
   min_file_kb |-> Number(0, 20, 102400)])
CleaningImageNearDuplicateDetector ==
  Seed("cleaning.image_near_duplicate_detector", "cleaning", "image",
  "image_near_duplicate_detector",
  [hamming_threshold |-> Free(6), min_confidence |-> Free(75),
   hash_size |-> Free(8)])
CleaningImageDeblur ==
  Seed("cleaning.image_deblur", "cleaning", "image",
  "image_deblur",
  [blur_threshold |-> Number(1, 100, 1000),
   min_confidence |-> Number(0, 2, 10), laplacian_ksize |-> Number(1, 3, 7)])
CleaningImageDenoise ==
  Seed("cleaning.image_denoise", "cleaning", "image",
  "image_denoise",
  [noise_threshold |-> Number(0, 12, 255),
   min_confidence |-> Number(0, 2, 10),
   median_kernel_size |-> Number(3, 3, 9)])
CleaningTextDeduplicate ==
  Seed("cleaning.text_deduplicate", "cleaning", "text",
  "text_deduplicate",
  [deduplicate_mode |-> Choice("line", {"line", "token"})])
CleaningTextStopwords ==
  Seed("cleaning.text_stopwords", "cleaning", "text",
  "text_stopwords",
  [stop_words |-> Text("")])
CleaningTextStemming ==
  Seed("cleaning.text_stemming", "cleaning", "text",
  "text_stemming", NoParameters)
CleaningAudioDenoise ==
  Seed("cleaning.audio_denoise", "cleaning", "audio",
  "audio_denoise",
  [snr_threshold |-> Free(18), noise_reduce_strength |-> Number(1, 10, 30)])
CleaningAudioNormalize ==
  Seed("cleaning.audio_normalize", "cleaning", "audio",
  "audio_normalize",
  [target_peak |-> Number(10, 95, 100)])
CleaningAudioTrimSilence ==
  Seed("cleaning.audio_trim_silence", "cleaning", "audio",
  "audio_trim_silence",
  [top_db |-> Number(10, 30, 80),
   silence_ratio_threshold |-> Number(0, 2, 10)])
CleaningTabularMissingValues ==
  Seed("cleaning.tabular_missing_values", "cleaning", "tabular",
  "tabular_missing_values",
  [missing_strategy |-> Choice("mean", {"mean", "median", "constant", "drop"})])
CleaningTabularOutliers ==
  Seed("cleaning.tabular_outliers", "cleaning", "tabular",
  "tabular_outliers",
  [outlier_method |-> Choice("iqr", {"iqr", "zscore"})])
CleaningTabularNormalize ==
  Seed("cleaning.tabular_normalize", "cleaning", "tabular",
  "tabular_normalize",
  [normalization |-> Choice("minmax", {"minmax", "zscore"})])
GenerationCopyAugmenter ==
  Seed("generation.copy_augmenter", "generation", "multimodal",
  "copy_augmenter", NoParameters)
GenerationImageCrop ==
  Seed("generation.image.crop", "generation", "image",
  "crop_image_augmenter",
  [crop_ratio |-> Free(80),
   crop_mode |-> Choice("random", {"random", "center"})])
GenerationImageGeometricTransform ==
  Seed("generation.image.geometric_transform", "generation", "image",
  "geometric_image_augmenter",
  [rotation_degrees |-> Free(10), scale |-> Free(100),
   translate_x_pct |-> Free(0), translate_y_pct |-> Free(0),
   flip_horizontal |-> Switch(FALSE), flip_vertical |-> Switch(FALSE)])
TrainingDemoClassifier ==
  Seed("training.demo_classifier", "training", "multimodal",
  "demo_classifier",
  [epochs |-> Free(3), learning_rate |-> Free(1)])
TrainingShipClassifier ==
  Seed("training.ship_classifier", "training", "image",
  "ship_classifier",
  [n_estimators |-> Free(50), max_depth |-> Free(8)])
EvaluationSampleCountComparator ==
  Seed("evaluation.sample_count_comparator", "evaluation", "multimodal",
  "sample_count_comparator", NoParameters)
EvaluationMultiAgentSimulation ==
  Seed("evaluation.multi_agent_simulation", "evaluation", "multimodal",
  "multi_agent_simulation",
  [agent_count |-> Free(4)])
GenerationImageStyleTransfer ==
  Seed("generation.image.style_transfer", "generation", "image",
  "style_transfer_image_augmenter",
  [strength |-> Free(7)])
GenerationImageTextureEnhancement ==
  Seed("generation.image.texture_enhancement", "generation", "image",
  "texture_enhancement_image_augmenter",
  [texture_strength |-> Free(5), detail_sigma |-> Free(12),
   detail_gain |-> Free(10)])
GenerationImageLightingDirection ==
  Seed("generation.image.lighting_direction", "generation", "image",
  "lighting_direction_image_augmenter",
  [light_direction |-> Choice("left_to_right", {"left_to_right",
                                                "right_to_left",
       "top_to_bottom", "bottom_to_top"}),
   light_strength |-> Free(5), ambient_level |-> Free(15)])
GenerationImageTemperatureCalibration ==
  Seed("generation.image.temperature_calibration", "generation", "image",
  "temperature_calibration_image_augmenter",
  [stretch_low_pct |-> Free(2), stretch_high_pct |-> Free(98),
   clahe_clip |-> Free(2), clahe_tile |-> Free(8)])
GenerationImageHaloEffect ==
  Seed("generation.image.halo_effect", "generation", "image",
  "halo_effect_image_augmenter",
  [mode |-> Choice("simulate", {"simulate", "remove"}),
   halo_strength |-> Free(5), halo_radius |-> Free(24),
   dehalo_clip |-> Free(7)])
GenerationImageColorSpace ==
  Seed("generation.image.color_space", "generation", "image",
  "color_space_image_augmenter",
  [brightness |-> Free(0), contrast |-> Free(100), saturation |-> Free(100),
   hue |-> Free(0), pca_jitter |-> Free(0)])
GenerationImageClarity ==
  Seed("generation.image.clarity", "generation", "image",
  "clarity_image_augmenter",
  [blur_strength |-> Free(0), blur_kernel |-> Free(5),
   sharpen_strength |-> Free(0), sharpen_amount |-> Free(50)])
GenerationImageOcclusion ==
  Seed("generation.image.occlusion", "generation", "image",
  "occlusion_image_augmenter",
  [occlusion_type |-> Choice("random_erase", {"random_erase", "cutout",
                                              "gridmask"}),
   erase_count |-> Free(1), area_ratio |-> Free(20)])
GenerationImageEnvironmentSimulation ==
  Seed("generation.image.environment_simulation", "generation", "image",
  "environment_simulation_image_augmenter",
  [fog_intensity |-> Free(0), snow_intensity |-> Free(0),
   shadow_intensity |-> Free(0)])
GenerationImageDeformationDistortion ==
  Seed("generation.image.deformation_distortion", "generation", "image",
  "deformation_distortion_image_augmenter",
  [elastic_strength |-> Free(0), elastic_gaussian_kernel |-> Free(10),
   distortion_k1 |-> Free(0), distortion_k2 |-> Free(0)])
GenerationImageImagingSimulation ==
  Seed("generation.image.imaging_simulation", "generation", "image",
  "imaging_simulation_image_augmenter",
  [blur_kernel |-> Free(0), downsample |-> Free(10)])
GenerationImageLinearTransform ==
  Seed("generation.image.linear_transform", "generation", "image",
  "linear_transform_image_augmenter",
  [alpha |-> Number(20, 115, 300), beta |-> Number(-100, 12, 100),
   gamma |-> Number(2, 10, 30)])
GenerationImageChannelShuffle ==
  Seed("generation.image.channel_shuffle", "generation", "image",
  "channel_shuffle_image_augmenter",
  [shuffle |-> Switch(TRUE)])
GenerationImageCrossModalFusion ==
  Seed("generation.image.cross_modal_fusion", "generation", "image",
  "cross_modal_fusion_image_augmenter",
  [clahe_clip |-> Free(2), ir_weight |-> Free(5)])
GenerationImageWganGp ==
  Seed("generation.image.wgan_gp", "generation", "image",
  "wgan_gp_image_augmenter",
  [gradient_penalty |-> Free(100), discriminator_iterations |-> Free(5),
   learning_rate |-> Free(100), enhance_strength |-> Number(3, 10, 20)])
GenerationImageDiffusion ==
  Seed("generation.image.diffusion", "generation", "image",
  "diffusion_image_augmenter",
  [diffusion_steps |-> Free(1000), cfg_guidance_scale |-> Free(75)])
GenerationImageVitMae ==
  Seed("generation.image.vit_mae", "generation", "image",
  "vit_mae_image_augmenter",
  [mask_ratio |-> Free(75), learning_rate |-> Free(100),
   training_steps |-> Free(100), patch_size |-> Free(4)])
GenerationAudioNoiseInjection ==
  Seed("generation.audio.noise_injection", "generation", "audio",
  "noise_injection_audio_augmenter",
  [noise_type |-> Choice("white", {"white", "pink"}),
   noise_intensity |-> Free(1)])
GenerationAudioSpectrumReconstruction ==
  Seed("generation.audio.spectrum_reconstruction", "generation", "audio",
  "spectrum_reconstruction_audio_augmenter",
  [freq_range |-> Text("[0, 4000]")])
GenerationAudioTempoPitch ==
  Seed("generation.audio.tempo_pitch", "generation", "audio",
  "tempo_pitch_audio_augmenter",
  [time_stretch |-> Free(1), pitch_shift_semitones |-> Free(0)])
GenerationAudioEnergyAmplitude ==
  Seed("generation.audio.energy_amplitude", "generation", "audio",
  "energy_amplitude_audio_augmenter",
  [volume_scale |-> Free(100), mute_probability |-> Free(5),
   mute_count |-> Free(1), min_sec |-> Free(5), max_sec |-> Free(20)])
GenerationAudioTimeseriesStructure ==
  Seed("generation.audio.timeseries_structure", "generation", "audio",
  "timeseries_structure_audio_augmenter",
  [operation |-> Choice("mix", {"mix", "shift", "crop", "concat", "reverse"}),
   shift_sec |-> Free(20), crop_ratio |-> Free(90),
   concat_segments |-> Free(2), reverse_probability |-> Free(5)])
GenerationAudioChannelConfig ==
  Seed("generation.audio.channel_config", "generation", "audio",
  "channel_config_audio_augmenter",
  [target_channel |-> Choice("auto", {"auto", "mono", "stereo"}),
   mix_strategy |-> Choice("avg", {"avg", "max", "min"}), dither |-> Free(2),
   swap_probability |-> Free(2)])
GenerationAudioSpecaugment ==
  Seed("generation.audio.specaugment", "generation", "audio",
  "specaugment_audio_augmenter",
  [mel_bins |-> Free(64), n_fft |-> Free(1024), hop |-> Free(256),
   freq_mask_param |-> Free(8), time_mask_param |-> Free(8),
   inversion_iterations |-> Free(16)])
GenerationAudioFilterProcessing ==
  Seed("generation.audio.filter_processing", "generation", "audio",
  "filter_processing_audio_augmenter",
  [filter_type |-> Choice("bandpass", {"bandpass", "lowpass", "highpass",
                                       "bandstop"}),
   low_cutoff_hz |-> Free(300), high_cutoff_hz |-> Free(3000)])
GenerationAudioEnvironmentNoise ==
  Seed("generation.audio.environment_noise", "generation", "audio",
  "environment_noise_injection_audio_augmenter",
  [noise_type |-> Choice("white", {"white", "pink", "brown", "uniform"}),
   target_snr |-> Free(10)])
GenerationAudioSpatialAcoustics ==
  Seed("generation.audio.spatial_acoustics", "generation", "audio",
  "spatial_acoustics_audio_augmenter",
  [effect_type |-> Choice("echo", {"echo", "reverb", "both"}),
   probability |-> Free(8), count |-> Free(3), delay |-> Free(30),
   decay |-> Free(6), tau |-> Free(5)])
GenerationAudioQualityDistortion ==
  Seed("generation.audio.quality_distortion", "generation", "audio",
  "quality_distortion_audio_augmenter",
  [downsample_ratio |-> Free(8), quantize_bits |-> Free(8),
   distortion_drive |-> Free(0)])
GenerationAudioComposite ==
  Seed("generation.audio.composite", "generation", "audio",
  "composite_audio_augmenter",
  [combination_count |-> Free(3), include_specaugment |-> Switch(TRUE),
   include_spatial |-> Switch(TRUE)])
GenerationTextSynonymReplacement ==
  Seed("generation.text.synonym_replacement", "generation", "text",
  "synonym_replacement_text_augmenter",
  [replacement_ratio |-> Free(3)])
GenerationTextBackTranslation ==
  Seed("generation.text.back_translation", "generation", "text",
  "back_translation_text_augmenter",
  [intermediate_language |-> Choice("en", {"en", "ja", "ko"}),
   back_translate_probability |-> Free(1),
   sentence_restructure_strength |-> Free(3)])
GenerationTextVocabularyPhrase ==
  Seed("generation.text.vocabulary_phrase", "generation", "text",
  "vocabulary_phrase_text_augmenter",
  [replacement_ratio |-> Free(3), pos_constraint |-> Text(""),
   phrase_level |-> Switch(TRUE)])
GenerationTextStructureNoise ==
  Seed("generation.text.structure_noise", "generation", "text",
  "structure_noise_text_augmenter",
  [perturbation_strength |-> Free(1)])
GenerationTextContextEmbedding ==
  Seed("generation.text.context_embedding", "generation", "text",
  "context_embedding_text_augmenter",
  [mask_ratio |-> Free(10), cross_lingual_strength |-> Free(0)])
GenerationTextStyleControlled ==
  Seed("generation.text.style_controlled", "generation", "text",
  "style_controlled_text_augmenter",
  [style_label |-> Choice("formal", {"formal", "casual", "concise"}),
   conciseness_strength |-> Free(5)])
GenerationTextSentenceReordering ==
  Seed("generation.text.sentence_reordering", "generation", "text",
  "sentence_reordering_text_augmenter",
  [reorder_granularity |-> Choice("sentence", {"sentence", "paragraph"}),
   shuffle_strength |-> Free(5), preserve_first_last |-> Switch(TRUE)])
TrainingImageSonarOltrClassifier ==
  Seed("training.image.sonar_oltr_classifier", "training", "image",
  "sonar_oltr_classifier",
  [backbone |-> Text("resnet18"), epochs |-> Free(10),
   batch_size |-> Free(32), learning_rate |-> Free(10000),
   train_ratio |-> Free(6), val_ratio |-> Free(20)])
TrainingMultimodalSeg ==
  Seed("training.multimodal.seg", "training", "multimodal",
  "multimodal_seg",
  [epochs |-> Free(30), batch_size |-> Free(8), learning_rate |-> Free(10),
   img_size |-> Free(256), train_ratio |-> Free(7), val_ratio |-> Free(15)])
TrainingMultimodalFusionDetector ==
  Seed("training.multimodal.fusion_detector", "training", "multimodal",
  "multimodal_fusion_detector",
  [epochs |-> Free(50), batch_size |-> Free(16), learning_rate |-> Free(10),
   img_size |-> Free(320), train_ratio |-> Free(7), val_ratio |-> Free(15)])
TrainingTimeseriesHyfdFaultDiagnosis ==
  Seed("training.timeseries.hyfd_fault_diagnosis", "training", "tabular",
  "hyfd_fault_diagnosis",
  [epochs |-> Free(100), batch_size |-> Free(256),
   learning_rate |-> Free(10), window_size |-> Free(64), stride |-> Free(16),
   random_seed |-> Free(777),
   snr |-> Choice("None", {"None", "-4", "-2", "0", "2", "4"}),
   train_ratio |-> Free(7), val_ratio |-> Free(10)])
TrainingTimeseriesShipPredictor ==
  Seed("training.timeseries.ship_predictor", "training", "tabular",
  "timeseries_ship_predictor",
  [model_type |-> Choice("LSTM", {"LSTM", "GRU", "TRANSFORMER"}),
   hidden_size |-> Free(64), num_layers |-> Free(2), epochs |-> Free(50),
   batch_size |-> Free(64), learning_rate |-> Free(100),
   lookback_window |-> Free(20), prediction_window |-> Free(10),
   train_ratio |-> Free(7), val_ratio |-> Free(15)])
TrainingImageYolov5Detector ==
  Seed("training.image.yolov5_detector", "training", "image",
  "yolov5_detector",
  [weights |-> Text("yolov5n.pt"),
   model_yaml |-> Text("models/yolov5n.yaml"), epochs |-> Free(100),
   batch_size |-> Free(16), img_size |-> Free(640), train_ratio |-> Free(7),
   val_ratio |-> Free(15), device |-> Text("")])
EvaluationMultimodalSegEvaluator ==
  Seed("evaluation.multimodal.seg_evaluator", "evaluation", "multimodal",
  "multimodal_seg_evaluator",
  [batch_size |-> Free(8)])
EvaluationMultimodalFusionEvaluator ==
  Seed("evaluation.multimodal.fusion_evaluator", "evaluation", "multimodal",
  "multimodal_fusion_evaluator",
  [batch_size |-> Free(16)])
EvaluationTimeseriesHyfdFaultEvaluator ==
  Seed("evaluation.timeseries.hyfd_fault_evaluator", "evaluation", "multimodal",
  "hyfd_fault_evaluator",
  [batch_size |-> Free(256)])
EvaluationTimeseriesShipEvaluator ==
  Seed("evaluation.timeseries.ship_evaluator", "evaluation", "multimodal",
  "timeseries_ship_evaluator",
  [batch_size |-> Free(64)])
EvaluationImageYolov5Evaluator ==
  Seed("evaluation.image.yolov5_evaluator", "evaluation", "image",
  "yolov5_evaluator",
  [conf_thres |-> Free(1), iou_thres |-> Free(6), img_size |-> Free(640),
   batch_size |-> Free(32), device |-> Text("")])
EvaluationMultimodalSonarOltrPlud ==
  Seed("evaluation.multimodal.sonar_oltr_plud", "evaluation", "multimodal",
  "sonar_oltr_plud",
  [backbone |-> Text("resnet18"), epochs |-> Free(10),
   batch_size |-> Free(32), learning_rate |-> Free(1),
   train_class_num |-> Free(5), weibull_tail |-> Free(20),
   weibull_alpha |-> Free(2), weibull_threshold |-> Free(5)])

DefaultAlgorithms ==
  <<CleaningDuplicateDetector, CleaningImageResolutionFilter,
    CleaningImageNearDuplicateDetector, CleaningImageDeblur,
    CleaningImageDenoise, CleaningTextDeduplicate, CleaningTextStopwords,
    CleaningTextStemming, CleaningAudioDenoise, CleaningAudioNormalize,
    CleaningAudioTrimSilence, CleaningTabularMissingValues,
    CleaningTabularOutliers, CleaningTabularNormalize,
    GenerationCopyAugmenter, GenerationImageCrop,
    GenerationImageGeometricTransform, TrainingDemoClassifier,
    TrainingShipClassifier, EvaluationSampleCountComparator,
    EvaluationMultiAgentSimulation, GenerationImageStyleTransfer,
    GenerationImageTextureEnhancement, GenerationImageLightingDirection,
    GenerationImageTemperatureCalibration, GenerationImageHaloEffect,
    GenerationImageColorSpace, GenerationImageClarity,
    GenerationImageOcclusion, GenerationImageEnvironmentSimulation,
    GenerationImageDeformationDistortion, GenerationImageImagingSimulation,
    GenerationImageLinearTransform, GenerationImageChannelShuffle,
    GenerationImageCrossModalFusion, GenerationImageWganGp,
    GenerationImageDiffusion, GenerationImageVitMae,
    GenerationAudioNoiseInjection, GenerationAudioSpectrumReconstruction,
    GenerationAudioTempoPitch, GenerationAudioEnergyAmplitude,
    GenerationAudioTimeseriesStructure, GenerationAudioChannelConfig,
    GenerationAudioSpecaugment, GenerationAudioFilterProcessing,
    GenerationAudioEnvironmentNoise, GenerationAudioSpatialAcoustics,
    GenerationAudioQualityDistortion, GenerationAudioComposite,
    GenerationTextSynonymReplacement, GenerationTextBackTranslation,
    GenerationTextVocabularyPhrase, GenerationTextStructureNoise,
    GenerationTextContextEmbedding, GenerationTextStyleControlled,
    GenerationTextSentenceReordering, TrainingImageSonarOltrClassifier,
    TrainingMultimodalSeg, TrainingMultimodalFusionDetector,
    TrainingTimeseriesHyfdFaultDiagnosis, TrainingTimeseriesShipPredictor,
    TrainingImageYolov5Detector, EvaluationMultimodalSegEvaluator,
    EvaluationMultimodalFusionEvaluator,
    EvaluationTimeseriesHyfdFaultEvaluator,
    EvaluationTimeseriesShipEvaluator, EvaluationImageYolov5Evaluator,
    EvaluationMultimodalSonarOltrPlud>>

Seeds == {DefaultAlgorithms[i] : i \in DOMAIN DefaultAlgorithms}
================================================================================
