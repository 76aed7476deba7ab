--------------------------- MODULE GenerationPlugins ----------------------------
(***************************************************************************)
(* The generation plugins (plugins/generation and the ones beside them in  *)
(* plugins/user): the parameters each declares, those its run reads, and   *)
(* what the run does with its samples and its output files.                *)
(***************************************************************************)
EXTENDS PluginReactions

(* read_image raises when there is nothing to read and returns None when   *)
(* it cannot be decoded; write_image returns what the encoder says.        *)
Image(name, declares, reads) == Plugin(name, declares, reads)

(* Every exception of the loading is caught.                               *)
Audio(name, declares, reads) ==
  [Plugin(name, declares, reads) EXCEPT
     !.opening = <<"library">>, !.empty = "skip", !.missing = "skip",
     !.refused = "raise"]

(* Undecodable bytes are dropped by read_text(errors="ignore").            *)
Words(name, declares, reads) ==
  [Plugin(name, declares, reads) EXCEPT
     !.broken = "make", !.empty = "make", !.other = "make", !.missing = "skip",
     !.refused = "raise"]

Copy ==
  [Image("copy_augmenter", NoParameters,
    NoParameters) EXCEPT
     !.broken = "make", !.other = "make",
     !.missing = "SOURCE_FILE_NOT_FOUND", !.refused = "claim"]
CropImageParameters ==
  [crop_ratio |-> Number(30, 80, 95),
   crop_mode |-> Choice("random", {"random", "center"})]
CropImage ==
  Image("crop_image_augmenter", CropImageParameters,
  [crop_ratio |-> Plain(80), crop_mode |-> Plain("random")])
GeometricImageParameters ==
  [rotation_degrees |-> Number(-360, 15, 360), scale |-> Number(10, 92, 500),
   translate_x_pct |-> Number(-100, 6, 100),
   translate_y_pct |-> Number(-100, -4, 100),
   flip_horizontal |-> Switch(FALSE), flip_vertical |-> Switch(FALSE),
   border_value |-> Number(0, 0, 255)]
GeometricImage ==
  [Image("geometric_image_augmenter", GeometricImageParameters,
    [rotation_degrees |-> Or(15), scale |-> Or(92), translate_x_pct |-> Or(6),
     translate_y_pct |-> Or(-4), flip_horizontal |-> Plain(FALSE),
     flip_vertical |-> Plain(FALSE), border_value |-> Or(0)]) EXCEPT
     !.broken = "IMAGE_READ_ERROR", !.other = "IMAGE_READ_ERROR"]
StyleTransferImageParameters ==
  [strength |-> Number(0, 7, 10)]
StyleTransferImage ==
  Image("style_transfer_image_augmenter", StyleTransferImageParameters,
  [strength |-> Or(7)])
TextureEnhancementImageParameters ==
  [texture_strength |-> Number(0, 5, 10),
   detail_sigma |-> Number(1, 12, 100), detail_gain |-> Number(1, 10, 50)]
TextureEnhancementImage ==
  Image("texture_enhancement_image_augmenter",
  TextureEnhancementImageParameters,
  [texture_strength |-> Or(5), detail_sigma |-> Or(12),
   detail_gain |-> Or(10)])
LightingDirectionImageParameters ==
  [light_direction |-> Choice("left_to_right", {"left_to_right",
                                                "right_to_left",
       "top_to_bottom", "bottom_to_top"}),
   light_strength |-> Number(0, 5, 10), ambient_level |-> Number(0, 15, 100)]
LightingDirectionImage ==
  Image("lighting_direction_image_augmenter",
  LightingDirectionImageParameters,
  [light_direction |-> Or("left_to_right"), light_strength |-> Or(5),
   ambient_level |-> Or(15)])
TemperatureCalibrationImageParameters ==
  [stretch_low_pct |-> Number(0, 2, 49),
   stretch_high_pct |-> Number(51, 98, 100), clahe_clip |-> Number(0, 2, 10),
   clahe_tile |-> Number(2, 8, 32)]
TemperatureCalibrationImage ==
  Image("temperature_calibration_image_augmenter",
  TemperatureCalibrationImageParameters,
  [stretch_low_pct |-> OrClamped(0, 2, 49),
   stretch_high_pct |-> OrClamped(51, 98, 100),
   clahe_clip |-> Or(2), clahe_tile |-> OrAtLeast(2, 8)])
HaloEffectImageParameters ==
  [mode |-> Choice("simulate", {"simulate", "remove"}),
   halo_strength |-> Number(0, 5, 10), halo_radius |-> Number(3, 24, 128),
   dehalo_clip |-> Number(0, 7, 10)]
HaloEffectImage ==
  Image("halo_effect_image_augmenter", HaloEffectImageParameters,
  [mode |-> Or("simulate"), halo_strength |-> Or(5), halo_radius |-> Or(24),
   dehalo_clip |-> Or(7)])
ColorSpaceImageParameters ==
  [brightness |-> Number(-100, 14, 100), contrast |-> Number(20, 118, 300),
   saturation |-> Number(0, 125, 300), hue |-> Number(-90, 8, 90),
   pca_jitter |-> Number(0, 8, 100)]
ColorSpaceImage ==
  Image("color_space_image_augmenter", ColorSpaceImageParameters,
  [brightness |-> Clamped(-100, 14, 100), contrast |-> Clamped(20, 118, 300),
   saturation |-> Clamped(0, 125, 300), hue |-> Clamped(-90, 8, 90),
   pca_jitter |-> Clamped(0, 8, 100)])
ClarityImageParameters ==
  [blur_strength |-> Number(0, 0, 10), blur_kernel |-> Number(3, 5, 31),
   sharpen_strength |-> Number(0, 12, 50),
   sharpen_amount |-> Number(0, 55, 100)]
(* The kernel grows by twice the blur_strength, and without that there is  *)
(* no blur at all.                                                         *)
ClarityImage ==
  Image("clarity_image_augmenter", ClarityImageParameters,
  [blur_strength |-> Clamped(0, 0, 10), blur_kernel |-> OddClamped(3, 5, 31),
   sharpen_strength |-> Clamped(0, 12, 50),
   sharpen_amount |-> Clamped(0, 55, 100)])
OcclusionImageParameters ==
  [occlusion_type |-> Choice("random_erase", {"random_erase", "cutout",
                                              "gridmask"}),
   erase_count |-> Number(1, 1, 20), area_ratio |-> Number(1, 20, 50)]
OcclusionImage ==
  Image("occlusion_image_augmenter", OcclusionImageParameters,
  [occlusion_type |-> Or("random_erase"), fill_mode |-> Or("mean"),
   erase_count |-> OrAtLeast(1, 1), area_ratio |-> Or(20), min_aspect |-> Or(3),
   max_aspect |-> Or(3), cutout_count |-> OrAtLeast(1, 1), cut_ratio |-> Or(25),
   grid_size |-> OrAtLeast(1, 32), mask_ratio |-> Or(4)])
EnvironmentSimulationImageParameters ==
  [fog_intensity |-> Number(0, 45, 100),
   snow_intensity |-> Number(0, 35, 100),
   shadow_intensity |-> Number(0, 35, 100)]
EnvironmentSimulationImage ==
  Image("environment_simulation_image_augmenter",
  EnvironmentSimulationImageParameters,
  [fog_intensity |-> Clamped(0, 45, 100),
   snow_intensity |-> Clamped(0, 35, 100),
   shadow_intensity |-> Clamped(0, 35, 100)])
DeformationDistortionImageParameters ==
  [elastic_strength |-> Number(0, 8, 50),
   elastic_gaussian_kernel |-> Number(1, 10, 50),
   distortion_k1 |-> Number(-100, 18, 100),
   distortion_k2 |-> Number(-100, 3, 100)]
DeformationDistortionImage ==
  Image("deformation_distortion_image_augmenter",
  DeformationDistortionImageParameters,
  [elastic_strength |-> Or(8), elastic_gaussian_kernel |-> Or(10),
   distortion_k1 |-> Or(18), distortion_k2 |-> Or(3)])
ImagingSimulationImageParameters ==
  [blur_kernel |-> Number(0, 5, 15), downsample |-> Number(1, 5, 10)]
(* A kernel of 0 or 1 does not blur.                                       *)
ImagingSimulationImage ==
  Image("imaging_simulation_image_augmenter",
  ImagingSimulationImageParameters,
  [blur_kernel |-> OddClamped(0, 5, 15), downsample |-> Clamped(1, 5, 10)])
LinearTransformImageParameters ==
  [alpha |-> Number(20, 160, 300), beta |-> Number(-100, 35, 100),
   gamma |-> Number(2, 11, 30)]
LinearTransformImage ==
  [Image("linear_transform_image_augmenter",
    LinearTransformImageParameters,
    [alpha |-> Clamped(20, 160, 300), beta |-> Clamped(-100, 35, 100),
     gamma |-> Clamped(2, 11, 30)]) EXCEPT
     !.opening = <<"images">>]
ChannelShuffleImageParameters ==
  [shuffle |-> Switch(TRUE)]
ChannelShuffleImage ==
  [Image("channel_shuffle_image_augmenter", ChannelShuffleImageParameters,
    [do_shuffle |-> Plain(TRUE)]) EXCEPT
     !.opening = <<"switch">>]
CrossModalFusionImageParameters ==
  [clahe_clip |-> Number(0, 2, 10), ir_weight |-> Number(0, 5, 10)]
CrossModalFusionImage ==
  Image("cross_modal_fusion_image_augmenter",
  CrossModalFusionImageParameters,
  [clahe_clip |-> Or(2), ir_weight |-> OrClamped(0, 5, 10)])
WganGpImageParameters ==
  [gradient_penalty |-> Number(1, 100, 500),
   discriminator_iterations |-> Number(1, 5, 20),
   learning_rate |-> Number(1, 100, 100000),
   enhance_strength |-> Number(3, 10, 20)]
WganGpImage ==
  [Image("wgan_gp_image_augmenter", WganGpImageParameters,
    [gradient_penalty |-> Or(100), discriminator_iterations |-> OrAtLeast(1, 5),
     learning_rate |-> Or(100), enhance_strength |-> OrClamped(3, 10, 20),
     max_images |-> Clamped(2, 32, 64)]) EXCEPT
     !.opening = <<"library", "images", "learn", "labelled">>, !.learned = "make"]
DiffusionImageParameters ==
  [diffusion_steps |-> Number(5, 40, 200),
   cfg_guidance_scale |-> Number(0, 10, 50),
   noise_strength |-> Number(0, 25, 80),
   blend_strength |-> Number(0, 55, 100)]
DiffusionImage ==
  [Image("diffusion_image_augmenter", DiffusionImageParameters,
    [noise_strength |-> Clamped(0, 25, 80),
     blend_strength |-> Clamped(0, 55, 100),
     cfg_guidance_scale |-> Clamped(0, 10, 50),
     diffusion_steps |-> Clamped(5, 40, 200),
     learning_rate |-> Clamped(1, 100, 100000),
     max_images |-> Clamped(2, 32, 64)]) EXCEPT
     !.opening = <<"optional", "learn">>]
VitMaeImageParameters ==
  [mask_ratio |-> Number(5, 35, 90),
   learning_rate |-> Number(1, 100, 100000),
   training_steps |-> Number(10, 120, 500), patch_size |-> Number(2, 4, 32),
   blend_strength |-> Number(0, 65, 100)]
(* It learns for no more than twice as many steps as it has images, or 20. *)
VitMaeImage ==
  [Image("vit_mae_image_augmenter", VitMaeImageParameters,
    [patch_size |-> Clamped(2, 4, 16), mask_ratio |-> Clamped(5, 35, 90),
     training_steps |-> Clamped(10, 120, 500),
     learning_rate |-> Clamped(1, 100, 100000),
     blend_strength |-> Clamped(0, 65, 100), max_images |-> Clamped(2, 32, 64)]) EXCEPT
     !.opening = <<"library", "patches", "learn">>]
UserNoiseInjectionImageParameters ==
  [noise_type |-> Choice("gaussian", {"gaussian", "salt_pepper",
                                      "multiplicative", "shot_read"}),
   noise_intensity |-> Number(0, 8, 100),
   salt_pepper_ratio |-> Number(0, 5, 10), shot_noise |-> Number(0, 3, 50),
   read_noise |-> Number(0, 1, 10)]
UserNoiseInjectionImage ==
  [Image("noise_injection_image_augmenter",
    UserNoiseInjectionImageParameters,
    [noise_type |-> Or("gaussian"), noise_intensity |-> Clamped(0, 8, 100),
     salt_pepper_ratio |-> Clamped(0, 5, 10), shot_noise |-> Clamped(0, 3, 50),
     read_noise |-> Clamped(0, 1, 10)]) EXCEPT
     !.opening = <<"images">>]
UserWganGpImageParameters ==
  [gradient_penalty |-> Number(1, 100, 500),
   discriminator_iterations |-> Number(1, 5, 20),
   learning_rate |-> Number(1, 100, 100000),
   device |-> Choice("auto", {"auto", "cpu", "npu"})]
UserWganGpImage ==
  [Image("wgan_gp_image_augmenter", UserWganGpImageParameters,
    [gradient_penalty |-> Or(100), n_critic |-> OrAtLeast(1, 5),
     learning_rate |-> Or(100), max_images |-> Clamped(2, 32, 64)]) EXCEPT
     !.opening = <<"library", "device", "learn", "labelled", "blind">>]
UserTemplateParameters ==
  [threshold |-> Number(0, 5, 10), enable_feature |-> Switch(TRUE),
   mode |-> Choice("normal", {"normal", "aggressive", "conservative"})]
UserTemplate ==
  [Image("_TEMPLATE", UserTemplateParameters,
    [threshold |-> Plain(5), enable_feature |-> Plain(TRUE),
     mode |-> Plain("normal")]) EXCEPT
     !.broken = "make", !.empty = "make", !.other = "make",
     !.missing = "skip", !.refused = "make"]
UserTestReflectParameters ==
  [threshold |-> Number(0, 75, 100),
   max_iterations |-> Number(1, 100, 10000),
   mode |-> Choice("balanced", {"fast", "balanced", "thorough"}),
   enable_logging |-> Switch(TRUE), output_prefix |-> Text("result_")]
UserTestReflect ==
  [Image("test_reflect_plugin", UserTestReflectParameters,
    [output_prefix |-> Plain("out_")]) EXCEPT
     !.broken = "claim", !.empty = "claim", !.other = "claim",
     !.missing = "claim", !.good = "claim", !.plain = "claim"]
NoiseInjectionAudioParameters ==
  [noise_type |-> Choice("white", {"white", "pink"}),
   noise_intensity |-> Number(0, 1, 10)]
NoiseInjectionAudio ==
  [Audio("noise_injection_audio_augmenter", NoiseInjectionAudioParameters,
    [noise_type |-> Or("white"), noise_level |-> Or(1)]) EXCEPT
     !.unwritten = "skip"]
SpectrumReconstructionAudioParameters ==
  [freq_range |-> Text("[0, 4000]")]
(* freq_range counts only when it is a list: a form sends a text.          *)
SpectrumReconstructionAudio ==
  [Audio("spectrum_reconstruction_audio_augmenter",
    SpectrumReconstructionAudioParameters, NoParameters) EXCEPT
     !.unwritten = "skip"]
TempoPitchAudioParameters ==
  [rate |-> Number(50, 115, 200), n_steps |-> Number(-12, 2, 12)]
TempoPitchAudio ==
  Audio("tempo_pitch_audio_augmenter", TempoPitchAudioParameters,
  [rate |-> Clamped(50, 115, 200), n_steps |-> Clamped(-12, 2, 12)])
EnergyAmplitudeAudioParameters ==
  [volume_scale |-> Number(0, 135, 500),
   mute_probability |-> Number(0, 9, 10), mute_count |-> Number(0, 2, 10),
   min_sec |-> Number(1, 5, 100), max_sec |-> Number(5, 35, 200)]
(* min_sec and max_sec change places when they are the wrong way round.    *)
EnergyAmplitudeAudio ==
  Audio("energy_amplitude_audio_augmenter",
  EnergyAmplitudeAudioParameters,
  [volume_scale |-> Clamped(0, 135, 500),
   mute_probability |-> Clamped(0, 9, 10), mute_count |-> Clamped(0, 2, 10),
   min_sec |-> Clamped(1, 5, 100), max_sec |-> Clamped(5, 35, 200)])
TimeseriesStructureAudioParameters ==
  [operation |-> Choice("mix", {"mix", "shift", "crop", "concat", "reverse"}),
   shift_sec |-> Number(1, 20, 500), crop_ratio |-> Number(10, 90, 99),
   concat_segments |-> Number(2, 2, 10),
   reverse_probability |-> Number(0, 5, 10)]
TimeseriesStructureAudio ==
  Audio("timeseries_structure_audio_augmenter",
  TimeseriesStructureAudioParameters,
  [op |-> Or("mix"), max_shift |-> Or(2),
   crop_ratio |-> OrClamped(10, 90, 100), concat_parts |-> OrAtLeast(2, 2),
   rev_prob |-> Or(5)])
ChannelConfigAudioParameters ==
  [target_channel |-> Choice("auto", {"auto", "mono", "stereo"}),
   mix_strategy |-> Choice("avg", {"avg", "max", "min"}),
   dither |-> Number(0, 2, 100), swap_probability |-> Number(0, 2, 10)]
ChannelConfigAudio ==
  Audio("channel_config_audio_augmenter", ChannelConfigAudioParameters,
  [target_ch |-> Or("auto"), mix_strat |-> Or("avg"), jitter |-> Or(2),
   swap_prob |-> Or(2)])
SpecaugmentAudioParameters ==
  [mel_bins |-> Number(16, 64, 256), n_fft |-> Number(256, 1024, 4096),
   hop |-> Number(64, 256, 1024), freq_mask_param |-> Number(1, 8, 32),
   time_mask_param |-> Number(1, 8, 32),
   inversion_iterations |-> Number(1, 16, 100)]
SpecaugmentAudio ==
  Audio("specaugment_audio_augmenter", SpecaugmentAudioParameters,
  [mel_bins |-> Or(64), n_fft |-> Or(1024), hop_length |-> Or(256),
   freq_mask |-> Or(10), time_mask |-> Or(20), n_freq |-> Or(1),
   n_time |-> Or(1), n_iter |-> Or(16)])
FilterProcessingAudioParameters ==
  [filter_type |-> Choice("bandpass", {"bandpass", "lowpass", "highpass",
                                       "bandstop"}),
   low_cutoff_hz |-> Number(20, 300, 20000),
   high_cutoff_hz |-> Number(20, 3000, 20000)]
FilterProcessingAudio ==
  Audio("filter_processing_audio_augmenter",
  FilterProcessingAudioParameters,
  [ft |-> Or("bandpass"), low |-> Or(300), high |-> Or(3000)])
EnvironmentNoiseInjectionAudioParameters ==
  [noise_type |-> Choice("white", {"white", "pink", "brown", "uniform"}),
   target_snr |-> Number(-20, 10, 40)]
EnvironmentNoiseInjectionAudio ==
  [Audio("environment_noise_injection_audio_augmenter",
    EnvironmentNoiseInjectionAudioParameters,
    [noise_type |-> Plain("white"), target_snr |-> Clamped(-5, 10, 60)]) EXCEPT
     !.opening = <<>>, !.deaf = "skip", !.other = "SOURCE_FILE_NOT_FOUND",
     !.missing = "SOURCE_FILE_NOT_FOUND", !.unwritten = "skip"]
SpatialAcousticsAudioParameters ==
  [effect_type |-> Choice("echo", {"echo", "reverb", "both"}),
   probability |-> Number(0, 8, 10), count |-> Number(1, 3, 10),
   delay |-> Number(5, 30, 200), decay |-> Number(0, 6, 10),
   tau |-> Number(1, 5, 50)]
SpatialAcousticsAudio ==
  Audio("spatial_acoustics_audio_augmenter",
  SpatialAcousticsAudioParameters,
  [echo_prob |-> Or(5), num_echoes |-> OrAtLeast(1, 3), min_delay |-> Or(2),
   max_delay |-> Or(8), echo_decay |-> Or(5),
   reverb_prob |-> OrClamped(0, 5, 10), reverb_dur |-> Or(6),
   reverb_tau |-> Or(2)])
QualityDistortionAudioParameters ==
  [downsample_ratio |-> Number(1, 6, 10), quantize_bits |-> Number(2, 6, 32),
   distortion_drive |-> Number(0, 45, 100)]
QualityDistortionAudio ==
  Audio("quality_distortion_audio_augmenter",
  QualityDistortionAudioParameters,
  [downsample_ratio |-> Clamped(1, 6, 10),
   quantize_bits |-> Clamped(2, 6, 16),
   distortion_drive |-> Clamped(0, 45, 100)])
CompositeAudioParameters ==
  [combination_count |-> Number(1, 3, 10),
   include_specaugment |-> Switch(TRUE), include_spatial |-> Switch(TRUE)]
CompositeAudio ==
  Audio("composite_audio_augmenter", CompositeAudioParameters,
  [combo |-> OrClamped(2, 3, 6), inc_spec |-> Plain(TRUE),
   inc_spatial |-> Plain(TRUE)])
SynonymReplacementTextParameters ==
  [replacement_ratio |-> Number(0, 3, 10)]
SynonymReplacementText ==
  Words("synonym_replacement_text_augmenter",
  SynonymReplacementTextParameters,
  [replacement_ratio |-> OrClamped(0, 3, 10)])
BackTranslationTextParameters ==
  [intermediate_language |-> Choice("en", {"en", "ja", "ko"}),
   back_translate_probability |-> Number(0, 1, 1),
   sentence_restructure_strength |-> Number(0, 3, 10)]
BackTranslationText ==
  Words("back_translation_text_augmenter", BackTranslationTextParameters,
  [back_translate_probability |-> OrClamped(0, 1, 1),
   sentence_restructure_strength |-> OrClamped(0, 3, 10),
   intermediate_language |-> Or("en")])
VocabularyPhraseTextParameters ==
  [replacement_ratio |-> Number(0, 3, 10), pos_constraint |-> Text(""),
   phrase_level |-> Switch(TRUE)]
VocabularyPhraseText ==
  Words("vocabulary_phrase_text_augmenter",
  VocabularyPhraseTextParameters,
  [replacement_ratio |-> OrClamped(0, 3, 10), phrase_level |-> Plain(TRUE)])
StructureNoiseTextParameters ==
  [perturbation_strength |-> Number(0, 1, 10)]
StructureNoiseText ==
  [Words("structure_noise_text_augmenter", StructureNoiseTextParameters,
    [perturbation_strength |-> OrClamped(0, 1, 10)]) EXCEPT
     !.empty = "skip"]
ContextEmbeddingTextParameters ==
  [mask_ratio |-> Number(0, 25, 100),
   cross_lingual_strength |-> Number(0, 35, 100)]
ContextEmbeddingText ==
  [Words("context_embedding_text_augmenter",
    ContextEmbeddingTextParameters,
    [mask_ratio |-> Clamped(0, 25, 100),
     cross_lingual_strength |-> Clamped(0, 35, 100)]) EXCEPT
     !.empty = "skip"]
StyleControlledTextParameters ==
  [style_label |-> Choice("formal", {"formal", "casual", "concise"}),
   conciseness_strength |-> Number(0, 5, 10)]
StyleControlledText ==
  Words("style_controlled_text_augmenter", StyleControlledTextParameters,
  [style_label |-> Or("formal"), conciseness_strength |-> OrClamped(0, 5, 10)])
SentenceReorderingTextParameters ==
  [reorder_granularity |-> Choice("sentence", {"sentence", "paragraph"}),
   shuffle_strength |-> Number(0, 5, 10),
   preserve_first_last |-> Switch(TRUE)]
SentenceReorderingText ==
  [Words("sentence_reordering_text_augmenter",
    SentenceReorderingTextParameters,
    [gran |-> Or("sentences"), shuf |-> OrClamped(0, 5, 10),
     keep_ends |-> Plain(TRUE)]) EXCEPT
     !.empty = "skip"]

Generators ==
  {Copy, CropImage, GeometricImage, StyleTransferImage,
   TextureEnhancementImage, LightingDirectionImage,
   TemperatureCalibrationImage, HaloEffectImage, ColorSpaceImage,
   ClarityImage, OcclusionImage, EnvironmentSimulationImage,
   DeformationDistortionImage, ImagingSimulationImage, LinearTransformImage,
   ChannelShuffleImage, CrossModalFusionImage, WganGpImage, DiffusionImage,
   VitMaeImage, UserNoiseInjectionImage, UserWganGpImage, UserTemplate,
   UserTestReflect, NoiseInjectionAudio, SpectrumReconstructionAudio,
   TempoPitchAudio, EnergyAmplitudeAudio, TimeseriesStructureAudio,
   ChannelConfigAudio, SpecaugmentAudio, FilterProcessingAudio,
   EnvironmentNoiseInjectionAudio, SpatialAcousticsAudio,
   QualityDistortionAudio, CompositeAudio, SynonymReplacementText,
   BackTranslationText, VocabularyPhraseText, StructureNoiseText,
   ContextEmbeddingText, StyleControlledText, SentenceReorderingText}
================================================================================
