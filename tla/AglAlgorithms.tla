----------------------------- MODULE AglAlgorithms ------------------------------
(***************************************************************************)
(* The algorithms of agl/algorithm_manager.py behind one generation plugin *)
(* (backend/plugins/builtin/agl_generation.py): an algorithm's key names   *)
(* the method that makes one output of one sample.  A method catches every *)
(* exception and returns None, which ends the run; an output's name is the *)
(* method's and the index of the item.                                     *)
(***************************************************************************)
EXTENDS PluginReactions

Failed == "ALGORITHM_RUNTIME_ERROR"

Agl(method) ==
  [Plugin(method, NoParameters, NoParameters) EXCEPT
     !.broken = Failed, !.empty = Failed, !.other = Failed, !.missing = Failed,
     !.refused = Failed, !.unwritten = Failed]

(* cv2.imread returns None for what it cannot read; what cv2.imwrite       *)
(* returns is not looked at, and the path is returned all the same.        *)
AglImage(method) == [Agl(method) EXCEPT !.refused = "claim", !.unwritten = "claim"]

(* _load_audio and _save_audio return None for anything that fails.        *)
AglAudio(method) == [Agl(method) EXCEPT !.deaf = Failed]

(* Undecodable bytes are ignored by open(errors="ignore").                 *)
AglText(method) == [Agl(method) EXCEPT !.broken = "make", !.other = "make", !.empty = "make"]

Geometric == AglImage("apply_geometric_transformation")
StyleTransfer == AglImage("apply_style_transfer")
ColorSpace == AglImage("apply_color_space_transformation")
Clarity == AglImage("apply_clarity_transformation")
Occlusion == AglImage("apply_occlusion_transformation")
Environment == AglImage("apply_environment_simulation")
Deformation == AglImage("apply_deformation_distortion")
Imaging == AglImage("apply_imaging_simulation")
(* With its switch off it makes nothing, which counts as a failure.        *)
ChannelProcessing ==
  [AglImage("apply_channel_processing") EXCEPT
     !.off = Failed, !.reads = [do_shuffle |-> Plain(TRUE)]]

TempoPitch == AglAudio("apply_tempo_pitch_transformation")
Energy == AglAudio("apply_energy_amplitude_transformation")
TimeSeries == AglAudio("apply_time_series_structure_transformation")
ChannelConfiguration == AglAudio("apply_channel_configuration_transformation")
SpecAugment == AglAudio("apply_specaugment_transformation")
FilterProcessing == AglAudio("apply_filter_processing_transformation")
EnvironmentNoise == AglAudio("apply_environment_noise_injection_transformation")
SpatialAcoustics == AglAudio("apply_spatial_acoustics_transformation")
QualityDistortion == AglAudio("apply_quality_distortion_transformation")
Composite == AglAudio("apply_composite_audio_augmentation")

VocabularyPhrase == AglText("apply_vocabulary_phrase_substitution")
StructureNoise == [AglText("apply_structure_noise_perturbation") EXCEPT !.empty = Failed]
(* A text without a single word of its list fails too.                     *)
ContextEmbedding ==
  [AglText("apply_context_and_embedding_transformation") EXCEPT
     !.empty = Failed, !.plain = Failed, !.broken = "either", !.other = "either"]
StyleControlled == [AglText("apply_style_controlled_generation") EXCEPT !.empty = Failed]
Reordering == [AglText("apply_sentence_or_paragraph_reordering") EXCEPT !.empty = Failed]

(* requires_torch: without it None.  A single sample is never enough to    *)
(* train on, so these always paint over the sample itself.                 *)
Untrained(method) == [AglImage(method) EXCEPT !.deaf = Failed]
Gan == Untrained("generate_with_gan")
Diffusion == Untrained("generate_with_diffusion")
Transformer == AglImage("generate_with_transformer")

AglAlgorithmSpecs ==
  {Geometric, StyleTransfer, ColorSpace, Clarity, Occlusion, Environment, Deformation,
   Imaging, ChannelProcessing, TempoPitch, Energy, TimeSeries, ChannelConfiguration,
   SpecAugment, FilterProcessing, EnvironmentNoise, SpatialAcoustics, QualityDistortion,
   Composite, VocabularyPhrase, StructureNoise, ContextEmbedding, StyleControlled,
   Reordering, Gan, Diffusion, Transformer}
=============================================================================
