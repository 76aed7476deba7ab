------------------------------ MODULE MCPluginRun ------------------------------
(***************************************************************************)
(* PluginRun for TLC: every plugin of the repository, on every machine,    *)
(* with up to MaxSamples samples in any state; every plugin with every     *)
(* parameter worth trying and one good sample; and the plugins that        *)
(* compare with MaxAlike good samples of any content.                      *)
(***************************************************************************)
EXTENDS PluginRun, AlgorithmCatalogue, GenerationPlugins, CleaningPlugins, AglAlgorithms

CONSTANTS
  MaxSamples,  \* bound: samples of any state
  MaxAlike,    \* bound: samples compared with each other
  Target       \* outputs asked of a generation run

(* What the constants have to be: a task asks for one output at least.     *)
ASSUME RunAssumption == MaxSamples \in Nat /\ MaxAlike \in Nat /\ Target \in Nat \ {0}

Plugins == Generators \union Cleaners \union AglAlgorithmSpecs
UserWritten ==
  {UserNoiseInjectionImage, UserWganGpImage, UserTemplate, UserTestReflect, UserImageDenoise}

(* The forms a plugin is offered with: what it declares, once it is        *)
(* imported, and the seeded algorithm's.                                   *)
Forms(p) ==
  {p.declares} \union
    {seed.offers : seed \in {d \in Seeds : /\ p \notin UserWritten
                                           /\ d.plugin = p.plugin /\ d.category = p.category}}

(* The values worth trying.  No form of the repository offers the switch   *)
(* do_shuffle, an algorithm the user writes may.                           *)
Choices(p) ==
  UNION {UNION {{<<name, x, form[name].type>> : x \in Tried(form[name])} : name \in DOMAIN form} :
           form \in Forms(p)}
  \union {<<"do_shuffle", x, "switch">> : x \in IF "do_shuffle" \in DOMAIN p.reads THEN BOOLEAN ELSE {}}
NoChoice == <<"", 0, "text">>

Sample(state, name, content, labelled) ==
  [state |-> state, name |-> name, content |-> content, labelled |-> labelled]
Lists(n, S) == UNION {[1 .. k -> S] : k \in 1 .. n}

(* Bare names may coincide where files are told apart by them, and labels  *)
(* are told apart where a plugin asks for them.                            *)
AnyStates(p) ==
  LET names  == IF p.category = "cleaning" THEN 1 .. 2 ELSE {1}
      labels == IF p \in {WganGpImage, UserWganGpImage} THEN BOOLEAN ELSE {FALSE}
  IN  Lists(MaxSamples, {Sample(state, name, 1, labelled) :
             state \in {"good", "plain", "broken", "empty", "other"},
             name \in names, labelled \in labels})
AnyContents == Lists(MaxAlike, {Sample("good", 1, c, FALSE) : c \in 1 .. 3})
OneGood == {<<Sample("good", 1, 1, FALSE)>>}

MCInit ==
  /\ Init
  /\ \E p \in Plugins, machine \in Machines :
       \/ /\ samples \in IF p \in {DuplicateDetector, ImageNearDuplicateDetector}
                          THEN AnyContents ELSE AnyStates(p)
          /\ given = [plugin |-> p, target |-> Target, choice |-> NoChoice, machine |-> machine]
       \/ /\ samples \in OneGood
          /\ given \in {[plugin |-> p, target |-> 1, choice |-> c, machine |-> machine] : c \in Choices(p)}

Spec == MCInit /\ [][Next]_vars
-----------------------------------------------------------------------------
(* What lists a file without looking: the example that writes none, and on *)
(* a worn machine the copies, the images of the AGL library and the user's *)
(* denoiser, which ignore what the copy or cv2.imwrite says.               *)
Trusting ==
  \/ plugin = UserTestReflect
  \/ /\ given.machine = "worn"
     /\ plugin \in {Copy, UserImageDenoise} \union {p \in AglAlgorithmSpecs : p.refused = "claim"}

(* A run that reports success lists for every result a file that is there  *)
(* and still holds that result: nothing later in the run wrote over it.    *)
OutputsAreTheirOwn ==
  answer = "ok" /\ OwnNames /\ ~Trusting =>
    \A i \in DOMAIN results :
      LET file == results[i].file
      IN  file # 0 => file \in DOMAIN disk /\ disk[file] = results[i].item

(* Parameters the form offers and no line of the plugin reads, or reads as *)
(* a list where the form sends a text.                                     *)
Unread(p) ==
  CASE p = ChannelShuffleImage       -> {"shuffle"}
    [] p = UserWganGpImage           -> {"discriminator_iterations", "device"}
    [] p = NoiseInjectionAudio       -> {"noise_intensity"}
    [] p = SpectrumReconstructionAudio -> {"freq_range"}
    [] p = TempoPitchAudio           -> {"time_stretch", "pitch_shift_semitones"}
    [] p = TimeseriesStructureAudio  ->
         {"operation", "shift_sec", "concat_segments", "reverse_probability"}
    [] p = SpecaugmentAudio          ->
         {"hop", "freq_mask_param", "time_mask_param", "inversion_iterations"}
    [] p = VocabularyPhraseText      -> {"pos_constraint"}
    [] p = UserTestReflect           -> {"threshold", "max_iterations", "mode", "enable_logging"}
    [] p \in {ChannelConfigAudio, FilterProcessingAudio, SpatialAcousticsAudio, CompositeAudio,
              SentenceReorderingText} -> UNION {DOMAIN form : form \in Forms(p)}
    [] OTHER                         -> {}

(* Values the run narrows (to bounds of its own, or to odd numbers), and   *)
(* the plugins that read a zero as not given.                              *)
Narrowed ==
  {<<VitMaeImage, "patch_size">>, <<DiffusionImage, "diffusion_steps">>,
   <<DiffusionImage, "cfg_guidance_scale">>, <<QualityDistortionAudio, "quantize_bits">>,
   <<ImageDeblur, "laplacian_ksize">>, <<ImageDenoise, "median_kernel_size">>,
   <<EnvironmentNoiseInjectionAudio, "target_snr">>, <<ClarityImage, "blur_kernel">>,
   <<ImagingSimulationImage, "blur_kernel">>}
ZeroIsDefault ==
  {GeometricImage, StyleTransferImage, TextureEnhancementImage, LightingDirectionImage,
   TemperatureCalibrationImage, HaloEffectImage, DeformationDistortionImage,
   CrossModalFusionImage, SynonymReplacementText, BackTranslationText,
   VocabularyPhraseText, StructureNoiseText, StyleControlledText}

(* The run works with the value the user picked in the form: what          *)
(* seed_data.py offers, what PARAMETERS declares and what                  *)
(* parameters.get reads name the same parameter and allow the same range,  *)
(* and what the run puts on the value alone before it uses it (a bound, an *)
(* odd number) leaves it.  The exceptions are the ones listed above.  What *)
(* a run works out of several parameters at once, or of its samples, is    *)
(* not looked at.                                                          *)
ChoiceIsUsed ==
  LET name == given.choice[1]
      x    == given.choice[2]
  IN  \/ given.choice = NoChoice
      \/ name \in Unread(plugin)
      \/ <<plugin, name>> \in Narrowed
      \/ plugin \in ZeroIsDefault /\ given.choice[3] = "number" /\ x = 0
      \/ name \in DOMAIN plugin.reads /\ Value(name) = x
=============================================================================
