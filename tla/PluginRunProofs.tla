---------------------------- MODULE PluginRunProofs ----------------------------
(***************************************************************************)
(* What a run of any of the repository's plugins guarantees, with any      *)
(* number of samples in any state, any parameter, any target and a cancel  *)
(* request at any moment.                                                  *)
(***************************************************************************)
EXTENDS MCPluginRun, FiniteSetTheorems, SequenceTheorems, WellFoundedInduction, TLAPS

-----------------------------------------------------------------------------
(* What the proofs need to know of a plugin.                               *)

(* A reaction that lists an output without writing it.                     *)
Claims(p) ==
  "claim" \in {p.good, p.plain, p.broken, p.empty, p.other, p.missing, p.learned, p.deaf, p.off}

(* Only cleaning plugins compare, and those never write; no cleaning       *)
(* plugin picks the images; a generation plugin makes something of a good  *)
(* sample; and what claims is the user's example, or an encoder or a disk  *)
(* that says no.                                                           *)
Sorted(p) ==
  /\ p.action \in {"make", "delete", "repair"}
  /\ p.category = "generation" =>
       /\ p.good \in {"make", "claim"}
       /\ \A i \in DOMAIN p.opening : p.opening[i] \notin {"load", "sha", "look"}
  /\ p.category # "generation" =>
       /\ p.category = "cleaning"
       /\ \A i \in DOMAIN p.opening : p.opening[i] # "images"
       /\ (\E i \in DOMAIN p.opening : p.opening[i] \in {"sha", "look"}) => p.action = "delete"
  /\ p # UserTestReflect => ~Claims(p)
  /\ p.unwritten = "claim" => p.refused = "claim" \/ p = UserImageDenoise

Honest(p) == Sorted(p) /\ (p.refused = "claim" => p = Copy)

LEMMA GeneratorsSorted == \A p \in Generators : Honest(p)
<1>1. Honest(Copy)
  BY DEF Honest, Sorted, Claims, Image, Plugin, Copy
<1>2. Honest(CropImage)
  BY DEF Honest, Sorted, Claims, Image, Plugin, CropImage
<1>3. Honest(GeometricImage)
  BY DEF Honest, Sorted, Claims, Image, Plugin, GeometricImage
<1>4. Honest(StyleTransferImage)
  BY DEF Honest, Sorted, Claims, Image, Plugin, StyleTransferImage
<1>5. Honest(TextureEnhancementImage)
  BY DEF Honest, Sorted, Claims, Image, Plugin, TextureEnhancementImage
<1>6. Honest(LightingDirectionImage)
  BY DEF Honest, Sorted, Claims, Image, Plugin, LightingDirectionImage
<1>7. Honest(TemperatureCalibrationImage)
  BY DEF Honest, Sorted, Claims, Image, Plugin, TemperatureCalibrationImage
<1>8. Honest(HaloEffectImage)
  BY DEF Honest, Sorted, Claims, Image, Plugin, HaloEffectImage
<1>9. Honest(ColorSpaceImage)
  BY DEF Honest, Sorted, Claims, Image, Plugin, ColorSpaceImage
<1>10. Honest(ClarityImage)
  BY DEF Honest, Sorted, Claims, Image, Plugin, ClarityImage
<1>11. Honest(OcclusionImage)
  BY DEF Honest, Sorted, Claims, Image, Plugin, OcclusionImage
<1>12. Honest(EnvironmentSimulationImage)
  BY DEF Honest, Sorted, Claims, Image, Plugin, EnvironmentSimulationImage
<1>13. Honest(DeformationDistortionImage)
  BY DEF Honest, Sorted, Claims, Image, Plugin, DeformationDistortionImage
<1>14. Honest(ImagingSimulationImage)
  BY DEF Honest, Sorted, Claims, Image, Plugin, ImagingSimulationImage
<1>15. Honest(LinearTransformImage)
  BY DEF Honest, Sorted, Claims, Image, Plugin, LinearTransformImage
<1>16. Honest(ChannelShuffleImage)
  BY DEF Honest, Sorted, Claims, Image, Plugin, ChannelShuffleImage
<1>17. Honest(CrossModalFusionImage)
  BY DEF Honest, Sorted, Claims, Image, Plugin, CrossModalFusionImage
<1>18. Honest(WganGpImage)
  BY DEF Honest, Sorted, Claims, Image, Plugin, WganGpImage
<1>19. Honest(DiffusionImage)
  BY DEF Honest, Sorted, Claims, Image, Plugin, DiffusionImage
<1>20. Honest(VitMaeImage)
  BY DEF Honest, Sorted, Claims, Image, Plugin, VitMaeImage
<1>21. Honest(UserNoiseInjectionImage)
  BY DEF Honest, Sorted, Claims, Image, Plugin, UserNoiseInjectionImage
<1>22. Honest(UserWganGpImage)
  BY DEF Honest, Sorted, Claims, Image, Plugin, UserWganGpImage
<1>23. Honest(UserTemplate)
  BY DEF Honest, Sorted, Claims, Image, Plugin, UserTemplate
<1>24. Honest(UserTestReflect)
  BY DEF Honest, Sorted, Claims, Image, Plugin, UserTestReflect
<1>25. Honest(NoiseInjectionAudio)
  BY DEF Honest, Sorted, Claims, Audio, Plugin, NoiseInjectionAudio
<1>26. Honest(SpectrumReconstructionAudio)
  BY DEF Honest, Sorted, Claims, Audio, Plugin, SpectrumReconstructionAudio
<1>27. Honest(TempoPitchAudio)
  BY DEF Honest, Sorted, Claims, Audio, Plugin, TempoPitchAudio
<1>28. Honest(EnergyAmplitudeAudio)
  BY DEF Honest, Sorted, Claims, Audio, Plugin, EnergyAmplitudeAudio
<1>29. Honest(TimeseriesStructureAudio)
  BY DEF Honest, Sorted, Claims, Audio, Plugin, TimeseriesStructureAudio
<1>30. Honest(ChannelConfigAudio)
  BY DEF Honest, Sorted, Claims, Audio, Plugin, ChannelConfigAudio
<1>31. Honest(SpecaugmentAudio)
  BY DEF Honest, Sorted, Claims, Audio, Plugin, SpecaugmentAudio
<1>32. Honest(FilterProcessingAudio)
  BY DEF Honest, Sorted, Claims, Audio, Plugin, FilterProcessingAudio
<1>33. Honest(EnvironmentNoiseInjectionAudio)
  BY DEF Honest, Sorted, Claims, Audio, Plugin, EnvironmentNoiseInjectionAudio
<1>34. Honest(SpatialAcousticsAudio)
  BY DEF Honest, Sorted, Claims, Audio, Plugin, SpatialAcousticsAudio
<1>35. Honest(QualityDistortionAudio)
  BY DEF Honest, Sorted, Claims, Audio, Plugin, QualityDistortionAudio
<1>36. Honest(CompositeAudio)
  BY DEF Honest, Sorted, Claims, Audio, Plugin, CompositeAudio
<1>37. Honest(SynonymReplacementText)
  BY DEF Honest, Sorted, Claims, Words, Plugin, SynonymReplacementText
<1>38. Honest(BackTranslationText)
  BY DEF Honest, Sorted, Claims, Words, Plugin, BackTranslationText
<1>39. Honest(VocabularyPhraseText)
  BY DEF Honest, Sorted, Claims, Words, Plugin, VocabularyPhraseText
<1>40. Honest(StructureNoiseText)
  BY DEF Honest, Sorted, Claims, Words, Plugin, StructureNoiseText
<1>41. Honest(ContextEmbeddingText)
  BY DEF Honest, Sorted, Claims, Words, Plugin, ContextEmbeddingText
<1>42. Honest(StyleControlledText)
  BY DEF Honest, Sorted, Claims, Words, Plugin, StyleControlledText
<1>43. Honest(SentenceReorderingText)
  BY DEF Honest, Sorted, Claims, Words, Plugin, SentenceReorderingText
<1> QED
  BY <1>1, <1>2, <1>3, <1>4, <1>5, <1>6, <1>7, <1>8, <1>9, <1>10, <1>11, <1>12, <1>13,
     <1>14, <1>15, <1>16, <1>17, <1>18, <1>19, <1>20, <1>21, <1>22, <1>23, <1>24, <1>25,
     <1>26, <1>27, <1>28, <1>29, <1>30, <1>31, <1>32, <1>33, <1>34, <1>35, <1>36, <1>37,
     <1>38, <1>39, <1>40, <1>41, <1>42, <1>43 DEF Generators

LEMMA CleanersSorted == \A p \in Cleaners : Honest(p)
<1>1. Honest(DuplicateDetector)
  BY DEF Honest, Sorted, Claims, Judge, Cleaner, Plugin, DuplicateDetector
<1>2. Honest(ImageNearDuplicateDetector)
  BY DEF Honest, Sorted, Claims, Judge, Cleaner, Plugin, ImageNearDuplicateDetector
<1>3. Honest(ImageDeblur)
  BY DEF Honest, Sorted, Claims, Judge, Cleaner, Plugin, ImageDeblur
<1>4. Honest(ImageDenoise)
  BY DEF Honest, Sorted, Claims, Judge, Cleaner, Plugin, ImageDenoise
<1>5. Honest(ImageResolution)
  BY DEF Honest, Sorted, Claims, Judge, Cleaner, Plugin, ImageResolution
<1>6. Honest(UserImageDenoise)
  BY DEF Honest, Sorted, Claims, Judge, Cleaner, Plugin, UserImageDenoise
<1>7. Honest(TextDeduplicate)
  BY DEF Honest, Sorted, Claims, Rewrite, Cleaner, Plugin, TextDeduplicate
<1>8. Honest(TextStopwords)
  BY DEF Honest, Sorted, Claims, Rewrite, Cleaner, Plugin, TextStopwords
<1>9. Honest(TextStemming)
  BY DEF Honest, Sorted, Claims, Rewrite, Cleaner, Plugin, TextStemming
<1>10. Honest(AudioDenoise)
  BY DEF Honest, Sorted, Claims, Listen, Cleaner, Plugin, AudioDenoise
<1>11. Honest(AudioNormalize)
  BY DEF Honest, Sorted, Claims, Listen, Cleaner, Plugin, AudioNormalize
<1>12. Honest(AudioTrimSilence)
  BY DEF Honest, Sorted, Claims, Listen, Cleaner, Plugin, AudioTrimSilence
<1>13. Honest(TabularMissingValues)
  BY DEF Honest, Sorted, Claims, Tabulate, Cleaner, Plugin, TabularMissingValues
<1>14. Honest(TabularOutliers)
  BY DEF Honest, Sorted, Claims, Tabulate, Cleaner, Plugin, TabularOutliers
<1>15. Honest(TabularNormalize)
  BY DEF Honest, Sorted, Claims, Tabulate, Cleaner, Plugin, TabularNormalize
<1> QED
  BY <1>1, <1>2, <1>3, <1>4, <1>5, <1>6, <1>7, <1>8, <1>9, <1>10, <1>11, <1>12, <1>13,
     <1>14, <1>15 DEF Cleaners

LEMMA AglSorted == \A p \in AglAlgorithmSpecs : Sorted(p)
<1>1. Sorted(Geometric)
  BY DEF Sorted, Claims, AglImage, Agl, Plugin, Failed, Geometric
<1>2. Sorted(StyleTransfer)
  BY DEF Sorted, Claims, AglImage, Agl, Plugin, Failed, StyleTransfer
<1>3. Sorted(ColorSpace)
  BY DEF Sorted, Claims, AglImage, Agl, Plugin, Failed, ColorSpace
<1>4. Sorted(Clarity)
  BY DEF Sorted, Claims, AglImage, Agl, Plugin, Failed, Clarity
<1>5. Sorted(Occlusion)
  BY DEF Sorted, Claims, AglImage, Agl, Plugin, Failed, Occlusion
<1>6. Sorted(Environment)
  BY DEF Sorted, Claims, AglImage, Agl, Plugin, Failed, Environment
<1>7. Sorted(Deformation)
  BY DEF Sorted, Claims, AglImage, Agl, Plugin, Failed, Deformation
<1>8. Sorted(Imaging)
  BY DEF Sorted, Claims, AglImage, Agl, Plugin, Failed, Imaging
<1>9. Sorted(ChannelProcessing)
  BY DEF Sorted, Claims, AglImage, Agl, Plugin, Failed, ChannelProcessing
<1>10. Sorted(Transformer)
  BY DEF Sorted, Claims, AglImage, Agl, Plugin, Failed, Transformer
<1>11. Sorted(TempoPitch)
  BY DEF Sorted, Claims, AglAudio, Agl, Plugin, Failed, TempoPitch
<1>12. Sorted(Energy)
  BY DEF Sorted, Claims, AglAudio, Agl, Plugin, Failed, Energy
<1>13. Sorted(TimeSeries)
  BY DEF Sorted, Claims, AglAudio, Agl, Plugin, Failed, TimeSeries
<1>14. Sorted(ChannelConfiguration)
  BY DEF Sorted, Claims, AglAudio, Agl, Plugin, Failed, ChannelConfiguration
<1>15. Sorted(SpecAugment)
  BY DEF Sorted, Claims, AglAudio, Agl, Plugin, Failed, SpecAugment
<1>16. Sorted(FilterProcessing)
  BY DEF Sorted, Claims, AglAudio, Agl, Plugin, Failed, FilterProcessing
<1>17. Sorted(EnvironmentNoise)
  BY DEF Sorted, Claims, AglAudio, Agl, Plugin, Failed, EnvironmentNoise
<1>18. Sorted(SpatialAcoustics)
  BY DEF Sorted, Claims, AglAudio, Agl, Plugin, Failed, SpatialAcoustics
<1>19. Sorted(QualityDistortion)
  BY DEF Sorted, Claims, AglAudio, Agl, Plugin, Failed, QualityDistortion
<1>20. Sorted(Composite)
  BY DEF Sorted, Claims, AglAudio, Agl, Plugin, Failed, Composite
<1>21. Sorted(VocabularyPhrase)
  BY DEF Sorted, Claims, AglText, Agl, Plugin, Failed, VocabularyPhrase
<1>22. Sorted(StructureNoise)
  BY DEF Sorted, Claims, AglText, Agl, Plugin, Failed, StructureNoise
<1>23. Sorted(ContextEmbedding)
  BY DEF Sorted, Claims, AglText, Agl, Plugin, Failed, ContextEmbedding
<1>24. Sorted(StyleControlled)
  BY DEF Sorted, Claims, AglText, Agl, Plugin, Failed, StyleControlled
<1>25. Sorted(Reordering)
  BY DEF Sorted, Claims, AglText, Agl, Plugin, Failed, Reordering
<1>26. Sorted(Gan)
  BY DEF Sorted, Claims, Untrained, AglImage, Agl, Plugin, Failed, Gan
<1>27. Sorted(Diffusion)
  BY DEF Sorted, Claims, Untrained, AglImage, Agl, Plugin, Failed, Diffusion
<1> QED
  BY <1>1, <1>2, <1>3, <1>4, <1>5, <1>6, <1>7, <1>8, <1>9, <1>10, <1>11, <1>12, <1>13,
     <1>14, <1>15, <1>16, <1>17, <1>18, <1>19, <1>20, <1>21, <1>22, <1>23, <1>24, <1>25,
     <1>26, <1>27 DEF AglAlgorithmSpecs

(* Of the plugin of this run.                                              *)
PluginOK ==
  /\ ~Cleaning => /\ ~Has("load") /\ ~Compares
                  /\ plugin.good \in {"make", "claim"}
  /\ Cleaning => ~Has("images")
  /\ Compares => Cleaning /\ ~Writes
  /\ plugin.action \in {"make", "delete", "repair"}
  /\ ~Trusting =>
       /\ ~Claims(plugin)
       /\ given.machine = "worn" => "claim" \notin {plugin.refused, plugin.unwritten}

LEMMA EveryPlugin ==
  ASSUME NEW p \in Plugins
  PROVE  Sorted(p) /\ (p.refused = "claim" => p = Copy \/ p \in AglAlgorithmSpecs)
BY GeneratorsSorted, CleanersSorted, AglSorted DEF Plugins, Honest

LEMMA ThisPlugin == plugin \in Plugins => PluginOK
<1> SUFFICES ASSUME plugin \in Plugins PROVE PluginOK
  OBVIOUS
<1>1. /\ Sorted(plugin)
      /\ plugin.refused = "claim" => plugin = Copy \/ plugin \in AglAlgorithmSpecs
  BY EveryPlugin
<1>2. ~Cleaning => plugin.category = "generation"
  BY <1>1 DEF Sorted, Cleaning
<1>3. ~Cleaning => ~Has("load") /\ ~Compares /\ plugin.good \in {"make", "claim"}
  BY <1>1, <1>2 DEF Sorted, Has, Compares
<1>4. Cleaning => ~Has("images") /\ (Compares => plugin.action = "delete")
  BY <1>1 DEF Sorted, Has, Compares, Cleaning
<1>5. Compares => Cleaning /\ ~Writes
  BY <1>3, <1>4 DEF Writes
<1>6. ASSUME ~Trusting
      PROVE  /\ ~Claims(plugin)
             /\ given.machine = "worn" => "claim" \notin {plugin.refused, plugin.unwritten}
  BY <1>1, <1>6 DEF Trusting, Sorted
<1> QED
  BY <1>1, <1>3, <1>4, <1>5, <1>6 DEF PluginOK, Sorted

-----------------------------------------------------------------------------
(* Types.                                                                  *)

States == {"good", "plain", "broken", "empty", "other", "missing"}
Samples == [state : States, name : 1 .. 2, content : 1 .. 3, labelled : BOOLEAN]
Rows == [of : Nat, item : Nat, file : Nat, action : {"make", "delete", "repair", "review"},
         like : Nat]
Places == {"opening", "loading", "learning", "polling", "working", "done"}

Picked == plugin \in Plugins /\ given.target \in Nat \ {0}
Listed == samples \in Seq(Samples) /\ samples # <<>>
Silent == answer = ""
Placed ==
  /\ pc \in Places /\ (pc # "done" => Silent)
  /\ item \in Nat \ {0} /\ cancel \in Nat \union {Never}

Typed == Picked /\ Listed /\ Placed /\ kept \in Seq(DOMAIN samples) /\ results \in Seq(Rows)

Injective(k) == \A i, j \in DOMAIN k : k[i] = k[j] => i = j

(* What the steps before the loop leave to it.                             *)
Flow ==
  /\ pc \in {"opening", "loading", "learning"} => results = <<>> /\ learned = FALSE
  /\ pc = "opening" => item = 1 /\ kept = <<>>
  /\ pc \in {"loading", "learning"} /\ ~Has("load") => item = 1
  /\ pc \in {"loading", "learning", "polling", "working"} /\ ~Cleaning => kept # <<>>
  /\ pc = "working" => item <= Items
  /\ pc = "loading" /\ Has("load") => \A i \in DOMAIN kept : kept[i] < item
  /\ Injective(kept)

RunInv == Typed /\ Flow

(* The lists of a run as functions on an interval.                         *)
LEMMA Shapes ==
  ASSUME Typed
  PROVE  /\ Len(samples) \in Nat \ {0} /\ DOMAIN samples = 1 .. Len(samples)
         /\ Len(kept) \in Nat /\ DOMAIN kept = 1 .. Len(kept)
         /\ \A i \in 1 .. Len(kept) : kept[i] \in DOMAIN samples
         /\ Len(results) \in Nat /\ DOMAIN results = 1 .. Len(results)
         /\ \A i \in 1 .. Len(results) : results[i] \in Rows
<1>1. samples \in Seq(Samples) /\ samples # <<>>
  BY DEF Typed, Listed
<1>2. kept \in Seq(DOMAIN samples)
  BY DEF Typed
<1>3. results \in Seq(Rows)
  BY DEF Typed
<1>4. Len(samples) \in Nat \ {0} /\ DOMAIN samples = 1 .. Len(samples)
  BY <1>1
<1>5. /\ Len(kept) \in Nat /\ DOMAIN kept = 1 .. Len(kept)
      /\ \A i \in 1 .. Len(kept) : kept[i] \in DOMAIN samples
  BY <1>2
<1>6. /\ Len(results) \in Nat /\ DOMAIN results = 1 .. Len(results)
      /\ \A i \in 1 .. Len(results) : results[i] \in Rows
  BY <1>3
<1> QED
  BY <1>4, <1>5, <1>6

(* The remainder of a division, and the sample of an item.                 *)
LEMMA Remainder ==
  ASSUME NEW n \in Nat \ {0}, NEW x \in Nat
  PROVE  /\ x % n \in 0 .. n - 1
         /\ x < n => x % n = x
OBVIOUS

LEMMA SourceIsKept ==
  ASSUME NEW S, kept \in Seq(S), kept # <<>>, NEW i \in Nat \ {0}
  PROVE  /\ ((i - 1) % Len(kept)) + 1 \in 1 .. Len(kept)
         /\ Source(i) \in S
         /\ i <= Len(kept) => Source(i) = kept[i]
<1>1. Len(kept) \in Nat \ {0} /\ i - 1 \in Nat
  OBVIOUS
<1>2. /\ (i - 1) % Len(kept) \in 0 .. Len(kept) - 1
      /\ i - 1 < Len(kept) => (i - 1) % Len(kept) = i - 1
  BY <1>1, Remainder
<1>3. ((i - 1) % Len(kept)) + 1 \in 1 .. Len(kept)
  BY <1>1, <1>2
<1> QED
  BY <1>1, <1>2, <1>3 DEF Source

(* A non-empty set of numbers has a least one.                             *)
LEMMA LeastNumber == ASSUME NEW T \in SUBSET Nat, T # {} PROVE \E x \in T : \A y \in T : x <= y
<1> DEFINE R == {ss \in Nat \X Nat : ss[1] < ss[2]}
<1>1. IsWellFoundedOn(R, Nat)
  BY NatLessThanWellFounded DEF OpToRel
<1>2. PICK x \in T : \A y \in T : ~ (<<y, x>> \in R)
  <2> HIDE DEF R
  <2> QED BY <1>1, WFMin, T \subseteq Nat
<1>3. x \in Nat /\ \A y \in T : y \in Nat
  OBVIOUS
<1>4. \A y \in T : ~(y < x)
  BY <1>2, <1>3
<1> QED
  BY <1>3, <1>4

(* A list in the order of its numbers, of all the elements of S.           *)
Ordered(list, S) ==
  /\ list \in [1 .. Cardinality(S) -> S]
  /\ \A i, j \in DOMAIN list : i < j => list[i] < list[j]

LEMMA OneMoreOrdered ==
  ASSUME NEW n \in Nat, NEW S \in SUBSET (1 .. n + 1), n + 1 \in S,
         NEW list, Ordered(list, S \ {n + 1})
  PROVE  \E longer : Ordered(longer, S)
<1> DEFINE c == Cardinality(S \ {n + 1})
           longer == [i \in 1 .. c + 1 |-> IF i <= c THEN list[i] ELSE n + 1]
<1>1. IsFiniteSet(S) /\ IsFiniteSet(S \ {n + 1})
  <2>1. IsFiniteSet(1 .. n + 1)
    BY FS_Interval
  <2> QED
    BY <2>1, FS_Subset, FS_RemoveElement
<1>2. c \in Nat /\ Cardinality(S) = c + 1
  <2>1. Cardinality(S \ {n + 1}) = Cardinality(S) - 1
    BY <1>1, FS_RemoveElement
  <2>2. Cardinality(S) \in Nat /\ c \in Nat
    BY <1>1, FS_CardinalityType
  <2> QED
    BY <2>1, <2>2
<1>3. list \in [1 .. c -> S \ {n + 1}] /\ \A i, j \in 1 .. c : i < j => list[i] < list[j]
  BY DEF Ordered
<1>4. ASSUME NEW i \in 1 .. c PROVE list[i] \in S /\ list[i] < n + 1
  <2>1. list[i] \in S \ {n + 1}
    BY <1>3
  <2>2. list[i] \in 1 .. n + 1 /\ list[i] # n + 1
    BY <2>1
  <2> QED
    BY <2>1, <2>2
<1>5. longer \in [1 .. Cardinality(S) -> S]
  BY <1>2, <1>4
<1>6. ASSUME NEW i \in 1 .. c + 1, NEW j \in 1 .. c + 1, i < j PROVE longer[i] < longer[j]
  <2>1. i \in 1 .. c /\ longer[i] = list[i]
    BY <1>2, <1>6
  <2>2. CASE j <= c
    <3>1. j \in 1 .. c /\ longer[j] = list[j]
      BY <1>2, <2>2
    <3>2. list[i] < list[j]
      BY <1>3, <1>6, <2>1, <3>1
    <3> QED
      BY <2>1, <3>1, <3>2
  <2>3. CASE ~(j <= c)
    BY <1>4, <2>1, <2>3
  <2> QED
    BY <2>2, <2>3
<1> HIDE DEF longer
<1>7. Ordered(longer, S)
  BY <1>2, <1>5, <1>6 DEF Ordered
<1> QED
  BY <1>7

(* Every set of numbers up to n can be put in order.                       *)
LEMMA OrderedExists ==
  ASSUME NEW n \in Nat, NEW S \in SUBSET (1 .. n)
  PROVE  \E list : Ordered(list, S)
<1> DEFINE Fine(k) == \A T \in SUBSET (1 .. k) : \E list : Ordered(list, T)
           Bad == {k \in Nat : ~Fine(k)}
<1>1. SUFFICES Bad = {}
  OBVIOUS
<1>2. SUFFICES ASSUME Bad # {} PROVE FALSE
  OBVIOUS
<1>3. PICK k \in Bad : \A y \in Bad : k <= y
  BY <1>2, LeastNumber
<1>4. CASE k = 0
  <2>1. PICK T \in SUBSET (1 .. k) : ~ \E list : Ordered(list, T)
    BY <1>3
  <2>2. T = {} /\ Cardinality(T) = 0
    <3>1. T = {}
      BY <1>4
    <3> QED
      BY <3>1, FS_EmptySet
  <2>3. Ordered(<<>>, T)
    BY <2>2 DEF Ordered
  <2> QED
    BY <2>1, <2>3
<1>5. CASE k # 0
  <2>1. k \in Nat /\ k - 1 \in Nat /\ (k - 1) + 1 = k
    BY <1>5
  <2>2. Fine(k - 1)
    BY <1>3, <2>1
  <2>3. PICK T \in SUBSET (1 .. k) : ~ \E list : Ordered(list, T)
    BY <1>3
  <2>4. T \ {k} \in SUBSET (1 .. k - 1)
    BY <2>1
  <2>5. PICK list : Ordered(list, T \ {k})
    BY <2>2, <2>4
  <2>6. CASE k \in T
    BY <2>1, <2>3, <2>5, <2>6, OneMoreOrdered
  <2>7. CASE k \notin T
    <3>1. T \ {k} = T
      BY <2>7
    <3> QED
      BY <2>3, <2>5, <3>1
  <2> QED
    BY <2>6, <2>7
<1> QED
  BY <1>4, <1>5

(* Some of the samples in their order: each of them once.                  *)
LEMMA InOrderListed ==
  ASSUME samples \in Seq(Samples), NEW S \in SUBSET DOMAIN samples
  PROVE  /\ InOrder(S) \in Seq(DOMAIN samples) /\ Injective(InOrder(S))
         /\ {InOrder(S)[i] : i \in DOMAIN InOrder(S)} = S
<1> DEFINE list == InOrder(S)
           c == Cardinality(S)
<1>1. Len(samples) \in Nat /\ DOMAIN samples = 1 .. Len(samples)
  OBVIOUS
<1>2. Ordered(list, S)
  <2>1. \E l : Ordered(l, S)
    BY <1>1, OrderedExists
  <2> QED
    BY <2>1 DEF Ordered, InOrder
<1> HIDE DEF list
<1>3. IsFiniteSet(S) /\ c \in Nat
  <2>1. IsFiniteSet(1 .. Len(samples))
    BY <1>1, FS_Interval
  <2>2. IsFiniteSet(S)
    BY <1>1, <2>1, FS_Subset
  <2> QED
    BY <2>2, FS_CardinalityType
<1>4. /\ list \in [1 .. c -> S] /\ DOMAIN list = 1 .. c
      /\ \A i, j \in 1 .. c : i < j => list[i] < list[j]
  BY <1>2 DEF Ordered
<1> HIDE DEF c
<1>5. \A i \in 1 .. c : list[i] \in S /\ list[i] \in Nat
  BY <1>1, <1>4
<1>6. \A i, j \in 1 .. c : list[i] = list[j] => i = j
  <2> SUFFICES ASSUME NEW i \in 1 .. c, NEW j \in 1 .. c, list[i] = list[j] PROVE i = j
    OBVIOUS
  <2>1. list[i] \in Nat /\ ~(list[i] < list[j]) /\ ~(list[j] < list[i])
    BY <1>5
  <2>2. ~(i < j) /\ ~(j < i)
    BY <1>4, <2>1
  <2> QED
    BY <1>3, <2>2
<1>7. list \in Seq(DOMAIN samples)
  <2>1. list \in [1 .. c -> DOMAIN samples]
    BY <1>4
  <2> QED
    BY <1>3, <2>1
<1>8. \A s \in S : \E i \in 1 .. c : list[i] = s
  <2>1. list \in Injection(1 .. c, S)
    BY <1>4, <1>6 DEF Injection, IsInjective
  <2>2. Cardinality(1 .. c) = Cardinality(S)
    <3>1. Cardinality(1 .. c) = c
      BY <1>3, FS_Interval
    <3> QED
      BY <3>1 DEF c
  <2>3. list \in Surjection(1 .. c, S)
    BY <1>3, <2>1, <2>2, FS_Injection
  <2> QED
    BY <2>3 DEF Surjection
<1>9. {list[i] : i \in DOMAIN list} = S
  BY <1>4, <1>5, <1>8
<1>10. Injective(list)
  BY <1>4, <1>6 DEF Injective
<1> QED
  BY <1>7, <1>9, <1>10 DEF list

LEMMA ImagesListed ==
  ASSUME samples \in Seq(Samples)
  PROVE  /\ Images \in Seq(DOMAIN samples) /\ Injective(Images)
         /\ {Images[i] : i \in DOMAIN Images} = ImageSet
<1>1. ImageSet \in SUBSET DOMAIN samples
  BY DEF ImageSet
<1> HIDE DEF ImageSet
<1> QED
  BY <1>1, InOrderListed DEF Images

-----------------------------------------------------------------------------
(* The types and the flow are kept by every step.                          *)

(* Nothing that a step reads of the run but never changes.                 *)
LEMMA SameRun ==
  ASSUME UNCHANGED given
  PROVE  /\ plugin' = plugin /\ (Cleaning' <=> Cleaning) /\ (Compares' <=> Compares)
         /\ (Has("load")' <=> Has("load")) /\ (Picked' <=> Picked)
BY DEF plugin, Cleaning, Compares, Has, Picked

LEMMA AllSamples ==
  ASSUME samples \in Seq(Samples), samples # <<>>
  PROVE  /\ All \in Seq(DOMAIN samples) /\ All # <<>> /\ Injective(All)
         /\ {All[i] : i \in DOMAIN All} = DOMAIN samples
<1>1. Len(samples) \in Nat \ {0} /\ DOMAIN samples = 1 .. Len(samples)
  OBVIOUS
<1>2. All \in [1 .. Len(samples) -> DOMAIN samples] /\ \A i \in 1 .. Len(samples) : All[i] = i
  BY <1>1 DEF All
<1>3. All \in Seq(DOMAIN samples) /\ Len(All) = Len(samples)
  BY <1>1, <1>2
<1> QED
  BY <1>1, <1>2, <1>3 DEF Injective

LEMMA AppendKept ==
  ASSUME NEW S, NEW k \in Seq(S), NEW x \in S
  PROVE  /\ Append(k, x) \in Seq(S) /\ Append(k, x) # <<>>
         /\ Len(Append(k, x)) = Len(k) + 1 /\ Len(k) \in Nat
         /\ DOMAIN Append(k, x) = 1 .. Len(k) + 1 /\ DOMAIN k = 1 .. Len(k)
         /\ \A i \in 1 .. Len(k) : Append(k, x)[i] = k[i]
         /\ Append(k, x)[Len(k) + 1] = x
BY AppendProperties, LenProperties

LEMMA ASample ==
  ASSUME NEW state \in States, NEW name \in 1 .. 2, NEW content \in 1 .. 3
  PROVE  \A labelled \in {TRUE, FALSE} : Sample(state, name, content, labelled) \in Samples
BY DEF Sample, Samples

LEMMA RunBegins == MCInit => RunInv
<1> SUFFICES ASSUME MCInit PROVE RunInv
  OBVIOUS
<1>1. /\ pc = "opening" /\ item = 1 /\ kept = <<>> /\ results = <<>> /\ cancel = Never /\ Silent
      /\ learned = FALSE
  BY DEF MCInit, Init, Silent
<1>2. PICK p \in Plugins, machine \in Machines :
         \/ /\ samples \in AnyContents \union AnyStates(p)
            /\ given = [plugin |-> p, target |-> Target, choice |-> NoChoice, machine |-> machine]
         \/ /\ samples \in OneGood
            /\ \E c \in Choices(p) :
                 given = [plugin |-> p, target |-> 1, choice |-> c, machine |-> machine]
  BY DEF MCInit
<1>3. plugin \in Plugins /\ given.target \in Nat \ {0}
  BY <1>2, RunAssumption DEF plugin
<1>4. ASSUME NEW S, NEW n \in Nat, NEW list \in Lists(n, S) PROVE list \in Seq(S) /\ list # <<>>
  <2>1. PICK k \in 1 .. n : list \in [1 .. k -> S]
    BY <1>4 DEF Lists
  <2>2. list \in Seq(S) /\ Len(list) = k
    BY <2>1
  <2> QED
    BY <2>1, <2>2
<1>5. samples \in Seq(Samples) /\ samples # <<>>
  <2>1. CASE samples \in AnyContents
    <3> DEFINE S == {Sample("good", 1, c, FALSE) : c \in 1 .. 3}
    <3>1. \A x \in S : x \in Samples
      <4> SUFFICES ASSUME NEW c \in 1 .. 3 PROVE Sample("good", 1, c, FALSE) \in Samples
        OBVIOUS
      <4> QED
        BY DEF Sample, Samples, States
    <3>2. samples \in Lists(MaxAlike, S)
      BY <2>1 DEF AnyContents
    <3> HIDE DEF S
    <3>3. samples \in Seq(S) /\ samples # <<>>
      BY <1>4, <3>2, RunAssumption
    <3> QED
      BY <3>1, <3>3
  <2>2. CASE samples \in AnyStates(p)
    <3> DEFINE states == {"good", "plain", "broken", "empty", "other"}
               names == IF p.category = "cleaning" THEN 1 .. 2 ELSE {1}
               labels == IF p \in {WganGpImage, UserWganGpImage} THEN BOOLEAN ELSE {FALSE}
               S == {Sample(state, name, 1, labelled) :
                      state \in states, name \in names, labelled \in labels}
    <3>1. \A x \in S : x \in Samples
      <4>1. \A state \in states : state \in States
        BY DEF States
      <4>2. \A name \in names : name \in 1 .. 2
        OBVIOUS
      <4>3. \A labelled \in labels : labelled \in {TRUE, FALSE}
        BY Zenon
      <4>4. 1 \in 1 .. 3
        OBVIOUS
      <4> HIDE DEF states, names, labels
      <4>5. \A state \in states, name \in names, labelled \in labels :
              Sample(state, name, 1, labelled) \in Samples
        BY <4>1, <4>2, <4>3, <4>4, ASample, Zenon
      <4> QED
        BY <4>5
    <3>2. samples \in Lists(MaxSamples, S)
      BY <2>2 DEF AnyStates
    <3> HIDE DEF S
    <3>3. samples \in Seq(S) /\ samples # <<>>
      BY <1>4, <3>2, RunAssumption
    <3> QED
      BY <3>1, <3>3
  <2>3. CASE samples \in OneGood
    <3>1. Sample("good", 1, 1, FALSE) \in Samples
      BY DEF Sample, Samples, States
    <3>2. PICK x : x \in Samples /\ samples = <<x>>
      BY <2>3, <3>1, Zenon DEF OneGood
    <3> QED
      BY <3>2
  <2> QED
    BY <1>2, <2>1, <2>2, <2>3
<1>6. <<>> \in Seq(DOMAIN samples) /\ <<>> \in Seq(Rows)
  OBVIOUS
<1>7. Typed
  <2>1. Picked
    BY <1>3 DEF Picked
  <2>2. Placed
    <3>1. item \in Nat \ {0} /\ cancel \in Nat \union {Never}
      BY <1>1
    <3> QED
      BY <1>1, <3>1 DEF Placed, Places
  <2>3. Listed
    BY <1>5 DEF Listed
  <2> QED
    BY <1>1, <1>6, <2>1, <2>2, <2>3 DEF Typed
<1>8. Flow
  <2>1. Injective(kept)
    BY <1>1 DEF Injective
  <2> QED
    BY <1>1, <2>1 DEF Flow
<1> QED
  BY <1>7, <1>8 DEF RunInv

(* A step that ends the run leaves its lists alone, and one that waits     *)
(* only moves on.                                                          *)
LEMMA EndStep ==
  ASSUME RunInv, pc' = "done", UNCHANGED <<given, samples, progress, cancel>>
  PROVE  RunInv'
<1>1. UNCHANGED <<given, samples, item, kept, learned, results, disk, cancel>>
  BY DEF progress
<1>2. Picked' /\ Listed' /\ kept' \in Seq(DOMAIN samples') /\ results' \in Seq(Rows)
  BY <1>1, SameRun DEF RunInv, Typed, Listed
<1>3. Placed'
  BY <1>1 DEF RunInv, Typed, Placed, Places
<1>4. Flow'
  BY <1>1, SameRun DEF RunInv, Flow, Injective
<1> QED
  BY <1>2, <1>3, <1>4 DEF RunInv, Typed

LEMMA OpenStep == ASSUME RunInv, Open, UNCHANGED <<given, samples, cancel>> PROVE RunInv'
<1>0. Typed /\ Flow /\ PluginOK
  BY ThisPlugin DEF RunInv, Typed, Picked
<1>1. pc = "opening" /\ results = <<>> /\ item = 1 /\ kept = <<>> /\ Silent
  BY <1>0 DEF Open, Flow, Typed, Placed
<1>2. CASE pc' = "done" /\ UNCHANGED progress
  BY <1>2, EndStep
<1>3. CASE /\ Refusal = ""
           /\ Goto(IF Loads THEN "loading" ELSE "polling")
           /\ kept' = IF Has("load") THEN <<>> ELSE IF Has("images") THEN Images ELSE All
           /\ UNCHANGED <<item, learned, results, disk>>
  <2>1. /\ pc' \in {"loading", "polling"} /\ Silent'
        /\ item' = 1 /\ results' = <<>> /\ learned' = FALSE
    BY <1>0, <1>1, <1>3 DEF Goto, Silent, Flow
  <2>2. ~(Has("images") /\ Images = <<>>)
    BY <1>3 DEF Refusal
  <2>3. samples \in Seq(Samples) /\ samples # <<>>
    BY <1>0 DEF Typed, Listed
  <2>4. kept' \in Seq(DOMAIN samples) /\ Injective(kept')
    <3>1. <<>> \in Seq(DOMAIN samples) /\ Injective(<<>>)
      BY DEF Injective
    <3> QED
      BY <1>3, <2>3, <3>1, ImagesListed, AllSamples
  <2>5. ~Cleaning => kept' # <<>>
    BY <1>0, <1>3, <2>2, <2>3, AllSamples DEF PluginOK
  <2>6. Has("load") => \A i \in DOMAIN kept' : kept'[i] < item'
    <3>1. Has("load") => kept' = <<>>
      BY <1>3
    <3> QED
      BY <3>1
  <2>7. Placed'
    <3>1. item' \in Nat \ {0} /\ cancel' \in Nat \union {Never}
      BY <1>0, <2>1 DEF Typed, Placed
    <3> QED
      BY <2>1, <3>1 DEF Placed, Places
  <2>8. Picked' /\ Listed' /\ results' \in Seq(Rows)
    <3>1. <<>> \in Seq(Rows)
      OBVIOUS
    <3> QED
      BY <1>0, <2>1, <2>3, <3>1, SameRun DEF Typed, Listed
  <2>9. Flow'
    BY <2>1, <2>4, <2>5, <2>6, SameRun DEF Flow
  <2> QED
    BY <2>4, <2>7, <2>8, <2>9 DEF RunInv, Typed
<1> QED
  BY <1>2, <1>3 DEF Open, End

LEMMA LoadStep == ASSUME RunInv, Load, UNCHANGED <<given, samples, cancel>> PROVE RunInv'
<1>0. Typed /\ Flow /\ PluginOK
  BY ThisPlugin DEF RunInv, Typed, Picked
<1>1. pc = "loading" /\ results = <<>> /\ Has("load") /\ Cleaning /\ Silent
  BY <1>0 DEF Load, Flow, PluginOK, Typed, Placed
<1>2. CASE pc' = "done" /\ UNCHANGED progress
  BY <1>2, EndStep
<1>3. Picked' /\ Listed' /\ results \in Seq(Rows) /\ samples' = samples
  BY <1>0, SameRun DEF Typed, Listed
<1>4. item \in Nat \ {0} /\ cancel' \in Nat \union {Never}
  BY <1>0 DEF Typed, Placed
<1>5. CASE /\ item <= Len(samples)
           /\ kept' = IF item \in Readable THEN Append(kept, item) ELSE kept
           /\ item' = item + 1
           /\ Goto("loading") /\ UNCHANGED <<learned, results, disk>>
  <2>1. item \in DOMAIN samples /\ item' \in Nat \ {0} /\ item < item'
    BY <1>0, <1>4, <1>5, Shapes
  <2>2. /\ kept \in Seq(DOMAIN samples) /\ Injective(kept)
        /\ \A i \in DOMAIN kept : kept[i] < item
    BY <1>0, <1>1 DEF Typed, Flow
  <2>3. DOMAIN kept = 1 .. Len(kept) /\ \A i \in DOMAIN kept : kept[i] \in Nat
    BY <1>0, Shapes
  <2>4. /\ kept' \in Seq(DOMAIN samples) /\ Injective(kept')
        /\ \A i \in DOMAIN kept' : kept'[i] < item'
    <3>1. CASE kept' = kept
      BY <1>4, <2>1, <2>2, <2>3, <3>1
    <3>2. CASE kept' = Append(kept, item)
      <4>1. /\ kept' \in Seq(DOMAIN samples) /\ Len(kept) \in Nat
            /\ DOMAIN kept' = 1 .. Len(kept) + 1 /\ DOMAIN kept = 1 .. Len(kept)
            /\ \A i \in 1 .. Len(kept) : kept'[i] = kept[i]
            /\ kept'[Len(kept) + 1] = item
        BY <2>1, <2>2, <3>2, AppendKept
      <4> HIDE <3>2
      <4>2. ASSUME NEW i \in DOMAIN kept' PROVE kept'[i] < item'
        <5>1. CASE i = Len(kept) + 1
          BY <2>1, <4>1, <5>1
        <5>2. CASE i \in 1 .. Len(kept)
          BY <1>4, <2>1, <2>2, <2>3, <4>1, <5>2
        <5> QED
          BY <4>1, <5>1, <5>2
      <4>3. ASSUME NEW i \in DOMAIN kept', NEW j \in DOMAIN kept', kept'[i] = kept'[j] PROVE i = j
        <5>1. \A x \in 1 .. Len(kept) : kept'[x] < item
          BY <2>2, <4>1
        <5>2. CASE i \in 1 .. Len(kept) /\ j \in 1 .. Len(kept)
          BY <2>2, <4>1, <4>3, <5>2 DEF Injective
        <5>3. CASE i = Len(kept) + 1 \/ j = Len(kept) + 1
          BY <1>4, <4>1, <4>3, <5>1, <5>3
        <5> QED
          BY <4>1, <5>2, <5>3
      <4> QED
        BY <4>1, <4>2, <4>3 DEF Injective
    <3> QED
      BY <1>5, <3>1, <3>2
  <2>5. pc' = "loading" /\ Silent' /\ results' = results /\ learned' = FALSE
    BY <1>0, <1>1, <1>5 DEF Goto, Silent, Flow
  <2>6. Placed'
    BY <1>4, <2>1, <2>5 DEF Placed, Places
  <2>7. Flow'
    BY <1>1, <2>4, <2>5, SameRun DEF Flow
  <2> QED
    BY <1>3, <2>4, <2>5, <2>6, <2>7 DEF RunInv, Typed
<1>6. CASE /\ item' = 1
           /\ Goto("polling") /\ UNCHANGED <<kept, learned, results, disk>>
  <2>1. pc' = "polling" /\ Silent' /\ UNCHANGED <<kept, results>> /\ item' = 1
    BY <1>1, <1>6 DEF Goto, Silent
  <2>2. Placed'
    <3>1. item' \in Nat \ {0}
      BY <2>1
    <3> QED
      BY <1>4, <2>1, <3>1 DEF Placed, Places
  <2>3. Flow'
    BY <1>0, <1>1, <2>1, SameRun DEF Flow
  <2> QED
    BY <1>0, <1>3, <2>1, <2>2, <2>3 DEF RunInv, Typed
<1> QED
  BY <1>2, <1>5, <1>6 DEF Load, End

(* What is gone round after learning: some of what was loaded, each once,  *)
(* and the labelled ones of it when they are wanted and there are any.     *)
LEMMA KeptAfterLearning ==
  ASSUME Typed, Injective(kept)
  PROVE  /\ AfterLearning \in Seq(DOMAIN samples) /\ Injective(AfterLearning)
         /\ {AfterLearning[i] : i \in DOMAIN AfterLearning} =
              IF Has("labelled") /\ Labelled # {} THEN Labelled ELSE Loaded
         /\ kept # <<>> => AfterLearning # <<>>
<1>1. samples \in Seq(Samples) /\ kept \in Seq(DOMAIN samples)
  BY DEF Typed, Listed
<1>2. Labelled \in SUBSET DOMAIN samples
  BY Shapes DEF Labelled, Loaded
<1>3. CASE Has("labelled") /\ Labelled # {}
  <2>1. AfterLearning = InOrder(Labelled)
    BY <1>3 DEF AfterLearning
  <2> HIDE DEF Labelled
  <2>2. /\ InOrder(Labelled) \in Seq(DOMAIN samples) /\ Injective(InOrder(Labelled))
        /\ {InOrder(Labelled)[i] : i \in DOMAIN InOrder(Labelled)} = Labelled
    BY <1>1, <1>2, InOrderListed
  <2>3. AfterLearning # <<>>
    BY <1>3, <2>1, <2>2
  <2> QED
    BY <1>3, <2>1, <2>2, <2>3
<1>4. CASE ~(Has("labelled") /\ Labelled # {})
  <2>1. AfterLearning = kept
    BY <1>4 DEF AfterLearning
  <2> QED
    BY <1>1, <1>4, <2>1 DEF Loaded
<1> QED
  BY <1>3, <1>4

LEMMA WaitStep ==
  ASSUME RunInv, LoadAll \/ Learn \/ Poll, UNCHANGED <<given, samples, cancel>>
  PROVE  RunInv'
<1>0. Typed /\ Flow /\ PluginOK
  BY ThisPlugin DEF RunInv, Typed, Picked
<1>1. CASE pc' = "done"
  <2>1. UNCHANGED progress
    BY <1>1 DEF LoadAll, Learn, Poll, End, Goto
  <2> QED
    BY <1>1, <2>1, EndStep
<1>2. CASE pc' # "done"
  <2>1. /\ UNCHANGED <<answer, item, results>> /\ pc # "done"
        /\ \/ /\ pc = "loading" /\ pc' \in {"polling", "learning"}
              /\ kept' = kept /\ learned' = learned
           \/ pc = "learning" /\ pc' = "polling" /\ kept' = AfterLearning
           \/ pc = "polling" /\ pc' = "working" /\ item <= Items /\ kept' = kept
    <3>1. CASE LoadAll
      BY <1>2, <3>1 DEF LoadAll, End, Goto, progress
    <3>2. CASE Learn
      BY <1>2, <3>2 DEF Learn, End, Goto, progress
    <3>3. CASE Poll
      BY <1>2, <3>3 DEF Poll, End, Goto, progress
    <3> QED
      BY <3>1, <3>2, <3>3
  <2>2. /\ kept' \in Seq(DOMAIN samples) /\ Injective(kept')
        /\ pc \in {"loading", "learning", "polling"} /\ ~Cleaning => kept' # <<>>
    <3>1. CASE kept' = kept
      BY <1>0, <3>1 DEF Typed, Flow
    <3>2. CASE pc = "learning" /\ kept' = AfterLearning
      BY <1>0, <3>2, KeptAfterLearning DEF RunInv, Flow
    <3> QED
      BY <2>1, <3>1, <3>2
  <2>3. pc' = "working" => item <= Items'
    BY <2>1, SameRun DEF Items
  <2>4. Placed'
    BY <1>0, <2>1 DEF Typed, Placed, Places, Silent
  <2>5. Flow'
    BY <1>0, <2>1, <2>2, <2>3, SameRun DEF Flow
  <2>6. Picked' /\ Listed' /\ kept' \in Seq(DOMAIN samples') /\ results' \in Seq(Rows)
    BY <1>0, <2>1, <2>2, SameRun DEF Typed, Listed
  <2> QED
    BY <2>4, <2>5, <2>6 DEF RunInv, Typed
<1> QED
  BY <1>1, <1>2

-----------------------------------------------------------------------------
(* The work on one item ends the run, passes over the item, or hands a row *)
(* to the task.                                                            *)
This == Source(item)
WorkEnds ==
  /\ pc' = "done" /\ UNCHANGED progress
  /\ \E way \in Ways(This) : way \notin {"make", "claim", "review", "skip"}
WorkSkips == "skip" \in Ways(This) /\ Continue(results, disk)
WorkHands(row) ==
  /\ row \in Rows /\ row.of = This /\ row.item = item
  /\ Compares => row.like \in Twin(item)
  /\ \/ row.file = 0 /\ Continue(Append(results, row), disk)
     \/ row.file = FileOf(item, This) /\ Continue(Append(results, row), Written(row.file, item))
     \/ /\ row.file = FileOf(item, This) /\ "claim" \in Ways(This)
        /\ Continue(Append(results, row), disk)

LEMMA ThisIsASample ==
  ASSUME RunInv, pc = "working"
  PROVE  /\ kept # <<>> /\ item \in Nat \ {0}
         /\ This \in DOMAIN samples /\ This \in Nat
         /\ Cleaning => item <= Len(kept) /\ This = kept[item]
<1>1. Typed /\ Flow
  BY DEF RunInv
<1>2. kept \in Seq(DOMAIN samples) /\ item \in Nat \ {0}
  BY <1>1 DEF Typed, Placed
<1>3. Cleaning => item <= Len(kept)
  BY <1>1 DEF Flow, Items
<1>4. kept # <<>>
  <2>1. CASE Cleaning
    BY <1>2, <1>3, <2>1
  <2>2. CASE ~Cleaning
    BY <1>1, <2>2 DEF Flow
  <2> QED
    BY <2>1, <2>2
<1>5. This \in DOMAIN samples /\ (item <= Len(kept) => This = kept[item])
  BY <1>2, <1>4, SourceIsKept DEF This
<1>6. DOMAIN samples = 1 .. Len(samples) /\ Len(samples) \in Nat
  BY <1>1, Shapes
<1> QED
  BY <1>2, <1>3, <1>4, <1>5, <1>6

LEMMA FirstsAreSamples ==
  ASSUME RunInv, pc = "working"
  PROVE  Compares => \A t \in Twin(item) : t \in Nat
<1> SUFFICES ASSUME Compares, NEW t \in Twin(item) PROVE t \in Nat
  OBVIOUS
<1>1. Typed /\ Flow /\ PluginOK
  BY ThisPlugin DEF RunInv, Typed, Picked
<1>2. Cleaning /\ item <= Len(kept) /\ item \in Nat \ {0}
  BY <1>1, ThisIsASample DEF PluginOK
<1>3. PICK j \in 1 .. item - 1 : t = kept[j]
  BY DEF Twin, Firsts
<1>4. j \in 1 .. Len(kept) /\ kept[j] \in DOMAIN samples
  BY <1>1, <1>2, Shapes
<1> QED
  BY <1>1, <1>3, <1>4, Shapes

(* A comparison hands a row only when it found one that looks the same.    *)
LEMMA ComparedAlike ==
  ASSUME RunInv, pc = "working", Compares, NEW way \in Ways(This)
  PROVE  way = "skip" \/ (way = "make" /\ Twin(item) # {})
<1>1. PluginOK
  BY ThisPlugin DEF RunInv, Typed, Picked
<1>2. ~Writes
  BY <1>1 DEF PluginOK
<1>3. Reaction(This) = IF Twin(item) = {} THEN "skip" ELSE "make"
  BY DEF Reaction
<1>4. Ways(This) = {Reaction(This)}
  BY <1>2, <1>3 DEF Ways
<1> QED
  BY <1>3, <1>4

LEMMA HandedRow ==
  ASSUME RunInv, pc = "working", NEW file \in {0, FileOf(item, This)},
         NEW action \in {plugin.action, "review"}, NEW way \in Ways(This), way # "skip"
  PROVE  LET row == Result(This, file, action)
         IN  /\ row \in Rows /\ row.of = This /\ row.item = item /\ row.file = file
             /\ Compares => row.like \in Twin(item)
<1> DEFINE row == Result(This, file, action)
<1>1. Typed /\ PluginOK
  BY ThisPlugin DEF RunInv, Typed, Picked
<1>2. action \in {"make", "delete", "repair", "review"}
  BY <1>1 DEF PluginOK
<1>3. item \in Nat /\ This \in Nat /\ This \in DOMAIN samples
  BY ThisIsASample
<1>4. file \in Nat
  <2>1. samples[This] \in Samples
    BY <1>1, <1>3 DEF Typed, Listed
  <2>2. samples[This].name \in Nat
    BY <2>1 DEF Samples
  <2> QED
    BY <1>3, <2>2 DEF FileOf
<1>5. Compares => (CHOOSE t \in Twin(item) : TRUE) \in Twin(item)
  BY ComparedAlike
<1>6. row.like \in Nat /\ (Compares => row.like \in Twin(item))
  BY <1>5, FirstsAreSamples DEF Result
<1>7. row.of = This /\ row.item = item /\ row.file = file /\ row.action = action
  BY DEF Result
<1>8. row \in Rows
  <2>1. row = [of |-> row.of, item |-> row.item, file |-> row.file, action |-> row.action,
               like |-> row.like]
    BY DEF Result
  <2> HIDE DEF row
  <2> QED
    BY <1>2, <1>3, <1>4, <1>6, <1>7, <2>1 DEF Rows
<1> QED
  BY <1>6, <1>7, <1>8

LEMMA WorkCases ==
  ASSUME RunInv, Work
  PROVE  pc = "working" /\ (WorkEnds \/ WorkSkips \/ \E row : WorkHands(row))
<1>1. pc = "working"
  BY DEF Work
<1>2. PICK way \in Ways(This) :
         \/ /\ way = "make" /\ Writes
            /\ Hand(This, FileOf(item, This), plugin.action, Written(FileOf(item, This), item))
         \/ way = "make" /\ ~Writes /\ Hand(This, 0, plugin.action, disk)
         \/ way = "claim" /\ Hand(This, FileOf(item, This), plugin.action, disk)
         \/ way = "review" /\ Hand(This, 0, "review", disk)
         \/ way = "skip" /\ Continue(results, disk)
         \/ way = "raise" /\ End("raised")
         \/ way \notin {"make", "claim", "review", "skip", "raise"} /\ End(way)
  BY DEF Work, This
<1>3. CASE /\ way = "make"
           /\ Hand(This, FileOf(item, This), plugin.action, Written(FileOf(item, This), item))
  <2>1. PICK row : row = Result(This, FileOf(item, This), plugin.action)
    OBVIOUS
  <2>2. /\ row \in Rows /\ row.of = This /\ row.item = item /\ row.file = FileOf(item, This)
        /\ Compares => row.like \in Twin(item)
    BY <1>1, <1>3, <2>1, HandedRow
  <2>3. Continue(Append(results, row), Written(row.file, item))
    BY <1>3, <2>1, <2>2 DEF Hand
  <2>4. WorkHands(row)
    BY <2>2, <2>3 DEF WorkHands
  <2> QED
    BY <1>1, <2>4
<1>4. CASE way = "make" /\ Hand(This, 0, plugin.action, disk)
  <2>1. PICK row : row = Result(This, 0, plugin.action)
    OBVIOUS
  <2>2. /\ row \in Rows /\ row.of = This /\ row.item = item /\ row.file = 0
        /\ Compares => row.like \in Twin(item)
    BY <1>1, <1>4, <2>1, HandedRow
  <2>3. Continue(Append(results, row), disk)
    BY <1>4, <2>1, <2>2 DEF Hand
  <2>4. WorkHands(row)
    BY <2>2, <2>3 DEF WorkHands
  <2> QED
    BY <1>1, <2>4
<1>5. CASE way = "claim" /\ Hand(This, FileOf(item, This), plugin.action, disk)
  <2>1. PICK row : row = Result(This, FileOf(item, This), plugin.action)
    OBVIOUS
  <2>2. /\ row \in Rows /\ row.of = This /\ row.item = item /\ row.file = FileOf(item, This)
        /\ Compares => row.like \in Twin(item)
    BY <1>1, <1>5, <2>1, HandedRow
  <2>3. Continue(Append(results, row), disk)
    BY <1>5, <2>1, <2>2 DEF Hand
  <2>4. WorkHands(row)
    BY <1>5, <2>2, <2>3 DEF WorkHands
  <2> QED
    BY <1>1, <2>4
<1>6. CASE way = "review" /\ Hand(This, 0, "review", disk)
  <2>1. PICK row : row = Result(This, 0, "review")
    OBVIOUS
  <2>2. /\ row \in Rows /\ row.of = This /\ row.item = item /\ row.file = 0
        /\ Compares => row.like \in Twin(item)
    BY <1>1, <1>6, <2>1, HandedRow
  <2>3. Continue(Append(results, row), disk)
    BY <1>6, <2>1, <2>2 DEF Hand
  <2>4. WorkHands(row)
    BY <2>2, <2>3 DEF WorkHands
  <2> QED
    BY <1>1, <2>4
<1>7. CASE way = "skip" /\ Continue(results, disk)
  BY <1>1, <1>7 DEF WorkSkips
<1>8. CASE way \notin {"make", "claim", "review", "skip"} /\ pc' = "done" /\ UNCHANGED progress
  BY <1>1, <1>8 DEF WorkEnds
<1> QED
  BY <1>2, <1>3, <1>4, <1>5, <1>6, <1>7, <1>8 DEF End

(* What the three have in common.                                          *)
LEMMA Continued ==
  ASSUME NEW r, NEW d, Continue(r, d)
  PROVE  /\ pc' = "polling" /\ item' = item + 1 /\ results' = r /\ disk' = d
         /\ UNCHANGED <<kept, learned, answer>>
BY DEF Continue

LEMMA HandedOn ==
  ASSUME NEW row, WorkHands(row)
  PROVE  /\ pc' = "polling" /\ item' = item + 1 /\ UNCHANGED <<kept, learned, answer>>
         /\ row \in Rows /\ results' = Append(results, row)
BY DEF WorkHands, Continue

LEMMA SkippedOn ==
  ASSUME WorkSkips
  PROVE  /\ pc' = "polling" /\ item' = item + 1 /\ UNCHANGED <<kept, learned, answer>>
         /\ results' = results /\ disk' = disk
BY DEF WorkSkips, Continue

LEMMA WorkStep == ASSUME RunInv, Work, UNCHANGED <<given, samples, cancel>> PROVE RunInv'
<1>0. Typed /\ Flow /\ pc = "working"
  BY WorkCases DEF RunInv
<1>1. CASE WorkEnds
  BY <1>1, EndStep DEF WorkEnds
<1>2. CASE /\ pc' = "polling" /\ item' = item + 1 /\ UNCHANGED <<kept, learned, answer>>
           /\ results' \in Seq(Rows)
  <2>1. Placed'
    <3>1. item' \in Nat \ {0} /\ pc # "done"
      BY <1>0, <1>2 DEF Typed, Placed
    <3> QED
      BY <1>0, <1>2, <3>1 DEF Typed, Placed, Places, Silent
  <2>2. Picked' /\ Listed' /\ kept' \in Seq(DOMAIN samples')
    BY <1>0, <1>2, SameRun DEF Typed, Listed
  <2>3. Flow'
    BY <1>0, <1>2, SameRun DEF Flow
  <2> QED
    BY <1>2, <2>1, <2>2, <2>3 DEF RunInv, Typed
<1>3. results \in Seq(Rows)
  BY <1>0 DEF Typed
<1>4. CASE WorkSkips
  BY <1>2, <1>3, <1>4, SkippedOn
<1>5. ASSUME NEW row, WorkHands(row) PROVE RunInv'
  <2>1. Append(results, row) \in Seq(Rows)
    BY <1>3, <1>5, HandedOn, AppendKept
  <2> QED
    BY <1>2, <1>5, <2>1, HandedOn
<1> QED
  BY <1>1, <1>4, <1>5, WorkCases

(* The user's cancel, and a file that goes away.                           *)
LEMMA Vanished ==
  ASSUME Listed, NEW s \in DOMAIN samples, Vanish(s)
  PROVE  /\ Listed' /\ DOMAIN samples' = DOMAIN samples /\ Len(samples') = Len(samples)
         /\ \A t \in DOMAIN samples :
              /\ samples'[t].name = samples[t].name /\ samples'[t].content = samples[t].content
              /\ samples'[t].labelled = samples[t].labelled
              /\ samples'[t].state \in {samples[t].state, "missing"}
<1>1. samples \in Seq(Samples) /\ samples # <<>>
  BY DEF Listed
<1>2. samples' = [samples EXCEPT ![s].state = "missing"]
  BY DEF Vanish
<1>3. \A t \in DOMAIN samples : samples[t] \in Samples
  BY <1>1
<1>4. ASSUME NEW t \in DOMAIN samples
      PROVE  /\ samples'[t] \in Samples
             /\ samples'[t].name = samples[t].name /\ samples'[t].content = samples[t].content
             /\ samples'[t].labelled = samples[t].labelled
             /\ samples'[t].state \in {samples[t].state, "missing"}
  <2>1. CASE t = s
    <3>1. samples'[t] = [samples[t] EXCEPT !.state = "missing"]
      BY <1>2, <2>1
    <3> QED
      BY <1>3, <3>1 DEF Samples, States
  <2>2. CASE t # s
    <3>1. samples'[t] = samples[t]
      BY <1>2, <2>2
    <3> QED
      BY <1>3, <3>1
  <2> QED
    BY <2>1, <2>2
<1>5. /\ DOMAIN samples' = DOMAIN samples
      /\ DOMAIN samples = 1 .. Len(samples) /\ Len(samples) \in Nat
  BY <1>1, <1>2
<1>6. samples' \in [1 .. Len(samples) -> Samples]
  <2>1. samples' = [t \in DOMAIN samples |-> samples'[t]]
    BY <1>2
  <2> QED
    BY <1>4, <1>5, <2>1
<1>7. samples' \in Seq(Samples) /\ Len(samples') = Len(samples)
  BY <1>5, <1>6
<1>8. samples' # <<>>
  BY <1>1, <1>7
<1> QED
  BY <1>4, <1>5, <1>7, <1>8 DEF Listed

LEMMA OutsideStep ==
  ASSUME RunInv, RequestCancel \/ (\E s \in DOMAIN samples : Vanish(s))
  PROVE  RunInv'
<1>0. Typed /\ Flow
  BY DEF RunInv
<1>1. /\ UNCHANGED <<given, pc, item, kept, learned, results, disk, answer>>
      /\ DOMAIN samples' = DOMAIN samples /\ Listed'
      /\ cancel' \in Nat \union {Never}
  <2>1. CASE RequestCancel
    BY <1>0, <2>1, Shapes DEF RequestCancel, progress, Typed, Listed
  <2>2. ASSUME NEW s \in DOMAIN samples, Vanish(s)
        PROVE  /\ UNCHANGED <<given, pc, item, kept, learned, results, disk, answer>>
               /\ DOMAIN samples' = DOMAIN samples /\ Listed'
               /\ cancel' \in Nat \union {Never}
    BY <1>0, <2>2, Vanished DEF Vanish, progress, Typed, Placed
  <2> QED
    BY <2>1, <2>2
<1>2. Placed'
  BY <1>0, <1>1 DEF Typed, Placed, Silent
<1>3. Items' = Items
  BY <1>1, SameRun DEF Items
<1>4. Flow'
  BY <1>0, <1>1, <1>3, SameRun DEF Flow
<1>5. Picked' /\ kept' \in Seq(DOMAIN samples') /\ results' \in Seq(Rows)
  BY <1>0, <1>1, SameRun DEF Typed
<1> QED
  BY <1>1, <1>2, <1>4, <1>5 DEF RunInv, Typed

LEMMA RunKept == ASSUME RunInv, [Next]_vars PROVE RunInv'
<1>1. CASE Step
  BY <1>1, OpenStep, LoadStep, WaitStep, WorkStep DEF Step
<1>2. CASE UNCHANGED vars
  <2>1. UNCHANGED <<given, samples, pc, item, kept, learned, results, disk, cancel, answer>>
    BY <1>2 DEF vars, progress
  <2>2. Typed'
    BY <2>1, SameRun DEF RunInv, Typed, Listed, Placed, Silent
  <2>3. Flow'
    <3>1. Items' = Items
      BY <2>1, SameRun DEF Items
    <3> QED
      BY <2>1, <3>1, SameRun DEF RunInv, Flow
  <2> QED
    BY <2>2, <2>3 DEF RunInv
<1> QED
  BY <1>1, <1>2, OutsideStep DEF Next

(* The types and the flow hold in every run of every plugin.               *)
THEOREM RunsAreTyped == Spec => []RunInv
<1> QED
  BY RunBegins, RunKept, PTL DEF Spec

-----------------------------------------------------------------------------
(* What happens to the results: nothing before the loop, a row at most for *)
(* each item of it.                                                        *)

Before == Open \/ Load \/ LoadAll \/ Learn

LEMMA BeforeTheLoop ==
  ASSUME RunInv, Before
  PROVE  results = <<>> /\ UNCHANGED <<results, disk>> /\ pc # "working" /\ pc' # "working"
<1>1. Flow
  BY DEF RunInv
<1>2. pc \in {"opening", "loading", "learning"}
  BY DEF Before, Open, Load, LoadAll, Learn
<1>3. results = <<>>
  BY <1>1, <1>2 DEF Flow
<1>4. UNCHANGED <<results, disk>> /\ pc' # "working"
  <2>1. CASE Open
    BY <2>1 DEF Open, End, Goto, progress
  <2>2. CASE Load
    BY <2>2 DEF Load, End, Goto, progress
  <2>3. CASE LoadAll
    BY <2>3 DEF LoadAll, End, Goto, progress
  <2>4. CASE Learn
    BY <2>4 DEF Learn, End, Goto, progress
  <2> QED
    BY <2>1, <2>2, <2>3, <2>4 DEF Before
<1> QED
  BY <1>2, <1>3, <1>4

LEMMA PolledOn ==
  ASSUME Poll
  PROVE  /\ UNCHANGED progress /\ pc = "polling"
         /\ pc' = "done" \/ (pc' = "working" /\ ~Asked /\ item <= Items /\ answer' = answer)
BY DEF Poll, End, Goto

(* The row handed last, and those before it.                               *)
LEMMA RowsHanded ==
  ASSUME RunInv, NEW row, WorkHands(row)
  PROVE  /\ Len(results') = Len(results) + 1 /\ DOMAIN results = 1 .. Len(results)
         /\ DOMAIN results' = 1 .. Len(results) + 1 /\ Len(results) \in Nat
         /\ \A i \in 1 .. Len(results) : results'[i] = results[i]
         /\ results'[Len(results) + 1] = row
<1>1. results \in Seq(Rows)
  BY DEF RunInv, Typed
<1>2. row \in Rows /\ results' = Append(results, row)
  BY HandedOn
<1> QED
  BY <1>1, <1>2, AppendKept

-----------------------------------------------------------------------------
(* A cancel request is seen: results do not go on growing after it.        *)

SeenInv == Asked => /\ Len(results) <= cancel + 1
                    /\ pc = "working" => Len(results) <= cancel

LEMMA SeenKept == ASSUME RunInv, SeenInv, [Next]_vars PROVE SeenInv'
<1>0. Len(results) \in Nat /\ cancel \in Nat \union {Never}
  BY Shapes DEF RunInv, Typed, Placed
<1>1. CASE Before /\ cancel' = cancel
  <2>1. results' = <<>> /\ pc' # "working"
    BY <1>1, BeforeTheLoop
  <2>2. Len(results') = 0
    BY <2>1
  <2> QED
    BY <1>0, <1>1, <2>1, <2>2 DEF SeenInv, Asked, Never
<1>2. CASE Poll /\ cancel' = cancel
  <2>1. results' = results /\ (pc' = "working" => ~Asked)
    BY <1>2, PolledOn DEF progress
  <2> QED
    BY <1>2, <2>1 DEF SeenInv, Asked
<1>3. CASE Work /\ cancel' = cancel
  <2>1. pc = "working"
    BY <1>3, WorkCases
  <2>2. CASE WorkEnds
    BY <1>3, <2>1, <2>2 DEF WorkEnds, SeenInv, Asked, progress
  <2>3. CASE WorkSkips
    BY <1>3, <2>1, <2>3, SkippedOn DEF SeenInv, Asked
  <2>4. ASSUME NEW row, WorkHands(row) PROVE SeenInv'
    <3>1. Len(results') = Len(results) + 1 /\ pc' = "polling"
      BY <2>4, RowsHanded, HandedOn
    <3>2. Asked' => Asked
      BY <1>3 DEF Asked
    <3> QED
      BY <1>0, <1>3, <2>1, <3>1, <3>2 DEF SeenInv, Asked, Never
  <2> QED
    BY <1>3, <2>2, <2>3, <2>4, WorkCases
<1>4. CASE RequestCancel
  <2>1. cancel' = Len(results) /\ results' = results
    BY <1>4 DEF RequestCancel, progress
  <2> QED
    BY <1>0, <2>1 DEF SeenInv
<1>5. CASE UNCHANGED <<pc, progress, cancel>>
  BY <1>5 DEF SeenInv, Asked, progress
<1>6. CASE \E s \in DOMAIN samples : Vanish(s)
  BY <1>5, <1>6 DEF Vanish
<1>7. CASE UNCHANGED vars
  BY <1>5, <1>7 DEF vars
<1> QED
  BY <1>1, <1>2, <1>3, <1>4, <1>6, <1>7 DEF Next, Step, Before

(* After a cancel request a run hands one more result at most, whatever    *)
(* the plugin, its samples and what happens to their files.                *)
THEOREM CancelAlwaysSeen == Spec => []CancelIsSeen
<1>1. MCInit => RunInv /\ SeenInv
  <2>1. MCInit => cancel = Never
    BY DEF MCInit, Init
  <2> QED
    BY <2>1, RunBegins DEF SeenInv, Asked
<1>2. RunInv /\ SeenInv /\ [Next]_vars => (RunInv /\ SeenInv)'
  BY RunKept, SeenKept
<1>3. RunInv /\ SeenInv => CancelIsSeen
  BY DEF SeenInv, CancelIsSeen
<1> QED
  BY <1>1, <1>2, <1>3, PTL DEF Spec

-----------------------------------------------------------------------------
(* A comparison: what a row is like comes before it, and is not suggested. *)

Behind(x, n) == \E j \in 1 .. n - 1 : kept[j] = x
TwinsInv ==
  Compares => \A i \in DOMAIN results :
                 Behind(results[i].like, item) /\ results[i].like \notin Suggested

LEMMA TwinsKept == ASSUME RunInv, TwinsInv, [Next]_vars PROVE TwinsInv'
<1> SUFFICES ASSUME Compares' PROVE TwinsInv'
  BY DEF TwinsInv
<1>0. /\ Typed /\ Flow /\ PluginOK /\ item \in Nat \ {0} /\ Len(kept) \in Nat
      /\ given' = given /\ Compares
  <2>1. given' = given
    BY DEF Next, Step, RequestCancel, Vanish, vars
  <2> QED
    BY <2>1, ThisPlugin, SameRun, Shapes DEF RunInv, Typed, Picked, Placed
<1>1. CASE UNCHANGED <<item, kept, results>>
  BY <1>0, <1>1 DEF TwinsInv, Behind, Suggested
<1>2. CASE Before
  <2>1. results' = <<>>
    BY <1>2, BeforeTheLoop
  <2> QED
    BY <2>1 DEF TwinsInv
<1>3. CASE Poll
  BY <1>1, <1>3, PolledOn DEF progress
<1>4. CASE Work
  <2>0. pc = "working"
    BY <1>4, WorkCases
  <2>1. CASE WorkEnds
    BY <1>1, <2>1 DEF WorkEnds, progress
  <2>2. \A x : Behind(x, item) => Behind(x, item + 1)
    BY <1>0 DEF Behind
  <2>3. CASE WorkSkips
    <3>1. UNCHANGED <<kept, results>> /\ item' = item + 1
      BY <2>3, SkippedOn
    <3>2. Suggested' = Suggested
      BY <3>1 DEF Suggested
    <3>3. \A i \in DOMAIN results :
            Behind(results[i].like, item + 1) /\ results[i].like \notin Suggested
      BY <1>0, <2>2 DEF TwinsInv
    <3> QED
      BY <3>1, <3>2, <3>3 DEF TwinsInv, Behind
  <2>4. ASSUME NEW row, WorkHands(row) PROVE TwinsInv'
    <3>1. kept' = kept /\ item' = item + 1
      BY <2>4, HandedOn
    <3>2. /\ DOMAIN results = 1 .. Len(results)
          /\ DOMAIN results' = 1 .. Len(results) + 1 /\ Len(results) \in Nat
          /\ \A i \in 1 .. Len(results) : results'[i] = results[i]
          /\ results'[Len(results) + 1] = row
      BY <2>4, RowsHanded
    <3>3. row.of = kept[item] /\ row.like \in Twin(item) /\ item <= Len(kept)
      BY <1>0, <2>0, <2>4, ThisIsASample DEF WorkHands, PluginOK
    <3>4. Behind(row.like, item) /\ row.like \notin Suggested
      BY <3>3 DEF Twin, Firsts, Behind
    <3>5. ASSUME NEW x, Behind(x, item) PROVE x # kept[item]
      <4>1. PICK j \in 1 .. item - 1 : kept[j] = x
        BY <3>5 DEF Behind
      <4>2. j \in 1 .. Len(kept) /\ item \in 1 .. Len(kept) /\ j # item
        BY <1>0, <3>3
      <4>3. Injective(kept) /\ DOMAIN kept = 1 .. Len(kept)
        BY <1>0, Shapes DEF Flow, PluginOK
      <4> QED
        BY <4>1, <4>2, <4>3 DEF Injective
    <3>6. ASSUME NEW x, x \in Suggested' PROVE x \in Suggested \/ x = kept[item]
      BY <3>2, <3>3, <3>6 DEF Suggested
    <3>7. ASSUME NEW i \in DOMAIN results'
          PROVE  Behind(results'[i].like, item) /\ results'[i].like \notin Suggested
      <4>1. CASE i = Len(results) + 1
        BY <3>2, <3>4, <4>1
      <4>2. CASE i \in 1 .. Len(results)
        BY <1>0, <3>2, <4>2 DEF TwinsInv
      <4> QED
        BY <3>2, <4>1, <4>2
    <3>8. ASSUME NEW i \in DOMAIN results'
          PROVE  /\ \E j \in 1 .. item' - 1 : kept'[j] = results'[i].like
                 /\ results'[i].like \notin Suggested'
      <4>1. Behind(results'[i].like, item) /\ results'[i].like \notin Suggested
        BY <3>7
      <4>2. results'[i].like # kept[item]
        BY <3>5, <4>1
      <4>3. Behind(results'[i].like, item + 1)
        BY <2>2, <4>1
      <4>4. results'[i].like \notin Suggested'
        BY <3>6, <4>1, <4>2
      <4>5. \E j \in 1 .. item' - 1 : kept'[j] = results'[i].like
        BY <3>1, <4>3 DEF Behind
      <4> QED
        BY <4>4, <4>5
    <3> QED
      BY <3>8 DEF TwinsInv, Behind
  <2> QED
    BY <1>4, <2>1, <2>3, <2>4, WorkCases
<1>5. CASE RequestCancel \/ (\E s \in DOMAIN samples : Vanish(s)) \/ UNCHANGED vars
  BY <1>1, <1>5 DEF RequestCancel, Vanish, vars, progress
<1> QED
  BY <1>2, <1>3, <1>4, <1>5 DEF Next, Step, Before

(* What a suggestion to delete names as the same as its sample is itself   *)
(* never suggested, however long the chain of likenesses.                  *)
THEOREM KeptCopyAlwaysStays == Spec => []KeptCopyStays
<1>1. MCInit => RunInv /\ TwinsInv
  <2>1. MCInit => results = <<>>
    BY DEF MCInit, Init
  <2> QED
    BY <2>1, RunBegins DEF TwinsInv
<1>2. RunInv /\ TwinsInv /\ [Next]_vars => (RunInv /\ TwinsInv)'
  BY RunKept, TwinsKept
<1>3. RunInv /\ TwinsInv => KeptCopyStays
  BY DEF TwinsInv, KeptCopyStays
<1> QED
  BY <1>1, <1>2, <1>3, PTL DEF Spec

-----------------------------------------------------------------------------
(* Outputs: each file that is listed is there and holds its own item.      *)

Holds(row) ==
  /\ row.item \in 1 .. item - 1
  /\ row.file # 0 =>
       /\ row.file \in DOMAIN disk /\ disk[row.file] = row.item
       /\ IF Cleaning THEN row.item <= Len(kept) /\ row.file = samples[kept[row.item]].name
                      ELSE row.file = row.item
OwnInv == OwnNames /\ ~Trusting => \A i \in DOMAIN results : Holds(results[i])

(* Nothing that is honest claims a file it did not write.                  *)
LEMMA NothingClaimed ==
  ASSUME RunInv, pc = "working", ~Trusting
  PROVE  "claim" \notin Ways(This)
<1>1. Typed /\ PluginOK /\ This \in DOMAIN samples
  BY ThisPlugin, ThisIsASample DEF RunInv, Typed, Picked
<1>2. samples[This].state \in States
  <2>1. samples[This] \in Samples
    BY <1>1 DEF Typed, Listed
  <2> QED
    BY <2>1 DEF Samples
<1>3. /\ "claim" \notin {plugin.good, plugin.plain, plugin.broken, plugin.empty, plugin.other,
                         plugin.missing, plugin.learned, plugin.deaf, plugin.off}
      /\ given.machine = "worn" => "claim" \notin {plugin.refused, plugin.unwritten}
  BY <1>1 DEF PluginOK, Claims
<1>4. plugin[samples[This].state] # "claim"
  BY <1>2, <1>3 DEF States
<1>5. Reaction(This) # "claim"
  BY <1>3, <1>4 DEF Reaction
<1> QED
  BY <1>3, <1>5 DEF Ways

(* The file of the item in work is no earlier item's.                      *)
LEMMA NewFile ==
  ASSUME RunInv, OwnNames, pc = "working", NEW row, Holds(row), row.file # 0
  PROVE  row.file # FileOf(item, This)
<1>1. Typed /\ Flow /\ item \in Nat \ {0}
  BY ThisIsASample DEF RunInv
<1>2. row.item \in 1 .. item - 1
  BY DEF Holds
<1>3. CASE ~Cleaning
  BY <1>1, <1>2, <1>3 DEF Holds, FileOf
<1>4. CASE Cleaning
  <2>1. This = kept[item] /\ item \in 1 .. Len(kept) /\ row.item \in 1 .. Len(kept)
    BY <1>1, <1>2, <1>4, ThisIsASample DEF Holds
  <2>2. row.item # item
    BY <1>1, <1>2
  <2>3. /\ DOMAIN kept = 1 .. Len(kept) /\ Injective(kept)
        /\ kept[item] \in DOMAIN samples /\ kept[row.item] \in DOMAIN samples
    BY <1>1, <1>4, <2>1, Shapes DEF Flow
  <2>4. kept[row.item] # kept[item]
    BY <2>1, <2>2, <2>3 DEF Injective
  <2>5. samples[kept[row.item]].name # samples[kept[item]].name
    BY <1>4, <2>3, <2>4 DEF OwnNames
  <2> QED
    BY <1>4, <2>1, <2>5 DEF Holds, FileOf
<1> QED
  BY <1>3, <1>4

LEMMA OwnKept == ASSUME RunInv, OwnInv, [Next]_vars PROVE OwnInv'
<1> SUFFICES ASSUME OwnNames', ~Trusting' PROVE \A i \in DOMAIN results' : Holds(results[i])'
  BY DEF OwnInv
<1>0. /\ Typed /\ Flow /\ item \in Nat \ {0} /\ given' = given /\ ~Trusting
      /\ (Cleaning' <=> Cleaning)
  <2>1. given' = given
    BY DEF Next, Step, RequestCancel, Vanish, vars
  <2>2. ~Trusting
    BY <2>1 DEF Trusting, plugin
  <2> QED
    BY <2>1, <2>2, SameRun DEF RunInv, Typed, Placed
<1>1. CASE /\ UNCHANGED <<item, kept, results, disk>> /\ DOMAIN samples' = DOMAIN samples
           /\ \A t \in DOMAIN samples : samples'[t].name = samples[t].name
  <2>1. OwnNames
    BY <1>0, <1>1 DEF OwnNames
  <2> SUFFICES ASSUME NEW i \in DOMAIN results PROVE Holds(results[i])'
    BY <1>1
  <2>2. Holds(results[i])
    BY <1>0, <2>1 DEF OwnInv
  <2>3. \A k \in 1 .. Len(kept) : kept[k] \in DOMAIN samples
    BY <1>0, Shapes
  <2>4. results[i].item \in 1 .. item - 1
    BY <2>2 DEF Holds
  <2>5. CASE Cleaning /\ results[i].file # 0
    <3>1. results[i].item \in 1 .. Len(kept)
      BY <1>0, <2>2, <2>4, <2>5, Shapes DEF Holds
    <3>2. samples'[kept[results[i].item]].name = samples[kept[results[i].item]].name
      BY <1>1, <2>3, <3>1
    <3> QED
      BY <1>0, <1>1, <2>2, <2>5, <3>2 DEF Holds
  <2>6. CASE ~(Cleaning /\ results[i].file # 0)
    BY <1>0, <1>1, <2>2, <2>6 DEF Holds
  <2> QED
    BY <2>5, <2>6
<1>2. CASE Before
  <2>1. results' = <<>>
    BY <1>2, BeforeTheLoop
  <2> QED
    BY <2>1
<1>3. CASE Poll /\ samples' = samples
  BY <1>1, <1>3, PolledOn DEF progress
<1>4. CASE Work /\ samples' = samples
  <2>0. pc = "working" /\ OwnNames
    BY <1>0, <1>4, WorkCases DEF OwnNames
  <2>1. \A i \in DOMAIN results : Holds(results[i])
    BY <1>0, <2>0 DEF OwnInv
  <2>2. CASE WorkEnds
    BY <1>1, <1>4, <2>2 DEF WorkEnds, progress
  <2>3. CASE WorkSkips
    <3>1. UNCHANGED <<kept, results, disk>> /\ item' = item + 1
      BY <2>3, SkippedOn
    <3> SUFFICES ASSUME NEW i \in DOMAIN results PROVE Holds(results[i])'
      BY <3>1
    <3>2. Holds(results[i])
      BY <2>1
    <3>3. results[i].item \in 1 .. item' - 1
      BY <1>0, <3>1, <3>2 DEF Holds
    <3> QED
      BY <1>0, <1>4, <3>1, <3>2, <3>3 DEF Holds
  <2>4. ASSUME NEW row, WorkHands(row) PROVE \A i \in DOMAIN results' : Holds(results[i])'
    <3>1. kept' = kept /\ item' = item + 1 /\ samples' = samples
      BY <1>4, <2>4, HandedOn
    <3>2. /\ DOMAIN results = 1 .. Len(results)
          /\ DOMAIN results' = 1 .. Len(results) + 1 /\ Len(results) \in Nat
          /\ \A i \in 1 .. Len(results) : results'[i] = results[i]
          /\ results'[Len(results) + 1] = row
      BY <2>4, RowsHanded
    <3>3. /\ row.item = item
          /\ \/ row.file = 0 /\ disk' = disk
             \/ row.file = FileOf(item, This) /\ disk' = Written(row.file, item)
      BY <1>0, <2>0, <2>4, NothingClaimed DEF WorkHands, Continue
    <3>4. ASSUME NEW old, Holds(old), old.file # 0
          PROVE  old.file \in DOMAIN disk' /\ disk'[old.file] = old.item
      <4>1. old.file \in DOMAIN disk /\ disk[old.file] = old.item
        BY <3>4 DEF Holds
      <4>2. CASE disk' = Written(row.file, item) /\ row.file = FileOf(item, This)
        <5>1. old.file # row.file
          BY <2>0, <3>4, <4>2, NewFile
        <5> QED
          BY <4>1, <4>2, <5>1 DEF Written
      <4> QED
        BY <3>3, <4>1, <4>2
    <3>5. row.file # 0 => /\ row.file = FileOf(item, This) /\ row.file \in DOMAIN disk'
                          /\ disk'[row.file] = item
      BY <3>3 DEF Written
    <3>6. ASSUME NEW i \in DOMAIN results' PROVE Holds(results[i])'
      <4>1. CASE i = Len(results) + 1
        <5>1. results'[i] = row /\ row.item \in 1 .. item' - 1
          BY <1>0, <3>1, <3>2, <3>3, <4>1
        <5>2. CASE row.file = 0
          BY <5>1, <5>2 DEF Holds
        <5>3. CASE row.file # 0
          <6>1. IF Cleaning THEN row.item <= Len(kept) /\ row.file = samples[kept[row.item]].name
                            ELSE row.file = row.item
            BY <2>0, <3>3, <3>5, <5>3, ThisIsASample DEF FileOf
          <6> QED
            BY <1>0, <3>1, <3>3, <3>5, <5>1, <5>3, <6>1 DEF Holds
        <5> QED
          BY <5>2, <5>3
      <4>2. CASE i \in 1 .. Len(results)
        <5>1. Holds(results[i]) /\ results'[i] = results[i]
          BY <2>1, <3>2, <4>2
        <5>2. results[i].item \in 1 .. item' - 1
          BY <1>0, <3>1, <5>1 DEF Holds
        <5>3. results[i].file # 0 =>
                results[i].file \in DOMAIN disk' /\ disk'[results[i].file] = results[i].item
          BY <3>4, <5>1
        <5> QED
          BY <1>0, <3>1, <5>1, <5>2, <5>3 DEF Holds
      <4> QED
        BY <3>2, <4>1, <4>2
    <3> QED
      BY <3>6
  <2> QED
    BY <1>4, <2>2, <2>3, <2>4, WorkCases
<1>5. CASE RequestCancel \/ UNCHANGED vars
  BY <1>1, <1>5 DEF RequestCancel, vars, progress
<1>6. ASSUME NEW s \in DOMAIN samples, Vanish(s)
      PROVE  \A i \in DOMAIN results' : Holds(results[i])'
  <2>1. /\ DOMAIN samples' = DOMAIN samples
        /\ \A t \in DOMAIN samples : samples'[t].name = samples[t].name
    BY <1>0, <1>6, Vanished DEF Typed
  <2> QED
    BY <1>1, <1>6, <2>1 DEF Vanish, progress
<1> QED
  BY <1>2, <1>3, <1>4, <1>5, <1>6 DEF Next, Step, Before

(* A run that reports success lists no file that is missing or that a      *)
(* later item of the same run wrote over.                                  *)
THEOREM OutputsAlwaysTheirOwn == Spec => []OutputsAreTheirOwn
<1>1. MCInit => RunInv /\ OwnInv
  <2>1. MCInit => results = <<>>
    BY DEF MCInit, Init
  <2> QED
    BY <2>1, RunBegins DEF OwnInv
<1>2. RunInv /\ OwnInv /\ [Next]_vars => (RunInv /\ OwnInv)'
  BY RunKept, OwnKept
<1>3. RunInv /\ OwnInv => OutputsAreTheirOwn
  BY DEF OwnInv, Holds, OutputsAreTheirOwn
<1> QED
  BY <1>1, <1>2, <1>3, PTL DEF Spec

-----------------------------------------------------------------------------
(* A generation run that nothing disturbs.                                 *)

(* Division, and the items that go back to the same place of the round.    *)
LEMMA Division ==
  ASSUME NEW n \in Nat \ {0}, NEW x \in Nat
  PROVE  \E q \in Nat : x = n * q + (x % n)
<1>1. x = n * (x \div n) + (x % n)
  OBVIOUS
<1>2. x \div n \in Nat
  OBVIOUS
<1> QED
  BY <1>1, <1>2

LEMMA TimesMore ==
  ASSUME NEW n \in Nat \ {0}, NEW q \in Nat, NEW r \in Nat, q < r
  PROVE  n * q + n <= n * r
<1>1. PICK d \in Nat : r = q + 1 + d
  <2>1. r - q - 1 \in Nat
    OBVIOUS
  <2> QED
    BY <2>1
<1>2. n * r = n * q + n + n * d
  BY <1>1
<1>3. n * d \in Nat /\ n * q \in Nat
  BY <1>1
<1> QED
  BY <1>2, <1>3

LEMMA PlaceOfRound ==
  ASSUME NEW n \in Nat \ {0}, NEW q \in Nat, NEW d \in 0 .. n - 1
  PROVE  (n * q + d) % n = d
<1>1. PICK x \in Nat : x = n * q + d
  OBVIOUS
<1>2. PICK r \in Nat : x = n * r + (x % n)
  BY Division
<1>3. x % n \in 0 .. n - 1
  BY Remainder
<1>4. n * q \in Nat /\ n * r \in Nat
  OBVIOUS
<1>5. ~ (q < r)
  <2> SUFFICES ASSUME q < r PROVE FALSE
    OBVIOUS
  <2>1. n * q + n <= n * r
    BY TimesMore
  <2> QED
    BY <1>1, <1>2, <1>3, <1>4, <2>1
<1>6. ~ (r < q)
  <2> SUFFICES ASSUME r < q PROVE FALSE
    OBVIOUS
  <2>1. n * r + n <= n * q
    BY TimesMore
  <2> QED
    BY <1>1, <1>2, <1>3, <1>4, <2>1
<1>7. q = r
  <2> QED BY ONLY <1>5, <1>6, q \in Nat, r \in Nat
<1>8. x % n = d
  BY <1>1, <1>2, <1>3, <1>4, <1>7
<1> QED
  BY <1>1, <1>8

(* The items up to m at place a of a round of n.                           *)
AtPlace(n, m, a) == {i \in 1 .. m : ((i - 1) % n) + 1 = a}

LEMMA FinitelyMany ==
  ASSUME NEW n \in Nat \ {0}, NEW m \in Nat, NEW a \in 1 .. n
  PROVE  IsFiniteSet(AtPlace(n, m, a)) /\ Cardinality(AtPlace(n, m, a)) \in Nat
<1>1. IsFiniteSet(1 .. m)
  BY FS_Interval
<1>2. AtPlace(n, m, a) \in SUBSET (1 .. m)
  BY DEF AtPlace
<1> QED
  BY <1>1, <1>2, FS_Subset, FS_CardinalityType

(* An item less its place in the round is the start of the round.          *)
LEMMA SamePlace ==
  ASSUME NEW n \in Nat \ {0}, NEW m \in Nat, NEW a \in 1 .. n, NEW b \in 1 .. n,
         NEW i \in AtPlace(n, m, a), NEW x \in {i - a + b, i - a + b - n}, x \in 1 .. m
  PROVE  x \in AtPlace(n, m, b)
<1>1. i \in 1 .. m /\ (i - 1) % n = a - 1 /\ i - 1 \in Nat
  <2>1. i \in 1 .. m /\ ((i - 1) % n) + 1 = a
    BY DEF AtPlace
  <2>2. i - 1 \in Nat
    BY <2>1
  <2>3. (i - 1) % n \in 0 .. n - 1
    BY <2>2, Remainder
  <2> QED
    BY <2>1, <2>2, <2>3
<1>2. PICK q \in Nat : i - 1 = n * q + (a - 1)
  BY <1>1, Division
<1>3. n * q \in Nat /\ b - 1 \in 0 .. n - 1
  OBVIOUS
<1>4. CASE x = i - a + b
  <2>1. x - 1 = n * q + (b - 1)
    BY <1>1, <1>2, <1>3, <1>4
  <2>2. (x - 1) % n = b - 1
    BY <1>3, <2>1, PlaceOfRound
  <2> QED
    BY <2>2 DEF AtPlace
<1>5. CASE x = i - a + b - n
  <2>1. x - 1 = (n * q) - n + (b - 1)
    BY <1>1, <1>2, <1>3, <1>5
  <2>2. q # 0
    <3> SUFFICES ASSUME q = 0 PROVE FALSE
      OBVIOUS
    <3>1. n * q = 0
      OBVIOUS
    <3> QED
      BY <1>3, <2>1, <3>1
  <2>3. q - 1 \in Nat /\ n * (q - 1) = (n * q) - n
    BY <2>2
  <2>4. x - 1 = n * (q - 1) + (b - 1)
    BY <1>3, <2>1, <2>3
  <2>5. (x - 1) % n = b - 1
    BY <1>3, <2>3, <2>4, PlaceOfRound
  <2> QED
    BY <2>5 DEF AtPlace
<1> QED
  BY <1>4, <1>5

LEMMA OneLess ==
  ASSUME NEW x \in Nat, NEW y \in Nat, NEW z \in Nat, x <= z + 1, z <= y
  PROVE  x <= y + 1
OBVIOUS

LEMMA NoMoreThanOneMore ==
  ASSUME NEW n \in Nat \ {0}, NEW m \in Nat, NEW a \in 1 .. n, NEW b \in 1 .. n
  PROVE  Cardinality(AtPlace(n, m, a)) <= Cardinality(AtPlace(n, m, b)) + 1
<1> DEFINE A == AtPlace(n, m, a)
           B == AtPlace(n, m, b)
           D == A \ {a}
<1>1. /\ IsFiniteSet(A) /\ Cardinality(A) \in Nat
      /\ IsFiniteSet(B) /\ Cardinality(B) \in Nat
  BY FinitelyMany
<1>2. /\ IsFiniteSet(D) /\ Cardinality(D) \in Nat
      /\ Cardinality(A) <= Cardinality(D) + 1
  <2>1. IsFiniteSet(D) /\ Cardinality(D) = IF a \in A THEN Cardinality(A) - 1 ELSE Cardinality(A)
    <3> HIDE DEF A
    <3> QED
      BY <1>1, FS_RemoveElement
  <2>2. Cardinality(D) \in Nat
    BY <2>1, FS_CardinalityType
  <2> HIDE DEF A, D
  <2> QED
    BY <1>1, <2>1, <2>2
<1>3. \A i \in A : i \in 1 .. m
  BY DEF AtPlace
<1>4. CASE b <= a
  <2> DEFINE f == [i \in D |-> i - a + b]
  <2>1. ASSUME NEW i \in D PROVE f[i] \in B
    <3>1. i \in 1 .. m /\ i >= a /\ i \in A
      <4>1. i \in A /\ i \in 1 .. m
        BY <1>3
      <4>2. i - 1 \in Nat /\ ((i - 1) % n) + 1 = a
        BY <4>1 DEF AtPlace
      <4>3. i - 1 < n => (i - 1) % n = i - 1
        BY <4>2, Remainder
      <4> QED
        BY <4>1, <4>2, <4>3
    <3>2. i - a + b \in 1 .. m
      BY <1>4, <3>1
    <3> QED
      BY <3>1, <3>2, SamePlace
  <2>2. \A i, j \in D : f[i] = f[j] => i = j
    BY <1>3
  <2>3. f \in Injection(D, B)
    BY <2>1, <2>2 DEF Injection, IsInjective
  <2>4. Cardinality(D) <= Cardinality(B)
    <3> HIDE DEF f, D, B
    <3> QED
      BY <1>1, <2>3, FS_Injection
  <2> QED
    BY <1>1, <1>2, <2>4, OneLess
<1>5. CASE a < b
  <2> DEFINE f == [i \in D |-> i - a + b - n]
  <2>1. ASSUME NEW i \in D PROVE f[i] \in B
    <3>1. i \in 1 .. m /\ i \in A /\ i # a
      BY <1>3
    <3>2. i > n
      <4>1. i - 1 \in Nat /\ ((i - 1) % n) + 1 = a
        BY <3>1 DEF AtPlace
      <4>2. i - 1 < n => (i - 1) % n = i - 1
        BY <4>1, Remainder
      <4> QED
        BY <3>1, <4>1, <4>2
    <3>3. i - a + b - n \in 1 .. m
      BY <1>5, <3>1, <3>2
    <3> QED
      BY <3>1, <3>3, SamePlace
  <2>2. \A i, j \in D : f[i] = f[j] => i = j
    BY <1>3
  <2>3. f \in Injection(D, B)
    BY <2>1, <2>2 DEF Injection, IsInjective
  <2>4. Cardinality(D) <= Cardinality(B)
    <3> HIDE DEF f, D, B
    <3> QED
      BY <1>1, <2>3, FS_Injection
  <2> QED
    BY <1>1, <1>2, <2>4, OneLess
<1> QED
  BY <1>4, <1>5

LEMMA OneApart ==
  ASSUME NEW x \in Nat, NEW y \in Nat, x <= y + 1, y <= x + 1
  PROVE  x - y \in -1 .. 1
OBVIOUS

(* Going round a list of samples serves none twice more than another.      *)
LEMMA RoundsAreEven ==
  ASSUME Typed, Injective(kept), \A i \in DOMAIN results : results[i].of = Source(i),
         NEW s \in Loaded, NEW t \in Loaded
  PROVE  Cardinality({i \in DOMAIN results : results[i].of = s})
           - Cardinality({i \in DOMAIN results : results[i].of = t}) \in -1 .. 1
<1>0. /\ Len(kept) \in Nat /\ DOMAIN kept = 1 .. Len(kept)
      /\ Len(results) \in Nat /\ DOMAIN results = 1 .. Len(results)
  BY Shapes
<1>1. PICK n \in Nat \ {0} : n = Len(kept)
  <2>1. PICK a \in 1 .. Len(kept) : kept[a] = s
    BY <1>0 DEF Loaded
  <2>2. Len(kept) # 0
    BY <2>1
  <2> QED
    BY <1>0, <2>2
<1>2. PICK m \in Nat : m = Len(results)
  BY <1>0
<1>3. DOMAIN kept = 1 .. n /\ DOMAIN results = 1 .. m
  BY <1>0, <1>1, <1>2
<1>4. ASSUME NEW a \in 1 .. n
      PROVE  {i \in DOMAIN results : results[i].of = kept[a]} = AtPlace(n, m, a)
  <2>1. ASSUME NEW i \in 1 .. m
        PROVE  results[i].of = kept[a] <=> ((i - 1) % n) + 1 = a
    <3>1. results[i].of = kept[((i - 1) % n) + 1]
      BY <1>1, <1>3 DEF Source
    <3>2. i - 1 \in Nat
      OBVIOUS
    <3>3. (i - 1) % n \in 0 .. n - 1
      BY <3>2, Remainder
    <3>4. PICK c \in 1 .. n : c = ((i - 1) % n) + 1
      BY <3>3
    <3>5. kept[c] = kept[a] <=> c = a
      BY <1>3 DEF Injective
    <3> QED
      BY <3>1, <3>4, <3>5
  <2> QED
    BY <1>3, <2>1 DEF AtPlace
<1>5. PICK a \in 1 .. n : kept[a] = s
  BY <1>3 DEF Loaded
<1>6. PICK b \in 1 .. n : kept[b] = t
  BY <1>3 DEF Loaded
<1>7. /\ {i \in DOMAIN results : results[i].of = s} = AtPlace(n, m, a)
      /\ {i \in DOMAIN results : results[i].of = t} = AtPlace(n, m, b)
  BY <1>4, <1>5, <1>6
<1>8. PICK x \in Nat, y \in Nat : /\ x = Cardinality(AtPlace(n, m, a)) /\ x <= y + 1
                                  /\ y = Cardinality(AtPlace(n, m, b)) /\ y <= x + 1
  BY FinitelyMany, NoMoreThanOneMore
<1>9. x - y \in -1 .. 1
  BY <1>8, OneApart
<1> QED
  BY <1>7, <1>8, <1>9

Undisturbed == Healthy /\ ~Cleaning
WholeInv ==
  Undisturbed =>
    /\ pc # "opening" => Loaded = Due
    /\ Len(results) = item - 1 /\ item <= given.target + 1
    /\ \A i \in DOMAIN results : results[i].of = Source(i)
    /\ pc = "done" /\ ~Asked => answer = "ok" /\ item = given.target + 1

LEMMA HealthyBefore == ASSUME RunInv, [Next]_vars, Undisturbed' PROVE Undisturbed
<1>1. given' = given /\ Listed
  BY DEF Next, Step, RequestCancel, Vanish, vars, RunInv, Typed
<1>2. \A s \in DOMAIN samples : samples[s].state = "good"
  <2>1. CASE samples' = samples
    BY <2>1 DEF Undisturbed, Healthy
  <2>2. ASSUME NEW t \in DOMAIN samples, Vanish(t)
        PROVE  \A s \in DOMAIN samples : samples[s].state = "good"
    BY <1>1, <2>2, Vanished DEF Undisturbed, Healthy
  <2>3. samples' = samples \/ \E t \in DOMAIN samples : Vanish(t)
    BY DEF Next, Step, RequestCancel, vars
  <2> QED
    BY <2>1, <2>2, <2>3
<1>3. given.machine = "sound" /\ ~Off("do_shuffle") /\ ~Cleaning
  BY <1>1, SameRun DEF Undisturbed, Healthy, Off, Chosen, plugin
<1>4. Has("patches") => 64 % Value("patch_size") = 0
  <2>1. Has("patches")' <=> Has("patches")
    BY <1>1 DEF Has, plugin
  <2>2. Value("patch_size")' = Value("patch_size")
    BY <1>1 DEF Value, Chosen, plugin
  <2> QED
    BY <2>1, <2>2 DEF Undisturbed, Healthy
<1> QED
  BY <1>2, <1>3, <1>4 DEF Undisturbed, Healthy

(* It is not refused, and goes over all of its samples.                    *)
LEMMA HealthyOpens ==
  ASSUME RunInv, Undisturbed, Open, samples' = samples
  PROVE  /\ pc' # "done" /\ pc' # "opening" /\ item' = item /\ results' = results
         /\ Loaded' = Due'
<1>0. /\ Typed /\ PluginOK /\ samples \in Seq(Samples) /\ samples # <<>>
      /\ learned = FALSE
  BY ThisPlugin DEF RunInv, Typed, Picked, Listed, Flow, Open
<1>1. ~Has("load")
  BY <1>0 DEF PluginOK, Undisturbed
<1>2. ImageSet = DOMAIN samples
  BY DEF ImageSet, Undisturbed, Healthy
<1>3. {Images[i] : i \in DOMAIN Images} = DOMAIN samples
  BY <1>0, <1>2, ImagesListed
<1>4. {All[i] : i \in DOMAIN All} = DOMAIN samples
  BY <1>0, AllSamples
<1>5. Images # <<>>
  <2>1. 1 \in DOMAIN samples
    BY <1>0, Shapes
  <2>2. DOMAIN Images # {}
    BY <1>3, <2>1
  <2> QED
    BY <2>2
<1>7. given.machine # "bare" /\ given.machine # "worn"
  BY DEF Undisturbed, Healthy
<1>8. /\ Goto(IF Loads THEN "loading" ELSE "polling")
      /\ kept' = IF Has("load") THEN <<>> ELSE IF Has("images") THEN Images ELSE All
      /\ UNCHANGED <<item, learned, results, disk>>
  <2>1. Refusal = ""
    BY <1>5, <1>7, Zenon DEF Refusal, Undisturbed, Healthy
  <2> QED
    BY <1>7, <2>1, Zenon DEF Open
<1>9. pc' \in {"loading", "polling"}
  BY <1>8 DEF Goto
<1>10. Loaded' = DOMAIN samples
  <2>1. kept' = Images \/ kept' = All
    BY <1>1, <1>8
  <2> QED
    BY <1>3, <1>4, <2>1 DEF Loaded
<1>11. Due' = DOMAIN samples
  <2>1. learned' = FALSE
    BY <1>0, <1>8, Zenon
  <2> QED
    BY <2>1, Zenon DEF Due
<1> QED
  BY <1>8, <1>9, <1>10, <1>11

(* It makes something of every item.                                       *)
LEMMA HealthyMakes ==
  ASSUME RunInv, Undisturbed, Work
  PROVE  \E row : WorkHands(row)
<1>0. Typed /\ PluginOK /\ pc = "working"
  BY ThisPlugin, WorkCases DEF RunInv, Typed, Picked
<1>1. samples[This].state = "good"
  BY <1>0, ThisIsASample DEF Undisturbed, Healthy
<1>2. plugin[samples[This].state] = plugin.good
  BY <1>1
<1>3. given.machine = "sound" /\ ~Off("do_shuffle") /\ ~Compares
  BY <1>0 DEF Undisturbed, Healthy, PluginOK
<1>4. Reaction(This) \in {"make", plugin.good}
  BY <1>1, <1>2, <1>3 DEF Reaction
<1>5. plugin.good \in {"make", "claim"}
  BY <1>0 DEF PluginOK, Undisturbed
<1>6. Ways(This) \subseteq {"make", "claim"}
  BY <1>3, <1>4, <1>5 DEF Ways
<1> QED
  BY <1>6, WorkCases DEF WorkEnds, WorkSkips

(* What is gone round and what outputs are due of change with the samples, *)
(* the list of them and learning only.                                     *)
LEMMA SameLoad ==
  ASSUME UNCHANGED <<given, samples, kept, learned>>
  PROVE  Loaded' = Loaded /\ Due' = Due
BY DEF Loaded, Due, Has, plugin

(* Having learned it goes round the samples that outputs are due of then.  *)
LEMMA HealthyLearns ==
  ASSUME RunInv, Undisturbed, Learn, UNCHANGED <<given, samples>>, pc # "opening" => Loaded = Due
  PROVE  /\ pc' # "opening" /\ UNCHANGED <<item, results>> /\ Loaded' = Due'
         /\ pc' = "done" => Asked
<1>0. Typed /\ Injective(kept) /\ learned = FALSE /\ pc = "learning"
  BY DEF RunInv, Flow, Learn
<1>1. Loaded = DOMAIN samples
  <2>1. Due = DOMAIN samples
    BY <1>0, Zenon DEF Due
  <2> QED
    BY <1>0, <2>1
<1>2. CASE Asked /\ End("CANCELLED")
  <2>1. pc' = "done" /\ UNCHANGED <<item, kept, learned, results>>
    BY <1>2 DEF End, progress
  <2>2. Loaded' = Loaded /\ Due' = Due
    BY <2>1, SameLoad
  <2> QED
    BY <1>0, <1>2, <2>1, <2>2
<1>3. CASE /\ Goto("polling") /\ learned' = TRUE /\ kept' = AfterLearning
           /\ UNCHANGED <<item, results, disk>>
  <2>1. Loaded' = IF Has("labelled") /\ Labelled # {} THEN Labelled ELSE Loaded
    <3>1. {AfterLearning[i] : i \in DOMAIN AfterLearning} =
            IF Has("labelled") /\ Labelled # {} THEN Labelled ELSE Loaded
      BY <1>0, KeptAfterLearning
    <3>2. Loaded' = {AfterLearning[i] : i \in DOMAIN AfterLearning}
      BY <1>3 DEF Loaded
    <3> QED
      BY <3>1, <3>2
  <2>2. Labelled = {s \in DOMAIN samples : samples[s].labelled}
    BY <1>1 DEF Labelled
  <2>3. (Has("labelled")' <=> Has("labelled")) /\ samples' = samples
    BY DEF Has, plugin
  <2>4. Due' = IF Has("labelled") /\ Labelled # {} THEN Labelled ELSE DOMAIN samples
    <3>1. Due' = IF Has("labelled") /\ {s \in DOMAIN samples : samples[s].labelled} # {}
                 THEN {s \in DOMAIN samples : samples[s].labelled} ELSE DOMAIN samples
      BY <1>3, <2>3 DEF Due
    <3> QED
      BY <2>2, <3>1
  <2> QED
    BY <1>1, <1>3, <2>1, <2>4 DEF Goto
<1> QED
  BY <1>2, <1>3 DEF Learn

LEMMA WholeKept == ASSUME RunInv, WholeInv, [Next]_vars PROVE WholeInv'
<1> SUFFICES ASSUME Undisturbed' PROVE WholeInv'
  BY DEF WholeInv
<1>0. /\ Undisturbed /\ Typed /\ Flow /\ PluginOK /\ given' = given
      /\ item \in Nat \ {0} /\ given.target \in Nat \ {0}
  <2>1. given' = given
    BY DEF Next, Step, RequestCancel, Vanish, vars
  <2> QED
    BY <2>1, HealthyBefore, ThisPlugin DEF RunInv, Typed, Placed, Picked
<1>1. /\ Len(results) = item - 1 /\ item <= given.target + 1
      /\ \A i \in DOMAIN results : results[i].of = Source(i)
      /\ pc # "opening" => Loaded = Due
      /\ pc = "done" /\ ~Asked => answer = "ok" /\ item = given.target + 1
  BY <1>0 DEF WholeInv
<1>2. ~Has("load") /\ ~Cleaning
  BY <1>0 DEF PluginOK, Undisturbed
<1>3. ASSUME UNCHANGED <<item, results>>,
             results = <<>> \/ kept' = kept,
             pc' # "opening" => Loaded' = Due',
             pc' = "done" /\ ~Asked' => answer' = "ok" /\ item = given.target + 1
      PROVE  WholeInv'
  <2>1. \A i \in DOMAIN results' : results'[i].of = Source(i)'
    <3>1. CASE results = <<>>
      BY <1>3, <3>1
    <3>2. CASE kept' = kept
      <4>1. \A i : Source(i)' = Source(i)
        BY <3>2 DEF Source
      <4> QED
        BY <1>1, <1>3, <4>1
    <3> QED
      BY <1>3, <3>1, <3>2
  <2> QED
    BY <1>0, <1>1, <1>3, <2>1 DEF WholeInv
<1>4. CASE Open /\ samples' = samples
  BY <1>0, <1>3, <1>4, HealthyOpens, BeforeTheLoop DEF Before
<1>5. CASE LoadAll /\ UNCHANGED <<samples, cancel>>
  <2>1. \A s \in Loaded : s \in DOMAIN samples
    BY <1>0, Shapes DEF Loaded
  <2>2. ~ \E s \in Loaded : samples[s].state \in {"missing", "empty"}
    BY <1>0, <2>1 DEF Undisturbed, Healthy
  <2>3. /\ pc = "loading" /\ pc' # "done" /\ pc' # "opening"
        /\ UNCHANGED <<item, kept, learned, results>>
    BY <1>5, <2>2 DEF LoadAll, Goto, progress
  <2>4. Loaded' = Loaded /\ Due' = Due
    BY <1>0, <1>5, <2>3, SameLoad
  <2> QED
    BY <1>1, <1>3, <2>3, <2>4
<1>6. CASE Learn /\ UNCHANGED <<samples, cancel>>
  BY <1>0, <1>1, <1>3, <1>6, HealthyLearns, BeforeTheLoop DEF Before, Asked
<1>7. CASE Poll /\ UNCHANGED <<samples, cancel>>
  <2>1. UNCHANGED <<item, kept, learned, results>> /\ pc = "polling"
    BY <1>7, PolledOn DEF progress
  <2>2. pc' = "done" /\ ~Asked => answer' = "ok" /\ item > given.target
    BY <1>2, <1>7 DEF Poll, End, Goto, Items
  <2>3. Asked' <=> Asked
    BY <1>7 DEF Asked
  <2>4. item > given.target => item = given.target + 1
    BY <1>0, <1>1
  <2>5. Loaded' = Loaded /\ Due' = Due
    BY <1>0, <1>7, <2>1, SameLoad
  <2> QED
    BY <1>1, <1>3, <2>1, <2>2, <2>3, <2>4, <2>5
<1>8. CASE Work /\ UNCHANGED <<samples, cancel>>
  <2>1. PICK row : WorkHands(row)
    BY <1>0, <1>8, HealthyMakes
  <2>2. pc = "working" /\ item <= given.target
    BY <1>0, <1>2, <1>8, WorkCases DEF Flow, Items
  <2>3. pc' = "polling" /\ UNCHANGED <<kept, learned>> /\ item' = item + 1
    BY <2>1, HandedOn
  <2>4. /\ Len(results') = Len(results) + 1 /\ DOMAIN results = 1 .. Len(results)
        /\ DOMAIN results' = 1 .. Len(results) + 1 /\ Len(results) \in Nat
        /\ \A i \in 1 .. Len(results) : results'[i] = results[i]
        /\ results'[Len(results) + 1] = row
    BY <2>1, RowsHanded
  <2>5. row.of = Source(item)
    BY <2>1 DEF WorkHands, This
  <2>6. ASSUME NEW i \in DOMAIN results' PROVE results'[i].of = Source(i)
    <3>1. CASE i = Len(results) + 1
      <4>1. i = item
        BY <1>0, <1>1, <2>4, <3>1
      <4> QED
        BY <2>4, <2>5, <3>1, <4>1
    <3>2. CASE i \in 1 .. Len(results)
      BY <1>1, <2>4, <3>2
    <3> QED
      BY <2>4, <3>1, <3>2
  <2>7. \A i \in DOMAIN results' : results'[i].of = Source(i)'
    <3>1. \A i : Source(i)' = Source(i)
      BY <2>3 DEF Source
    <3> QED
      BY <2>6, <3>1
  <2>8. Len(results') = item' - 1 /\ item' <= given.target + 1
    BY <1>0, <1>1, <2>2, <2>3, <2>4
  <2>9. Loaded' = Due'
    BY <1>0, <1>1, <1>8, <2>2, <2>3, SameLoad
  <2> QED
    BY <1>0, <2>3, <2>7, <2>8, <2>9 DEF WholeInv
<1>9. CASE RequestCancel
  <2>1. Asked' /\ UNCHANGED <<pc, item, kept, learned, results, samples>>
    <3>1. Len(results) \in Nat
      BY <1>0, Shapes
    <3> QED
      BY <1>9, <3>1 DEF RequestCancel, progress, Asked, Never
  <2>2. Loaded' = Loaded /\ Due' = Due
    BY <1>0, <2>1, SameLoad
  <2> QED
    BY <1>1, <1>3, <2>1, <2>2
<1>10. ASSUME NEW s \in DOMAIN samples, Vanish(s) PROVE WholeInv'
  <2>1. FALSE
    <3>1. s \in DOMAIN samples' /\ samples'[s] = [samples[s] EXCEPT !.state = "missing"]
      BY <1>10 DEF Vanish
    <3>2. samples[s] \in Samples
      BY <1>0 DEF Typed, Listed
    <3>3. samples'[s].state = "missing"
      BY <3>1, <3>2 DEF Samples
    <3> QED
      BY <3>1, <3>3 DEF Undisturbed, Healthy
  <2> QED
    BY <2>1
<1>11. CASE UNCHANGED vars
  <2>1. UNCHANGED <<pc, item, kept, learned, results, cancel, answer, samples>>
    BY <1>11 DEF vars, progress
  <2>2. Asked' <=> Asked
    BY <2>1 DEF Asked
  <2>3. Loaded' = Loaded /\ Due' = Due
    BY <1>0, <2>1, SameLoad
  <2> QED
    BY <1>1, <1>3, <2>1, <2>2, <2>3
<1> QED
  BY <1>2, <1>4, <1>5, <1>6, <1>7, <1>8, <1>9, <1>10, <1>11 DEF Next, Step, Load

(* A generation run that nothing disturbs makes every output it was asked  *)
(* for, whatever the target and the number of samples, of the samples they *)
(* are due of only, none of which serves twice more than another.          *)
THEOREM AlwaysWholeWhenHealthy == Spec => []WholeWhenHealthy
<1>1. MCInit => RunInv /\ WholeInv
  <2>1. MCInit => pc = "opening" /\ item = 1 /\ results = <<>>
    BY DEF MCInit, Init
  <2>2. MCInit => given.target \in Nat \ {0}
    BY RunBegins DEF RunInv, Typed, Picked
  <2>3. results = <<>> => Len(results) = 0
    OBVIOUS
  <2> QED
    BY <2>1, <2>2, <2>3, RunBegins DEF WholeInv
<1>2. RunInv /\ WholeInv /\ [Next]_vars => (RunInv /\ WholeInv)'
  BY RunKept, WholeKept
<1>3. RunInv /\ WholeInv => WholeWhenHealthy
  <2>0. SUFFICES ASSUME RunInv, WholeInv, answer # "", Healthy, ~Cleaning, ~Asked
               PROVE  /\ answer = "ok" /\ Len(results) = given.target
                      /\ \A i \in DOMAIN results : results[i].of \in Due
                      /\ \A s, t \in Due :
                           Cardinality({i \in DOMAIN results : results[i].of = s})
                             - Cardinality({i \in DOMAIN results : results[i].of = t}) \in -1 .. 1
    BY Zenon DEF WholeWhenHealthy
  <2>1. pc = "done"
    <3>1. RunInv /\ ~Silent
      BY <2>0 DEF Silent
    <3> QED
      BY <3>1 DEF RunInv, Typed, Placed
  <2>2. RunInv /\ WholeInv /\ Undisturbed /\ ~Asked
    BY <2>0, Zenon DEF Undisturbed
  <2>3. /\ answer = "ok" /\ item = given.target + 1 /\ Len(results) = item - 1
        /\ Loaded = Due /\ \A i \in DOMAIN results : results[i].of = Source(i)
    BY <2>1, <2>2 DEF WholeInv
  <2>4. Typed /\ given.target \in Nat \ {0} /\ Injective(kept)
    BY <2>2 DEF RunInv, Typed, Picked, Flow
  <2>5. Len(results) = given.target
    BY <2>3, <2>4
  <2>6. ASSUME NEW i \in DOMAIN results PROVE results[i].of \in Due
    <3>1. Loaded # {}
      <4>1. 1 \in DOMAIN samples
        BY <2>4, Shapes
      <4>2. Due # {}
        BY <4>1 DEF Due
      <4> QED
        BY <2>3, <4>2
    <3>2. kept # <<>>
      BY <3>1 DEF Loaded
    <3>3. kept \in Seq(DOMAIN samples) /\ i \in Nat \ {0}
      BY <2>4, Shapes DEF Typed
    <3>4. ((i - 1) % Len(kept)) + 1 \in 1 .. Len(kept) /\ DOMAIN kept = 1 .. Len(kept)
      BY <2>4, <3>2, <3>3, SourceIsKept, Shapes
    <3>5. Source(i) \in Loaded
      BY <3>4 DEF Source, Loaded
    <3> QED
      BY <2>3, <3>5
  <2>7. ASSUME NEW s \in Due, NEW t \in Due
        PROVE  Cardinality({i \in DOMAIN results : results[i].of = s})
                 - Cardinality({i \in DOMAIN results : results[i].of = t}) \in -1 .. 1
    BY <2>3, <2>4, RoundsAreEven
  <2> QED
    BY <2>3, <2>5, <2>6, <2>7
<1> QED
  BY <1>1, <1>2, <1>3, PTL DEF Spec
=============================================================================
