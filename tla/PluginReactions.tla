---------------------------- MODULE PluginReactions ----------------------------
(***************************************************************************)
(* What a run of a cleaning or generation plugin does with a sample.  What *)
(* it measures, paints, plays or rewrites is left out.                     *)
(*                                                                         *)
(* A sample is good, plain (good, with nothing in it for the algorithm to  *)
(* act on), broken (it cannot be decoded), empty (no bytes), other (a file *)
(* of another kind) or missing.  Meeting it, a plugin                      *)
(*   "make"    makes an output, or suggests an action                      *)
(*   "claim"   lists an output it did not write                            *)
(*   "either"  makes one or not: it depends on what the bytes happen to be *)
(*   "review"  suggests that a person looks at it                          *)
(*   "skip"    goes to the next item                                       *)
(*   "raise"   lets the exception out;   a code returns that error         *)
(* refused is an encoder that says no, unwritten a disk that does, deaf an *)
(* optional library that is not installed, off a switch of the form.       *)
(*                                                                         *)
(* opening lists what may end or turn the run before its first item:       *)
(*   "library"           MISSING_DEPENDENCY without torch or librosa       *)
(*   "optional"          without torch the plain loop                      *)
(*   "device"            UNSUPPORTED_DEVICE if the device cannot be set    *)
(*   "images"            samples that are no image are left out            *)
(*   "switch"            its switch off: no item, and that is fine         *)
(*   "patches"           INVALID_PATCH_SIZE if 64 is no multiple of it     *)
(*   "learn"             loads every sample, and with two good ones learns *)
(*   "labelled"          having learned, goes round the labelled samples,  *)
(*                       if there are any                                  *)
(*   "blind"             having learned, opens no file of a sample         *)
(*   "load"              loads every sample, and goes on with those it got *)
(*   "sha", "look"       compares: the checksums of the database, or what  *)
(*                       the samples look like                             *)
(***************************************************************************)
EXTENDS PluginParameters

Plugin(name, declares, reads) ==
  [category |-> "generation", plugin |-> name, opening |-> <<>>, action |-> "make",
   good |-> "make", plain |-> "make", broken |-> "skip", empty |-> "raise",
   other |-> "skip", missing |-> "raise", learned |-> "skip",
   refused |-> "IMAGE_WRITE_ERROR", unwritten |-> "raise", deaf |-> "make",
   off |-> "make", declares |-> declares, reads |-> reads]
=============================================================================
