---------------------------- MODULE PluginParameters ----------------------------
(***************************************************************************)
(* The parameters of the training tool's algorithms: what the database     *)
(* offers (DEFAULT_ALGORITHMS of backend/seed_data.py), what a plugin      *)
(* declares (its PARAMETERS), and what its run reads.                      *)
(*                                                                         *)
(* A number is an integer here: the unit of a parameter is the smallest    *)
(* decimal one of the three gives it, the same unit in the three (0.35,    *)
(* 0.8 and 1.0 are 35, 80 and 100).                                        *)
(***************************************************************************)
EXTENDS Integers, Sequences

(* What a form offers: a number between bounds or without, a choice, a     *)
(* switch, or a text nobody restricts.                                     *)
Number(lo, default, hi) == [type |-> "number", default |-> default, range |-> <<lo, hi>>]
Free(default) == [type |-> "number", default |-> default, range |-> <<>>]
Choice(default, options) == [type |-> "choice", default |-> default, options |-> options]
Switch(default) == [type |-> "switch", default |-> default]
Text(default) == [type |-> "text", default |-> default]

NoParameters == [none \in {} |-> {}]

(* What run does with it: parameters.get(name, d), parameters.get(name) or *)
(* d (a zero, an empty text or FALSE becomes d); either one clamped, or    *)
(* made an odd number between odd bounds.                                  *)
Plain(d) == [default |-> d, falsy |-> FALSE, range |-> <<>>, odd |-> FALSE]
Or(d) == [Plain(d) EXCEPT !.falsy = TRUE]
Clamped(lo, d, hi) == [Plain(d) EXCEPT !.range = <<lo, hi>>]
OrClamped(lo, d, hi) == [Or(d) EXCEPT !.range = <<lo, hi>>]
OddClamped(lo, d, hi) == [Clamped(lo, d, hi) EXCEPT !.odd = TRUE]
AtLeast(lo, d) == Clamped(lo, d, 2147483647)
OrAtLeast(lo, d) == OrClamped(lo, d, 2147483647)

(* Mutant of Clamp: the upper bound is taken as exclusive.                 *)
ClampExclusive(range, x) ==
  IF range = <<>> THEN x
  ELSE IF x < range[1] THEN range[1] ELSE IF x >= range[2] THEN range[2] - 1 ELSE x
Clamp(range, x) ==
  IF range = <<>> THEN x
  ELSE IF x < range[1] THEN range[1] ELSE IF x > range[2] THEN range[2] ELSE x

IsFalsy(type, x) ==
  CASE type = "number" -> x = 0
    [] type = "switch" -> x = FALSE
    [] OTHER           -> x = ""

Odd(range, x) ==
  IF x % 2 = 1 THEN x ELSE IF x < range[2] THEN x + 1 ELSE x - 1

(* The value run works with when the form sends x.                         *)
Used(read, type, x) ==
  LET taken == IF read.falsy /\ IsFalsy(type, x) THEN read.default ELSE x
      kept  == Clamp(read.range, taken)
  IN  IF type # "number" THEN taken
      ELSE IF read.odd THEN Odd(read.range, kept) ELSE kept

(* The values of an offer worth trying: its default and the next number,   *)
(* its bounds, and the zero in between; every option; both positions of a  *)
(* switch.                                                                 *)
Tried(offer) ==
  CASE offer.type = "number" ->
         {offer.default} \union
           {x \in {0, offer.default + 1} \union {offer.range[i] : i \in DOMAIN offer.range} :
              offer.range # <<>> /\ Clamp(offer.range, x) = x}
    [] offer.type = "choice" -> {offer.default} \union offer.options
    [] offer.type = "switch" -> BOOLEAN
    [] offer.type = "text"   -> {offer.default}
=============================================================================
