------------------------------ MODULE JsNumber ------------------------------
(***************************************************************************)
(* The JavaScript numbers the two front ends compute money with.          *)
(*                                                                         *)
(* An amount is an integer count of units, Scale units to the cent.  A     *)
(* JavaScript number is an IEEE-754 double, so a decimal literal such as   *)
(* 4.99 and the result of every + and * is the nearest double to the      *)
(* exact value, not the exact value.  The model does not compute that      *)
(* double: it lets the result be any non-negative amount within RoundErr  *)
(* units of the exact one, and keeps 0 exact (0 and small integers are     *)
(* doubles).  With RoundErr units far larger than the real error of a     *)
(* double at these magnitudes, every real run is one of the model's.       *)
(***************************************************************************)
EXTENDS Integers

CONSTANTS
    Scale,      \* units per cent
    RoundErr    \* largest rounding error of one operation, in units

ASSUME NumberAssumption ==
    /\ Scale \in Nat \ {0}
    /\ RoundErr \in Nat

\* The doubles an operation whose exact result is r (in units) may yield.
Double(r) ==
    IF r = 0 THEN {0}
    ELSE {v \in (r - RoundErr)..(r + RoundErr) : v >= 0}

\* The doubles a decimal literal of c cents may be parsed to.
Literal(c) == Double(c * Scale)

\* Mutation: formatting that truncates to the cent (Math.floor(x * 100)
\* / 100) instead of rounding.
ToFixed2Truncated(v) == v \div Scale

\* Number.prototype.toFixed(2) of a non-negative double v, as a count of
\* cents: the n whose n/100 is nearest to v, the larger one on a tie.
ToFixed2(v) == (2 * v + Scale) \div (2 * Scale)

=============================================================================
