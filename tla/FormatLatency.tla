---------------------------- MODULE FormatLatency ----------------------------
(***************************************************************************)
(* formatLatency (circuitbreaker.jsx), which the dashboard applies to     *)
(* every latency statistic of a breaker.  A value is a JavaScript number   *)
(* of microseconds; the model takes it in tenths of a microsecond, so that *)
(* fractional means and the rounding ties of toFixed are represented, or   *)
(* Missing for a field that is absent (isNaN(undefined) is true).          *)
(*                                                                         *)
(* The result string is modelled by what it says: the printed integer of   *)
(* digits without the decimal point (mant), the number of decimals, and    *)
(* the unit ("none" for the empty string).  x.toFixed(f) picks the integer *)
(* n nearest x * 10^f, the larger one on an exact tie.  value / 1000 is a  *)
(* rounded binary quotient: when value is a multiple of 50 us but not of   *)
(* 100 us the decimal tie is not exact in binary, and which way it falls   *)
(* depends on the quotient's last bit, so that case yields either one.     *)
(***************************************************************************)
EXTENDS Integers

CONSTANTS
    Missing,    \* a latency field that is undefined
    MaxTenths   \* largest value tried, in tenths of a microsecond

ASSUME FormatLatencyAssumption ==
    /\ Missing \notin Int
    /\ MaxTenths \in Nat

Inputs == (0..MaxTenths) \cup {Missing}

(* Nearest integer to a / b, upwards on an exact tie (b > 0, a >= 0).     *)
RoundHalfUp(a, b) == (2 * a + b) \div (2 * b)

Shown(m, d, u) == [mant |-> m, dec |-> d, unit |-> u]

(* The empty string.                                                        *)
Empty == [mant |-> 0, dec |-> 0, unit |-> "none"]

(* Mutant: the millisecond branches cut the quotient off instead of       *)
(* rounding it (Math.floor in place of toFixed).                           *)
FormatLatencyTruncates(x) ==
    IF x = Missing THEN {Empty}
    ELSE IF x < 10000 THEN {Shown(RoundHalfUp(x, 10), 0, "us")}
    ELSE IF x < 100000 THEN {Shown(x \div 1000, 1, "ms")}
    ELSE {Shown(x \div 10000, 0, "ms")}

(* The possible results of formatLatency(x / 10).                          *)
FormatLatency(x) ==
    IF x = Missing THEN {Empty}
    ELSE IF x < 10000 THEN {Shown(RoundHalfUp(x, 10), 0, "us")}
    ELSE IF x < 100000 THEN
        IF x % 1000 = 500 THEN {Shown(x \div 1000, 1, "ms"),
                                Shown(x \div 1000 + 1, 1, "ms")}
        ELSE {Shown(RoundHalfUp(x, 1000), 1, "ms")}
    ELSE {Shown(RoundHalfUp(x, 10000), 0, "ms")}

VARIABLE v      \* the value given to formatLatency

Init == v \in Inputs

Next == UNCHANGED v

Spec == Init /\ [][Next]_v

-----------------------------------------------------------------------------
(* Tenths of a microsecond that one unit of the last printed digit is.    *)
Step(o) == IF o.unit = "us" THEN 10 ELSE IF o.dec = 1 THEN 1000 ELSE 10000

(* Every string formatLatency can return for a number states the value to *)
(* within half a unit of its last digit: no branch truncates, scales by   *)
(* the wrong power of ten or picks the wrong unit, across the 1000 us and *)
(* 10000 us boundaries and the binary ties of the one-decimal branch.      *)
NearestOnGrid ==
    v # Missing =>
        /\ FormatLatency(v) # {}
        /\ \A o \in FormatLatency(v) :
               o.unit # "none" /\ 2 * (o.mant * Step(o) - v) <= Step(o)
                      /\ 2 * (v - o.mant * Step(o)) <= Step(o)
==============================================================================
