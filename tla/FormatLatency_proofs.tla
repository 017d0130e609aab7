------------------------- MODULE FormatLatency_proofs -------------------------
(***************************************************************************)
(* Proofs about formatLatency for every non-negative input, where TLC     *)
(* tries the values up to MaxTenths.                                       *)
(***************************************************************************)
EXTENDS FormatLatency, TLAPS

USE FormatLatencyAssumption

(* RoundHalfUp(a, b) is within half of b / b of a / b: 2|n*b - a| <= b.   *)
LEMMA RoundHalfUpNearest ==
    ASSUME NEW a \in Nat, NEW b \in Nat \ {0}
    PROVE  /\ RoundHalfUp(a, b) \in Nat
           /\ 2 * (RoundHalfUp(a, b) * b - a) <= b
           /\ 2 * (a - RoundHalfUp(a, b) * b) <= b
    BY DEF RoundHalfUp

(* Each branch of formatLatency prints a value within half a unit of its   *)
(* last digit, for every number of microseconds, ties included.            *)
LEMMA FormatNearest ==
    ASSUME NEW x \in Nat
    PROVE  /\ FormatLatency(x) # {}
           /\ \A o \in FormatLatency(x) :
                 o.unit # "none" /\ 2 * (o.mant * Step(o) - x) <= Step(o)
                                 /\ 2 * (x - o.mant * Step(o)) <= Step(o)
    <1>1. x # Missing
        OBVIOUS
    <1>2. CASE x < 10000
        <2>1. FormatLatency(x) = {Shown(RoundHalfUp(x, 10), 0, "us")}
            BY <1>1, <1>2 DEF FormatLatency
        <2>2. RoundHalfUp(x, 10) \in Nat
              /\ 2 * (RoundHalfUp(x, 10) * 10 - x) <= 10
              /\ 2 * (x - RoundHalfUp(x, 10) * 10) <= 10
            BY RoundHalfUpNearest
        <2> QED
            BY <2>1, <2>2 DEF Shown, Step
    <1>3. CASE 10000 <= x /\ x < 100000 /\ x % 1000 = 500
        <2>1. FormatLatency(x) = {Shown(x \div 1000, 1, "ms"),
                                  Shown(x \div 1000 + 1, 1, "ms")}
            BY <1>1, <1>3 DEF FormatLatency
        <2>2. x = (x \div 1000) * 1000 + 500
            BY <1>3
        <2> QED
            BY <2>1, <2>2 DEF Shown, Step
    <1>4. CASE 10000 <= x /\ x < 100000 /\ x % 1000 # 500
        <2>1. FormatLatency(x) = {Shown(RoundHalfUp(x, 1000), 1, "ms")}
            BY <1>1, <1>4 DEF FormatLatency
        <2>2. RoundHalfUp(x, 1000) \in Nat
              /\ 2 * (RoundHalfUp(x, 1000) * 1000 - x) <= 1000
              /\ 2 * (x - RoundHalfUp(x, 1000) * 1000) <= 1000
            BY RoundHalfUpNearest
        <2> QED
            BY <2>1, <2>2 DEF Shown, Step
    <1>5. CASE 100000 <= x
        <2>1. FormatLatency(x) = {Shown(RoundHalfUp(x, 10000), 0, "ms")}
            BY <1>1, <1>5 DEF FormatLatency
        <2>2. RoundHalfUp(x, 10000) \in Nat
              /\ 2 * (RoundHalfUp(x, 10000) * 10000 - x) <= 10000
              /\ 2 * (x - RoundHalfUp(x, 10000) * 10000) <= 10000
            BY RoundHalfUpNearest
        <2> QED
            BY <2>1, <2>2 DEF Shown, Step
    <1> QED
        BY <1>2, <1>3, <1>4, <1>5

(* NearestOnGrid holds in every behaviour, for every bound MaxTenths.      *)
THEOREM OnGrid == Spec => []NearestOnGrid
    <1>1. Init => v \in Inputs
        BY DEF Init
    <1>2. v \in Inputs /\ [Next]_v => (v \in Inputs)'
        BY DEF Next
    <1>3. v \in Inputs => NearestOnGrid
        BY FormatNearest DEF Inputs, NearestOnGrid
    <1> QED
        BY <1>1, <1>2, <1>3, PTL DEF Spec
==============================================================================
