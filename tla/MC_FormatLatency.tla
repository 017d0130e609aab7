------------------------- MODULE MC_FormatLatency -------------------------
(* Every value from 0 to 12 ms in steps of 0.1 us, and a missing field.    *)
EXTENDS FormatLatency

CONSTANT missing

(* The examples of the design document (spec section 8): NaN gives "",   *)
(* 500 gives "500 us", 1500 gives "1.5 ms" and 15000 gives "15 ms".        *)
ASSUME SpecExamples ==
    /\ FormatLatency(Missing) = {Empty}
    /\ FormatLatency(5000) = {Shown(500, 0, "us")}
    /\ FormatLatency(15000) = {Shown(15, 1, "ms")}
    /\ FormatLatency(150000) = {Shown(15, 0, "ms")}
=============================================================================
