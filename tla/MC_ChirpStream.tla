--------------------------- MODULE MC_ChirpStream ---------------------------
(* Model-checking instance of ChirpStream: three authors, two of whom the   *)
(* backend knows, and up to four chirps on the socket.                     *)
EXTENDS ChirpStream

CONSTANTS u1, u2, u3

MCUsers == {u1, u2, u3}
MCKnown == {u1, u2}
=============================================================================
