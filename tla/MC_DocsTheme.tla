---------------------------- MODULE MC_DocsTheme ----------------------------
(* Model-checking instance of DocsTheme: two toggles, and scroll positions *)
(* on both sides of the 60 px threshold and on it.                         *)
EXTENDS DocsTheme

CONSTANTS t1, t2, none

MCToggles == {t1, t2}
MCTops == {0, 60, 61, 200}
=============================================================================
