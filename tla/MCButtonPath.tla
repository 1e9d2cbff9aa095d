----------------------------- MODULE MCButtonPath -----------------------------
(* ButtonPath for TLC: the D-pad, where the conflicts are, and one face    *)
(* button for four.                                                        *)
EXTENDS ButtonPath

ScanOrderMC == <<"North", "Up", "Right", "Down", "Left">>
=============================================================================
