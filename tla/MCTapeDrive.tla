---------------------------- MODULE MCTapeDrive -----------------------------
(* An instance of TapeDrive for TLC: a tape of two bytes, one of which the *)
(* guest may be behind.                                                      *)
EXTENDS TapeDrive

MCButtons == AllButtons
=============================================================================
