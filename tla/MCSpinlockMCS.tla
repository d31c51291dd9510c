--------------------------- MODULE MCSpinlockMCS ---------------------------
(* SpinlockMCS for TLC: the constants are given in the configuration.      *)
EXTENDS SpinlockMCS
=============================================================================
