------------------------------ MODULE MCInputs ------------------------------
(* Constants of Inputs for TLC: two join-by-code requests in flight, so   *)
(* that one settles while the user has typed again or sent another.      *)
EXTENDS Inputs

MCMaxJoins == 2
=============================================================================
